-------------------------------- MODULE Stats --------------------------------
(***************************************************************************)
(* stats.Counters: the connections that are open, the aggregates per       *)
(* destination with their eviction, the channel of connection events, and  *)
(* the subscribers of the event stream, over HTTP (handleSSE) or in the    *)
(* process (Subscribe).                                                    *)
(*                                                                         *)
(* Every connection is handled by a goroutine of its own.  It changes the  *)
(* tables under Counters.mu and queues its event, and writes its record to *)
(* disk, after it has released the lock, so those are steps of their own.  *)
(* The broadcaster is one goroutine; a reader belongs to each subscriber.  *)
(*                                                                         *)
(* Byte counts, rates, round-trip times and process names are left out.    *)
(***************************************************************************)
EXTENDS ConnLog, Functions, FiniteSetsExt

CONSTANTS
    MaxConns,     \* bound on nextConnID
    Dests,        \* destination keys
    MaxDests,     \* maxDests (2048 in the code)
    EventCap,     \* capacity of connEventCh (512)
    QueueCap,     \* capacity of a subscriber's channel (256)
    Http,         \* subscribers through handleSSE
    InProcess     \* subscribers through Subscribe

Subscribers == Http \cup InProcess
Ids == 1..MaxConns

VARIABLES
    nextConnID,
    pc,         \* pc[i]: where the goroutine of connection i is
    conns,      \* conns: id -> destination key and open order
    dests,      \* dests: key -> activeConns
    recent,     \* the keys of dests by lastSeenAt, oldest first
    events,     \* connEventCh
    sub,        \* the subscribers
    bcast,      \* the broadcaster: idle, or about to send a snapshot
    closed,     \* closeCh
    logged,     \* history: the records in the order they entered the log
    lost,       \* history: connEventCh was full and an event was dropped
    before      \* history: ids on disk, or in the ring, when the query began

tables == <<nextConnID, conns, dests, recent>>
stream == <<events, sub, bcast, lost>>
vars == <<logvars, tables, pc, stream, closed, logged, before>>

ASSUME StatsAssumption ==
    /\ MaxConns \in Nat \ {0} /\ MaxDests \in Nat \ {0}
    /\ EventCap \in Nat \ {0} /\ QueueCap \in Nat \ {0}
    /\ MaxConnLog \in Nat \ {0} /\ FileRecords \in Nat \ {0}
    /\ Backups \in Nat /\ Limit \in Int
    /\ Http \cap InProcess = {}

Off == [st |-> "off", snap |-> {}, q |-> <<>>, view |-> {}, lossy |-> FALSE]

Init ==
    /\ LogInit
    /\ nextConnID = 0
    /\ pc = [i \in Ids |-> "none"]
    /\ conns = <<>> /\ dests = <<>> /\ recent = <<>>
    /\ events = <<>> /\ bcast = [pc |-> "idle", snap |-> {}]
    /\ sub = [s \in Subscribers |-> Off]
    /\ closed = FALSE
    /\ logged = <<>> /\ lost = FALSE /\ before = {}

(***************************************************************************)
(* Destinations.  evictDestsLocked removes the least recently seen keys    *)
(* without connections, down to 7/8 of the limit.                          *)
(***************************************************************************)
Keep == (MaxDests * 7) \div 8

Evicted(ds, order) ==
    IF Cardinality(DOMAIN ds) <= MaxDests THEN {}
    ELSE LET cands == SelectSeq(order, LAMBDA d : ds[d] <= 0)
             target == Cardinality(DOMAIN ds) - Keep
         IN  ToSet(SubSeq(cands, 1, Min({target, Len(cands)})))

Touch(order, d) == Append(SelectSeq(order, LAMBDA e : e # d), d)

(***************************************************************************)
(* ConnOpenRoute.  A new destination enters the map with no connection and *)
(* the zero time, so it is the first candidate of the eviction its own     *)
(* arrival causes; its count is raised only afterwards, in or out of the   *)
(* map.                                                                    *)
(***************************************************************************)
ConnOpenRoute(d) ==
    LET id == nextConnID + 1
        added == IF d \in DOMAIN dests THEN dests ELSE (d :> 0) @@ dests
        order == IF d \in DOMAIN dests THEN recent ELSE <<d>> \o recent
        out == IF d \in DOMAIN dests THEN {} ELSE Evicted(added, order)
        kept == Restrict(added, DOMAIN added \ out)
        left == SelectSeq(order, LAMBDA e : e \notin out)
    IN  /\ id \in Ids
        /\ nextConnID' = id
        /\ conns' = [i \in {id} \cup DOMAIN conns |->
                        IF i = id THEN [dest |-> d, opened |-> id] ELSE conns[i]]
        /\ dests' = IF d \in out THEN kept ELSE [kept EXCEPT ![d] = @ + 1]
        /\ recent' = IF d \in out THEN left ELSE Touch(left, d)
        /\ pc' = [pc EXCEPT ![id] = "opening"]
        /\ UNCHANGED <<logvars, stream, closed, logged, before>>

(***************************************************************************)
(* Queueing an event: select with default, so a full channel drops it.     *)
(***************************************************************************)
SendEvent(id, action, next) ==
    /\ IF Len(events) < EventCap
       THEN /\ events' = Append(events, [t |-> action, id |-> id])
            /\ lost' = lost
       ELSE /\ events' = events
            /\ lost' = TRUE
    /\ pc' = [pc EXCEPT ![id] = next]
    /\ UNCHANGED <<logvars, tables, sub, bcast, closed, logged, before>>

OpenEvent(id) == pc[id] = "opening" /\ SendEvent(id, "open", "open")

(***************************************************************************)
(* ConnCloseErr: the count of the destination, the record in the ring and  *)
(* the removal of the connection are one locked section; then the record   *)
(* goes to disk, then the event is queued.                                 *)
(***************************************************************************)
RecordOf(id, err) == [id |-> id, opened |-> conns[id].opened, err |-> err]

ConnCloseErr(id, err) ==
    LET d == conns[id].dest
        rec == RecordOf(id, err)
    IN  /\ pc[id] = "open"
        /\ dests' = IF d \in DOMAIN dests THEN [dests EXCEPT ![d] = @ - 1] ELSE dests
        /\ recent' = IF d \in DOMAIN dests THEN Touch(recent, d) ELSE recent
        /\ ring' = RingAdd(ring, rec)
        /\ logged' = Append(logged, rec)
        /\ conns' = Restrict(conns, DOMAIN conns \ {id})
        /\ pc' = [pc EXCEPT ![id] = "persist"]
        /\ UNCHANGED <<nextConnID, persisted, files, query, stream, closed, before>>

Logged(id) == CHOOSE r \in ToSet(logged) : r.id = id

PersistConn(id) ==
    /\ pc[id] \in {"persist", "failed"}
    /\ Persist(Logged(id))
    /\ pc' = [pc EXCEPT ![id] = IF pc[id] = "persist" THEN "closing" ELSE "done"]
    /\ UNCHANGED <<ring, persisted, tables, stream, closed, logged, before>>

CloseEvent(id) == pc[id] = "closing" /\ SendEvent(id, "close", "done")

\* A second ConnClose of the same id, which the UDP relay can make: nothing
\* is in the table any more, only the event is queued again.
ConnCloseAgain(id) ==
    /\ pc[id] = "done" /\ id \notin {logged[i].id : i \in {j \in DOMAIN logged : logged[j].err}}
    /\ SendEvent(id, "close", "done")

\* ConnFailed: startedAt is when the client was accepted, so the record may
\* be older than connections that were opened before it got its id.
ConnFailed(started) ==
    LET id == nextConnID + 1
        rec == [id |-> id, opened |-> started, err |-> TRUE]
    IN  /\ id \in Ids /\ started \in 1..id
        /\ nextConnID' = id
        /\ ring' = RingAdd(ring, rec)
        /\ logged' = Append(logged, rec)
        /\ pc' = [pc EXCEPT ![id] = "failed"]
        /\ UNCHANGED <<persisted, files, query, conns, dests, recent, stream, closed, before>>

ConnStep ==
    \/ \E d \in Dests : ConnOpenRoute(d)
    \/ \E k \in Ids : ConnFailed(k)
    \/ \E i \in Ids : \/ OpenEvent(i) \/ PersistConn(i) \/ CloseEvent(i)
                      \/ ConnCloseAgain(i)
                      \/ \E err \in BOOLEAN : ConnCloseErr(i, err)

(***************************************************************************)
(* Subscribers.  Registering and taking the snapshot are one locked        *)
(* section.  handleSSE then writes the snapshot to the connection before   *)
(* it reads the channel; Subscribe sends it into the channel, which other  *)
(* messages may have entered first, and returns the channel to the reader  *)
(* only after that.                                                        *)
(***************************************************************************)
OpenConns == DOMAIN conns

Subscribe(s) ==
    /\ sub[s].st = "off"
    /\ s \in Http => ~closed
    /\ sub' = [sub EXCEPT ![s] = [Off EXCEPT !.st = "registered", !.snap = OpenConns]]
    /\ UNCHANGED <<logvars, tables, pc, events, bcast, lost, closed, logged, before>>

HttpSnapshot(s) ==
    /\ s \in Http /\ sub[s].st = "registered"
    /\ sub' = [sub EXCEPT ![s].st = "on", ![s].view = sub[s].snap, ![s].snap = {}]
    /\ UNCHANGED <<logvars, tables, pc, events, bcast, lost, closed, logged, before>>

LocalSnapshot(s) ==
    /\ s \in InProcess /\ sub[s].st = "registered"
    /\ IF sub[s].snap = {}
       THEN sub' = [sub EXCEPT ![s].st = "on"]
       ELSE /\ Len(sub[s].q) < QueueCap
            /\ sub' = [sub EXCEPT ![s].st = "on", ![s].snap = {},
                         ![s].q = Append(@, [t |-> "snapshot", ids |-> sub[s].snap])]
    /\ UNCHANGED <<logvars, tables, pc, events, bcast, lost, closed, logged, before>>

\* What the reader knows of the open connections after a message.
Applied(view, m) ==
    CASE m.t = "open" -> view \cup {m.id}
      [] m.t = "close" -> view \ {m.id}
      [] OTHER -> m.ids

Read(s) ==
    /\ sub[s].st = "on" /\ sub[s].q # <<>>
    /\ sub' = [sub EXCEPT ![s].view = Applied(@, Head(sub[s].q)), ![s].q = Tail(@)]
    /\ UNCHANGED <<logvars, tables, pc, events, bcast, lost, closed, logged, before>>

\* The cancel function, or the end of the HTTP request.
Unsubscribe(s) ==
    /\ sub[s].st = "on"
    /\ sub' = [sub EXCEPT ![s] = Off]
    /\ UNCHANGED <<logvars, tables, pc, events, bcast, lost, closed, logged, before>>

(***************************************************************************)
(* The broadcaster.  broadcast puts a message into every channel that has  *)
(* room.  A connections_snapshot is built in one locked section and        *)
(* broadcast in another.                                                   *)
(***************************************************************************)
Broadcast_OnlyOn(subs, m) ==
    [s \in Subscribers |->
        IF subs[s].st # "on" THEN subs[s]
        ELSE IF Len(subs[s].q) < QueueCap
             THEN [subs[s] EXCEPT !.q = Append(@, m)]
             ELSE [subs[s] EXCEPT !.lossy = TRUE]]

Broadcast(subs, m) ==
    [s \in Subscribers |->
        IF subs[s].st = "off" THEN subs[s]
        ELSE IF Len(subs[s].q) < QueueCap
             THEN [subs[s] EXCEPT !.q = Append(@, m)]
             ELSE [subs[s] EXCEPT !.lossy = TRUE]]

BroadcastEvent ==
    /\ ~closed /\ bcast.pc = "idle" /\ events # <<>>
    /\ sub' = Broadcast(sub, Head(events))
    /\ events' = Tail(events)
    /\ UNCHANGED <<logvars, tables, pc, bcast, lost, closed, logged, before>>

\* A tick at which the snapshot is due.  The messages of the other ticks, and
\* the destinations_snapshot, only take room in the channels: they are left
\* out, and QueueCap stands for the room that is left.
Tick ==
    /\ ~closed /\ bcast.pc = "idle"
    /\ bcast' = [pc |-> "snapshot", snap |-> OpenConns]
    /\ UNCHANGED <<logvars, tables, pc, events, sub, lost, closed, logged, before>>

BroadcastSnapshot_Skipped ==
    /\ bcast.pc = "snapshot"
    /\ bcast' = [pc |-> "idle", snap |-> {}]
    /\ UNCHANGED <<logvars, tables, pc, events, sub, lost, closed, logged, before>>

BroadcastSnapshot ==
    /\ bcast.pc = "snapshot"
    /\ sub' = Broadcast(sub, [t |-> "snapshot", ids |-> bcast.snap])
    /\ bcast' = [pc |-> "idle", snap |-> {}]
    /\ UNCHANGED <<logvars, tables, pc, events, lost, closed, logged, before>>

\* Counters.Close: the broadcaster returns at its next select.
CloseCounters ==
    /\ ~closed
    /\ closed' = TRUE
    /\ UNCHANGED <<logvars, tables, pc, stream, logged, before>>

(***************************************************************************)
(* The query of ConnLog over the connections of this module.               *)
(***************************************************************************)
Stored == IF persisted THEN UNION {ToSet(files[k]) : k \in DOMAIN files}
                       ELSE ToSet(ring.buf)

Query ==
    /\ \/ /\ \E e \in BOOLEAN :
               QueryStart([errOnly |-> e], {RecordOf(i, FALSE) : i \in OpenConns})
          /\ before' = Stored
       \/ (QueryFiles \/ QueryRead \/ QueryAnswer) /\ UNCHANGED before
    /\ UNCHANGED <<tables, pc, stream, closed, logged>>

StreamStep ==
    \/ \E s \in Subscribers : \/ Subscribe(s) \/ HttpSnapshot(s) \/ LocalSnapshot(s)
                              \/ Read(s) \/ Unsubscribe(s)
    \/ BroadcastEvent \/ Tick \/ BroadcastSnapshot
    \/ CloseCounters

Next == ConnStep \/ StreamStep \/ Query

(***************************************************************************)
(* Fairness: goroutines that have work to do get to run, and the reader of *)
(* a subscription reads.  The strong fairness says that a reader is not    *)
(* always behind when a snapshot is due, once in three seconds.            *)
(***************************************************************************)
CaughtUp == \A s \in Subscribers : sub[s].q = <<>>

Fairness ==
    /\ \A i \in Ids : WF_vars(OpenEvent(i) \/ PersistConn(i) \/ CloseEvent(i))
    /\ \A s \in Subscribers : WF_vars(HttpSnapshot(s) \/ LocalSnapshot(s) \/ Read(s))
    /\ WF_vars(BroadcastEvent) /\ WF_vars(BroadcastSnapshot)
    /\ SF_vars(CaughtUp /\ Tick)

Spec == Init /\ [][Next]_vars /\ Fairness

(***************************************************************************)
(* Properties.                                                             *)
(***************************************************************************)
TypeOK ==
    /\ nextConnID \in 0..MaxConns
    /\ DOMAIN conns \subseteq Ids
    /\ ToSet(recent) = DOMAIN dests /\ Len(recent) = Cardinality(DOMAIN dests)
    /\ Len(events) <= EventCap
    /\ \A s \in Subscribers : Len(sub[s].q) <= QueueCap
    /\ Len(ring.buf) <= MaxConnLog /\ Len(files) <= Backups + 1

Quiet == /\ events = <<>> /\ bcast.pc = "idle"
         /\ \A i \in Ids : pc[i] \in {"none", "open", "failed", "done"}

\* A client of the HTTP stream to which nothing was dropped knows exactly the
\* open connections once all events have been delivered: registering and
\* snapshotting atomically means that no close is missed, whatever was queued
\* before it registered.
ViewExact ==
    \A s \in Http :
        (Quiet /\ ~lost /\ sub[s].st = "on" /\ ~sub[s].lossy /\ sub[s].q = <<>>)
            => sub[s].view = OpenConns

\* A connection that has ended leaves the view of every subscriber, although
\* its event may have been dropped or overtaken by an older snapshot.
EndedForgotten ==
    \A s \in Subscribers : \A i \in Ids :
        (pc[i] = "done") ~> (i \notin sub[s].view \/ closed)

\* Eviction never takes a destination that is counted as having connections.
LiveDestKept ==
    [][\A d \in DOMAIN dests \ DOMAIN dests' : dests[d] <= 0]_vars

\* The ring holds the most recently closed connections, read oldest first.
RingLatest ==
    LET n == Min({MaxConnLog, Len(logged)})
    IN  RingEach(ring) = SubSeq(logged, Len(logged) - n + 1, Len(logged))

\* An answer of /connections with no rotation in between has every record that
\* was in the history when the request began, once, and trimming the list while
\* it is collected gives what sorting all of it would.
AnswerExact ==
    query.pc = "done" =>
        /\ Result = SortConns(query.closed)
        /\ ~query.rotated =>
             \A r \in before : Match(query.f, r) =>
                 Cardinality({k \in DOMAIN query.closed : query.closed[k] = r}) = 1

\* What the comment of evictDestsLocked says: a destination with a live
\* connection is in the map.
LiveDestRetained == \A i \in OpenConns : conns[i].dest \in DOMAIN dests
=============================================================================
