------------------------------- MODULE ConnLog -------------------------------
(***************************************************************************)
(* The history of closed connections (stats/connlog.go, connlog_disk.go,   *)
(* logfile/logfile.go): a ring in memory, rotated files on disk when       *)
(* persisted, and the /connections query that reads one or the other while *)
(* connections go on closing.  The connections themselves are in Stats,    *)
(* which extends this module.                                              *)
(*                                                                         *)
(* A record keeps what the properties tell apart: its id, the order in     *)
(* which its connection was opened, and whether it ended with an error.    *)
(* Addresses, byte counts and times are left out.                          *)
(***************************************************************************)
EXTENDS Integers, Sequences, SequencesExt, FiniteSets, TLC

CONSTANTS
    MaxConnLog,   \* records in the ring (4096 in the code)
    FileRecords,  \* records per file, standing for connFileMaxSize
    Backups,      \* connFileBackups
    Limit,        \* limit= of the query, 0 for all
    TrimAt        \* list length at which connList trims (4*limit+64)

VARIABLES
    ring,    \* connLogRing: buf and next
    persisted, \* connFile is set: PersistConnLog succeeded
    files,   \* files on disk, the current one first
    query    \* the /connections request in progress

logvars == <<ring, persisted, files, query>>

Idle == [pc |-> "idle", f |-> [errOnly |-> FALSE], active |-> {},
         closed |-> <<>>, list |-> <<>>, left |-> 0, rotated |-> FALSE]

LogInit ==
    /\ ring = [buf |-> <<>>, next |-> 0]
    /\ persisted \in BOOLEAN
    /\ files = << <<>> >>
    /\ query = Idle

(***************************************************************************)
(* connLogRing.  The slots are 0..MaxConnLog-1 in the code, 1..MaxConnLog  *)
(* in the sequence; next is the slot that is overwritten.                  *)
(***************************************************************************)

RingAdd(r, rec) ==
    IF Len(r.buf) < MaxConnLog
    THEN [r EXCEPT !.buf = Append(@, rec)]
    ELSE [buf |-> [r.buf EXCEPT ![r.next + 1] = rec],
          next |-> (r.next + 1) % MaxConnLog]

\* connLogRing.each: the records, oldest first.
RingEach(r) ==
    LET n == Len(r.buf)
    IN  [i \in 1..n |-> r.buf[((r.next + i - 1) % n) + 1]]

(***************************************************************************)
(* RotatingWriter.Write with rotate: the oldest backup is removed, the     *)
(* others move up by one, a new current file is created.  The renames are  *)
(* one step here; a query that sees them half done is covered by rotated,  *)
(* which excludes every query that overlaps a rotation.                    *)
(***************************************************************************)
Full(fs) == Len(fs[1]) >= FileRecords

RotateWrite(fs, rec) ==
    IF Full(fs)
    THEN [j \in 1 .. 1 + (IF Len(fs) <= Backups THEN Len(fs) ELSE Backups) |->
             IF j = 1 THEN <<rec>> ELSE fs[j - 1]]
    ELSE [fs EXCEPT ![1] = Append(@, rec)]

\* persistConn: runs after the lock of Counters has been released.
Persist(rec) ==
    IF persisted
    THEN /\ files' = RotateWrite(files, rec)
         /\ query' = IF Full(files) /\ query.pc # "idle"
                     THEN [query EXCEPT !.rotated = TRUE] ELSE query
    ELSE UNCHANGED <<files, query>>

(***************************************************************************)
(* The query.  match and the list of results.                              *)
(***************************************************************************)
Match(f, rec) == f.errOnly => rec.err

\* sortConns with the default order: by open time, records of one time as they
\* came, and of these the newest limit.
Earlier(recs, i, j) ==
    \/ recs[i].opened < recs[j].opened
    \/ recs[i].opened = recs[j].opened /\ i < j

NotEarlier(recs, i) == {j \in DOMAIN recs : ~Earlier(recs, j, i)}

SortConns(recs) ==
    LET n == IF Limit > 0 /\ Len(recs) > Limit THEN Limit ELSE Len(recs)
    IN  [k \in 1 .. n |->
            recs[CHOOSE i \in DOMAIN recs : Cardinality(NotEarlier(recs, i)) = n - k + 1]]

ListAdd_Unsorted(list, rec) ==
    LET l == Append(list, rec)
    IN  IF Limit > 0 /\ Len(l) >= TrimAt
        THEN SubSeq(l, Len(l) - Limit + 1, Len(l)) ELSE l

\* connList.add: sort and cut as soon as the list has grown to TrimAt.
ListAdd(list, rec) ==
    LET l == Append(list, rec)
    IN  IF Limit > 0 /\ Len(l) >= TrimAt THEN SortConns(l) ELSE l

\* The records that match, and a list after they were added to it.
Matching(f, recs) ==
    LET kept[n \in 0 .. Len(recs)] ==
            IF n = 0 THEN <<>>
            ELSE IF Match(f, recs[n]) THEN Append(kept[n - 1], recs[n]) ELSE kept[n - 1]
    IN  kept[Len(recs)]

Collect(list, f, recs) ==
    LET kept[n \in 0 .. Len(recs)] ==
            IF n = 0 THEN list
            ELSE IF Match(f, recs[n]) THEN ListAdd(kept[n - 1], recs[n]) ELSE kept[n - 1]
    IN  kept[Len(recs)]

(***************************************************************************)
(* eachMatching: the open connections, and the ring when there is no file, *)
(* are taken in one locked section; the files are read afterwards, the     *)
(* oldest first.  open is the set of records of the connections now open.  *)
(* connFile.files lists the files once; each is opened by its name later.  *)
(***************************************************************************)
QueryStart(f, open) ==
    LET closed == IF persisted THEN <<>> ELSE RingEach(ring)
    IN  /\ query.pc = "idle"
        /\ query' = [pc |-> IF persisted THEN "files" ELSE "done", f |-> f,
                     active |-> {r \in open : Match(f, r)},
                     closed |-> Matching(f, closed),
                     list |-> Collect(<<>>, f, closed),
                     left |-> 0, rotated |-> FALSE]
        /\ UNCHANGED <<ring, persisted, files>>

QueryFiles ==
    /\ query.pc = "files"
    /\ query' = [query EXCEPT !.pc = "read", !.left = Len(files)]
    /\ UNCHANGED <<ring, persisted, files>>

QueryRead ==
    /\ query.pc = "read"
    /\ query' =
         IF query.left = 0
         THEN [query EXCEPT !.pc = "done"]
         ELSE LET recs == files[query.left]
              IN  [query EXCEPT !.left = @ - 1,
                     !.closed = @ \o Matching(query.f, recs),
                     !.list = Collect(@, query.f, recs)]
    /\ UNCHANGED <<ring, persisted, files>>

\* connections: the answer is sent and the request ends.
QueryAnswer ==
    /\ query.pc = "done"
    /\ query' = Idle
    /\ UNCHANGED <<ring, persisted, files>>

\* connList.result, the closed connections of the answer.
Result == SortConns(query.list)
=============================================================================
