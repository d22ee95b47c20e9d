-------------------------------- MODULE Trace --------------------------------
(***************************************************************************)
(* A trace of the route to a host: the diagnostics page of the TUI         *)
(* (internal/tui/page_diagnostics.go) and internal/nexttrace, which fetches *)
(* the tool once into a directory all programs of the user share.          *)
(*                                                                         *)
(* start spawns a goroutine that ensures the tool, runs it and sends       *)
(* events through a channel of the run; the page reads one event at a      *)
(* time, each read asked for by the update that handled the last.          *)
(*                                                                         *)
(* A file is an inode under the name of the download or of the tool; its   *)
(* content is the sequence of blocks written, numbers for genuine ones.    *)
(***************************************************************************)
EXTENDS Integers, Sequences

CONSTANTS
    Programs,     \* programs that share the directory
    FileBlocks,   \* blocks of the released tool
    ChanRoom,     \* capacity of the event channel
    MaxRunsEach, MaxTraceHops, MaxFaultsAll, MaxDeaths

ASSUME TraceAssumption ==
    /\ FileBlocks \in Nat \ {0} /\ ChanRoom \in Nat \ {0}
    /\ MaxRunsEach \in Nat /\ MaxTraceHops \in Nat
    /\ MaxFaultsAll \in Nat /\ MaxDeaths \in Nat

VARIABLES
    store,    \* contents of the inodes
    partOf,   \* inode under the name of the download, 0 for none
    tool,     \* inode under the name of the tool, 0 for none
    prog,     \* prog[p]: page and goroutine of a program
    runs, shown, ill, deaths

tvars == <<store, partOf, tool, prog, runs, shown, ill, deaths>>
toolFiles == <<store, partOf, tool>>
tallies == <<runs, shown, ill, deaths>>

Tampered == 0     \* a block that is not the released one
Gap == -1         \* a block never written
Genuine == [i \in 1..FileBlocks |-> i]

\* The page: busy is "no", "downloading" or "running".  The goroutine: pc, the
\* inode it writes and what it has received; child says that nexttrace runs.
NoRun == [busy |-> "no", cancelled |-> FALSE, wait |-> FALSE, ch |-> <<>>,
          pc |-> "off", ino |-> 0, got |-> <<>>, child |-> FALSE]

TInit ==
    /\ store = <<>> /\ partOf = 0 /\ tool = 0
    /\ prog = [p \in Programs |-> NoRun]
    /\ runs = [p \in Programs |-> 0] /\ shown = [p \in Programs |-> 0]
    /\ ill = 0 /\ deaths = 0

Set(p, r) == prog' = [prog EXCEPT ![p] = r]
Go(p, pc) == Set(p, [prog[p] EXCEPT !.pc = pc])
Room(p) == Len(prog[p].ch) < ChanRoom
Fails == ill < MaxFaultsAll /\ ill' = ill + 1

(***************************************************************************)
(* The page.                                                               *)
(***************************************************************************)
Start(p) ==
    /\ prog[p].busy = "no" /\ runs[p] < MaxRunsEach
    /\ Set(p, [NoRun EXCEPT !.busy = IF tool = 0 THEN "downloading" ELSE "running",
                            !.wait = TRUE, !.pc = "find"])
    /\ runs' = [runs EXCEPT ![p] = @ + 1] /\ shown' = [shown EXCEPT ![p] = 0]
    /\ UNCHANGED <<toolFiles, ill, deaths>>

Stop(p) ==
    /\ prog[p].busy # "no" /\ ~prog[p].cancelled
    /\ Set(p, [prog[p] EXCEPT !.cancelled = TRUE])
    /\ UNCHANGED <<toolFiles, tallies>>

\* onTrace: one event is applied and, unless it was the last, the next asked
\* for.  An event of an earlier run is impossible: start needs the last event
\* of the run before.
Rewait(m) == m # "done"
OnTrace(p) ==
    LET m == Head(prog[p].ch) IN
    /\ prog[p].wait /\ prog[p].ch # <<>>
    /\ Set(p, [prog[p] EXCEPT !.ch = Tail(@), !.wait = Rewait(m),
                 !.busy = CASE m = "started" -> "running" [] m = "done" -> "no" [] OTHER -> @,
                 !.cancelled = @ /\ m # "done"])
    /\ UNCHANGED <<toolFiles, tallies>>

(***************************************************************************)
(* Ensure and download.                                                    *)
(***************************************************************************)
Find(p) ==
    /\ prog[p].pc = "find"
    /\ Go(p, IF tool # 0 THEN "ready" ELSE "request")
    /\ UNCHANGED <<toolFiles, tallies>>

\* The request is made and the file of the download created or emptied.
Request(p) ==
    LET i == IF partOf # 0 THEN partOf ELSE Len(store) + 1 IN
    /\ prog[p].pc = "request" /\ ~prog[p].cancelled
    /\ store' = IF partOf # 0 THEN [store EXCEPT ![i] = <<>>] ELSE Append(store, <<>>)
    /\ partOf' = i
    /\ Set(p, [prog[p] EXCEPT !.pc = "read", !.ino = i])
    /\ UNCHANGED <<tool, tallies>>

\* No answer, or one that is not a success.
RequestFails(p) ==
    /\ prog[p].pc = "request" /\ IF prog[p].cancelled THEN ill' = ill ELSE Fails
    /\ Go(p, "undo")
    /\ UNCHANGED <<toolFiles, runs, shown, deaths>>

\* A block is read, written at the program's own offset and hashed; the
\* progress event is dropped when the channel is full.
Placed(s, i, b) == [j \in 1..(IF i > Len(s) THEN i ELSE Len(s)) |->
                       IF j = i THEN b ELSE IF j <= Len(s) THEN s[j] ELSE Gap]
ReadBlock(p) ==
    LET n == Len(prog[p].got) + 1 IN
    /\ prog[p].pc = "read" /\ n <= FileBlocks
    /\ \E b \in {n, Tampered} :
          /\ IF b = Tampered THEN Fails ELSE ill' = ill
          /\ store' = [store EXCEPT ![prog[p].ino] = Placed(@, n, b)]
          /\ Set(p, [prog[p] EXCEPT !.got = Append(@, b),
                       !.ch = IF Room(p) THEN Append(@, "dl") ELSE @])
    /\ UNCHANGED <<partOf, tool, runs, shown, deaths>>

\* The read fails (always so once the context is cancelled) or the write does.
DownloadFails(p) ==
    /\ prog[p].pc = "read" /\ IF prog[p].cancelled THEN ill' = ill ELSE Fails
    /\ partOf' = 0 /\ Go(p, "undo")
    /\ UNCHANGED <<store, tool, runs, shown, deaths>>

\* The end of the body: of the whole tool, or early where the server did not
\* say how long it is.
ReadEnd(p) ==
    /\ prog[p].pc = "read"
    /\ IF Len(prog[p].got) = FileBlocks THEN ill' = ill ELSE Fails
    /\ Go(p, "verify")
    /\ UNCHANGED <<toolFiles, runs, shown, deaths>>

\* The hash is that of what was received.
Verified_Fault(got) == Len(got) = FileBlocks
Verified(got) == got = Genuine
Verify(p) ==
    /\ prog[p].pc = "verify"
    /\ IF Verified(prog[p].got) THEN partOf' = partOf /\ Go(p, "install")
                                ELSE partOf' = 0 /\ Go(p, "undo")
    /\ UNCHANGED <<store, tool, tallies>>

\* chmod and rename, by name.
Install(p) ==
    /\ prog[p].pc = "install"
    /\ IF partOf # 0 THEN tool' = partOf /\ Go(p, "ready") ELSE tool' = tool /\ Go(p, "undo")
    /\ partOf' = 0
    /\ UNCHANGED <<store, tallies>>

\* Ensure: whatever failed, the name of the tool is removed.
Undo(p) ==
    /\ prog[p].pc = "undo" /\ tool' = 0 /\ Go(p, "report")
    /\ UNCHANGED <<store, partOf, tallies>>

(***************************************************************************)
(* Run.  Sends block while the channel is full.                            *)
(***************************************************************************)
Send(p, m, pc) == Room(p) /\ Set(p, [prog[p] EXCEPT !.ch = Append(@, m), !.pc = pc])

Ready(p) ==
    /\ prog[p].pc = "ready" /\ Send(p, "started", "exec")
    /\ UNCHANGED <<toolFiles, tallies>>

Exec(p) ==
    /\ prog[p].pc = "exec"
    /\ IF tool # 0 /\ ~prog[p].cancelled
       THEN Set(p, [prog[p] EXCEPT !.pc = "trace", !.child = TRUE])
       ELSE Go(p, "report")
    /\ UNCHANGED <<toolFiles, tallies>>

OnHop(p) ==
    /\ prog[p].pc = "trace" /\ prog[p].child /\ shown[p] < MaxTraceHops
    /\ Send(p, "hop", "trace")
    /\ shown' = [shown EXCEPT ![p] = @ + 1]
    /\ UNCHANGED <<toolFiles, runs, ill, deaths>>

\* nexttrace ends, by itself or because the context was cancelled.
ChildEnds(p) ==
    /\ prog[p].child /\ Set(p, [prog[p] EXCEPT !.child = FALSE])
    /\ UNCHANGED <<toolFiles, tallies>>

Waited(p) ==
    /\ prog[p].pc = "trace" /\ ~prog[p].child /\ Go(p, "report")
    /\ UNCHANGED <<toolFiles, tallies>>

Report(p) ==
    /\ prog[p].pc = "report" /\ Send(p, "done", "off")
    /\ UNCHANGED <<toolFiles, tallies>>

\* The program ends at any moment, and is started again.
Dies(p) ==
    /\ prog[p].pc # "off" /\ deaths < MaxDeaths
    /\ Set(p, NoRun) /\ deaths' = deaths + 1
    /\ UNCHANGED <<toolFiles, runs, shown, ill>>

\* What a goroutine does without waiting for the network or for nexttrace.
Work(p) ==
    \/ Find(p) \/ Verify(p) \/ Install(p) \/ Undo(p)
    \/ Ready(p) \/ Exec(p) \/ Waited(p) \/ Report(p)
    \/ prog[p].cancelled /\ (RequestFails(p) \/ DownloadFails(p) \/ ChildEnds(p))

TNext ==
    \E p \in Programs :
        \/ Start(p) \/ Stop(p) \/ OnTrace(p) \/ Work(p)
        \/ Request(p) \/ RequestFails(p) \/ ReadBlock(p) \/ DownloadFails(p) \/ ReadEnd(p)
        \/ OnHop(p) \/ ChildEnds(p) \/ Dies(p)

\* The goroutine and the page's event loop run.
TFairness == \A p \in Programs : WF_tvars(Work(p)) /\ WF_tvars(OnTrace(p))
TSpec == TInit /\ [][TNext]_tvars /\ TFairness

(***************************************************************************)
(* Properties.                                                             *)
(***************************************************************************)
\* download: a partial or tampered download is never picked up as a usable
\* binary, after failures, cancellations and deaths at any step: what has the
\* tool's name is the released tool.
ToolGenuine == tool # 0 => store[tool] = Genuine

\* A tool that Ensure returned is there when it is started.
ToolThere == \A p \in Programs : prog[p].pc = "exec" => tool # 0

\* Stop works: the page is ready for the next trace again, wherever the run
\* was and however full its channel.
StopSettles == \A p \in Programs : prog[p].cancelled ~> prog[p].busy = "no"
=============================================================================
