------------------------------- MODULE Deploy --------------------------------
(***************************************************************************)
(* EnsureServer (internal/deploy/deploy.go): find the cache directory on   *)
(* the host, compare the size of the file at the versioned path with the   *)
(* binary of this build, and unless they agree upload it: cat > path.tmp,  *)
(* chmod, mv.  The remote shell is a process of its own: what the caller   *)
(* has written is on its way for a while before cat writes it, also after  *)
(* the connection dropped.  When sshd notices the drop, cat reads the end  *)
(* of its input like that of a complete upload.                            *)
(*                                                                         *)
(* Files are inodes under two names per directory, and the content of one  *)
(* is a sequence of blocks, each of a build or a hole.  A command that     *)
(* fails for another reason than a missing file counts as a drop.          *)
(***************************************************************************)
EXTENDS Integers, Sequences

CONSTANTS
    Callers,      \* devices of the user
    Blocks,       \* Blocks[b]: length of build b; all have one version
    Installed,    \* builds the callers run
    Overlap,      \* calls of several devices may overlap
    MaxCalls, MaxDrops

Builds == DOMAIN Blocks
Hole == "hole"
Dirs == {"home", "tmp"}
Calls == 1..MaxCalls

ASSUME DeployAssumption ==
    /\ Blocks \in [Builds -> Nat \ {0}] /\ Installed \subseteq Builds /\ Hole \notin Builds
    /\ Overlap \in BOOLEAN /\ MaxCalls \in Nat /\ MaxDrops \in Nat

VARIABLES
    file,    \* file[d]: the inodes under path.tmp and path, 0 for none
    data,    \* data[i]: content of inode i
    exec,    \* inodes that are executable
    proc,    \* proc[n]: the remote shell of upload n
    call,    \* call[c]: EnsureServer of a caller and the start of the server
    calls, drops

dpvars == <<file, data, exec, proc, call, calls, drops>>

AnyBuild == CHOOSE b \in Builds : TRUE
NoProc == [st |-> "none", dir |-> "home", ino |-> 0, build |-> AnyBuild, sent |-> 0, pos |-> 0]
NoCall == [pc |-> "idle", build |-> AnyBuild, dir |-> "home", n |-> 0]
Content(b) == [i \in 1..Blocks[b] |-> b]

\* The host has nothing, or what an earlier build or a cut upload left.
DpInit ==
    /\ \/ /\ data = <<>> /\ exec = {}
          /\ file = [d \in Dirs |-> [tmp |-> 0, path |-> 0]]
       \/ /\ \E b \in Builds : \E k \in 1..Blocks[b] : data = <<SubSeq(Content(b), 1, k)>>
          /\ exec = {1}
          /\ file = [d \in Dirs |-> [tmp |-> 0, path |-> IF d = "home" THEN 1 ELSE 0]]
    /\ proc = [n \in Calls |-> NoProc]
    /\ call = [c \in Callers |-> NoCall]
    /\ calls = 0 /\ drops = 0

Calling(c) == call[c].pc # "idle"

Begin(c, b) ==
    /\ ~Calling(c) /\ calls < MaxCalls
    /\ Overlap \/ \A d \in Callers : ~Calling(d)
    /\ calls' = calls + 1
    /\ call' = [call EXCEPT ![c] = [NoCall EXCEPT !.pc = "find", !.build = b, !.n = calls + 1]]
    /\ UNCHANGED <<file, data, exec, proc, drops>>

\* remoteCachePath: below the home directory, or in /tmp when that fails.
CachePath(c, d) ==
    /\ call[c].pc = "find"
    /\ call' = [call EXCEPT ![c].pc = "check", ![c].dir = d]
    /\ UNCHANGED <<file, data, exec, proc, calls, drops>>

\* remoteFileSize and shouldReuseRemote.
RemoteSize(d) == IF file[d].path = 0 THEN -1 ELSE Len(data[file[d].path])
ShouldReuse_Fault(remote, local) == remote >= 0
ShouldReuse(remote, local) == remote = local
CheckRemote(c) ==
    /\ call[c].pc = "check"
    /\ call' = [call EXCEPT ![c].pc =
                  IF ShouldReuse(RemoteSize(call[c].dir), Blocks[call[c].build])
                  THEN "ok" ELSE "upload"]
    /\ UNCHANGED <<file, data, exec, proc, calls, drops>>

\* uploadData: the shell opens path.tmp, which empties it or creates it.
StartUpload(c) ==
    LET d == call[c].dir
        ino == IF file[d].tmp # 0 THEN file[d].tmp ELSE Len(data) + 1
    IN  /\ call[c].pc = "upload"
        /\ data' = IF file[d].tmp # 0 THEN [data EXCEPT ![ino] = <<>>] ELSE Append(data, <<>>)
        /\ file' = [file EXCEPT ![d].tmp = ino]
        /\ proc' = [proc EXCEPT ![call[c].n] =
                      [NoProc EXCEPT !.st = "cat", !.dir = d, !.ino = ino, !.build = call[c].build]]
        /\ call' = [call EXCEPT ![c].pc = "send"]
        /\ UNCHANGED <<exec, calls, drops>>

\* stdinPipe.Write returns when a chunk is queued.
SendChunk(c) ==
    LET p == proc[call[c].n] IN
    /\ call[c].pc = "send" /\ p.st = "cat" /\ p.sent < Blocks[p.build]
    /\ proc' = [proc EXCEPT ![call[c].n].sent = @ + 1]
    /\ UNCHANGED <<file, data, exec, call, calls, drops>>

CloseStdin(c) ==
    LET p == proc[call[c].n] IN
    /\ call[c].pc = "send" /\ p.sent = Blocks[p.build]
    /\ call' = [call EXCEPT ![c].pc = "wait"]
    /\ UNCHANGED <<file, data, exec, proc, calls, drops>>

\* cat gets a chunk and writes it where its own last one ended, whatever has
\* become of the file since it opened it.
Written(s, i, b) == [j \in 1..(IF i > Len(s) THEN i ELSE Len(s)) |->
                        IF j = i THEN b ELSE IF j <= Len(s) THEN s[j] ELSE Hole]
CatWrites(n) ==
    LET p == proc[n] IN
    /\ p.st = "cat" /\ p.pos < p.sent
    /\ data' = [data EXCEPT ![p.ino] = Written(@, p.pos + 1, p.build)]
    /\ proc' = [proc EXCEPT ![n].pos = @ + 1]
    /\ UNCHANGED <<file, exec, call, calls, drops>>

CatEnds(n) ==
    /\ proc[n].st = "cat" /\ proc[n].pos = proc[n].sent
    /\ \E c \in Callers : call[c].n = n /\ call[c].pc = "wait"
    /\ proc' = [proc EXCEPT ![n].st = "eof"]
    /\ UNCHANGED <<file, data, exec, call, calls, drops>>

\* The rest of the shell: chmod && mv, by name.
Chmod(n) ==
    LET i == file[proc[n].dir].tmp IN
    /\ proc[n].st = "eof"
    /\ proc' = [proc EXCEPT ![n].st = IF i = 0 THEN "failed" ELSE "mv"]
    /\ exec' = IF i = 0 THEN exec ELSE exec \union {i}
    /\ UNCHANGED <<file, data, call, calls, drops>>

Move(n) ==
    LET d == proc[n].dir IN
    /\ proc[n].st = "mv"
    /\ IF file[d].tmp = 0 THEN file' = file /\ proc' = [proc EXCEPT ![n].st = "failed"]
       ELSE /\ file' = [file EXCEPT ![d] = [tmp |-> 0, path |-> file[d].tmp]]
            /\ proc' = [proc EXCEPT ![n].st = "done"]
    /\ UNCHANGED <<data, exec, call, calls, drops>>

\* The disk of the host is full: the shell ends, path.tmp stays.
DiskFull(n) ==
    /\ proc[n].st = "cat" /\ drops < MaxDrops /\ drops' = drops + 1
    /\ proc' = [proc EXCEPT ![n].st = "failed"]
    /\ UNCHANGED <<file, data, exec, call, calls>>

UploadReturns(c) ==
    LET st == proc[call[c].n].st IN
    /\ \/ call[c].pc = "wait" /\ st \in {"done", "failed"}
       \/ call[c].pc = "send" /\ st = "failed"
    /\ call' = [call EXCEPT ![c] = IF st = "done" THEN [@ EXCEPT !.pc = "ok"] ELSE NoCall]
    /\ UNCHANGED <<file, data, exec, proc, calls, drops>>

\* The connection drops: the caller returns an error; what the host does
\* about the upload comes when sshd notices.
Drop(c) ==
    /\ Calling(c) /\ drops < MaxDrops /\ drops' = drops + 1
    /\ call' = [call EXCEPT ![c] = NoCall]
    /\ UNCHANGED <<file, data, exec, proc, calls>>

\* What is still on its way is lost.
ServerNotices(n) ==
    /\ proc[n].st = "cat" /\ \A c \in Callers : ~(Calling(c) /\ call[c].n = n)
    /\ proc' = [proc EXCEPT ![n].st = "eof", ![n].sent = proc[n].pos]
    /\ UNCHANGED <<file, data, exec, call, calls, drops>>

\* The caller starts the server at the returned path.
RunServer(c) ==
    /\ call[c].pc = "ok" /\ call' = [call EXCEPT ![c] = NoCall]
    /\ UNCHANGED <<file, data, exec, proc, calls, drops>>

DpNext ==
    \/ \E c \in Callers : \/ \E b \in Installed : Begin(c, b)
                          \/ \E d \in Dirs : CachePath(c, d)
                          \/ CheckRemote(c) \/ StartUpload(c) \/ SendChunk(c)
                          \/ CloseStdin(c) \/ UploadReturns(c) \/ Drop(c) \/ RunServer(c)
    \/ \E n \in Calls : CatWrites(n) \/ CatEnds(n) \/ Chmod(n) \/ Move(n) \/ DiskFull(n) \/ ServerNotices(n)

DpSpec == DpInit /\ [][DpNext]_dpvars

(***************************************************************************)
(* Properties.                                                             *)
(***************************************************************************)
Returned(c) == file[call[c].dir].path

Complete(c) == Returned(c) # 0 /\ data[Returned(c)] = Content(call[c].build)

Holed(c) == Returned(c) # 0 /\ \E k \in DOMAIN data[Returned(c)] : data[Returned(c)][k] = Hole

\* When EnsureServer returns a path, the file there is this build, whole: always
\* when it has uploaded it, after any history of cut uploads, full disks, stale
\* builds and shells of earlier connections that go on late; when it reuses it,
\* after one cut or full disk.  After two, the data that were on their way at
\* the first cut may have reached the file that the second upload had emptied:
\* a file of the right size with a hole.
ReturnedComplete ==
    [][\A c \in Callers : call[c].pc # "ok" /\ call'[c].pc = "ok" =>
          \/ Complete(c)'
          \/ call[c].pc = "check" /\ drops > 1 /\ Holed(c)']_dpvars

\* The same without the exception: shouldReuseRemote says of its size check that
\* the path alone "does not catch truncated uploads".
ReusedComplete ==
    [][\A c \in Callers : call[c].pc = "check" /\ call'[c].pc = "ok" => Complete(c)']_dpvars

\* It still is when the server is started.
StartedComplete == \A c \in Callers : call[c].pc = "ok" => Complete(c)

\* The kernel executes it: it has the mode, and no shell still has it open for
\* writing.
Runnable == \A c \in Callers : call[c].pc = "ok" =>
    /\ Returned(c) \in exec
    /\ \A n \in Calls : proc[n].st \in {"cat", "eof"} => proc[n].ino # Returned(c)
=============================================================================
