-------------------------------- MODULE Relay --------------------------------
(***************************************************************************)
(* One intercepted TCP connection, end to end: the application, handleConn *)
(* or forwardTCP with its two copying goroutines (proxy/listener.go and    *)
(* socks5.go), the stream (mux/client.go), handleStream and handleTCP with *)
(* their two goroutines on the server (cmd/server/main.go), and the        *)
(* destination.  Other connections are seen through what they share with   *)
(* this one: the session, the server's stream slots and the number of      *)
(* direct dials to the same destination.                                   *)
(*                                                                         *)
(* Data are numbered chunks.  The two-minute idle deadlines may expire at  *)
(* any moment the copiers run, as a stalled network makes them.            *)
(***************************************************************************)
EXTENDS Integers, Sequences, SequencesExt

CONSTANTS
    Slots,        \* maxStreamConcurrency
    DirectLimit,  \* maxConcurrentDirectDials
    MaxUp,        \* bound on the chunks the application sends
    MaxDown,      \* bound on the chunks the destination sends
    MaxLoad       \* bound on the changes of the load made by others

ASSUME RelayAssumption ==
    Slots \in Nat \ {0} /\ DirectLimit \in Nat \ {0} /\ {MaxUp, MaxDown} \subseteq Nat /\ MaxLoad \in Nat

VARIABLES
    app,     \* the application's socket: sent, how it ended, got, what it saw
    rem,     \* the destination's socket, likewise
    px,      \* handleConn: pc, entry, route, peeked data, its two copiers
    st,      \* the stream: both directions, and who has closed it
    sv,      \* the server's handler: pc and its two copiers
    alive,   \* the session is up
    sem,     \* slots taken on the server
    direct,  \* directDialTracker.count of the destination
    active,  \* ActiveTCP of the tunnel
    record,  \* the connection in the statistics
    load,    \* changes of the load so far
    late     \* history: an idle deadline has expired

vars == <<app, rem, px, st, sv, alive, sem, direct, active, record, load, late>>

\* Messages on the stream that are not data.
HalfClose == 0
ErrorFrame == -1

End == [sent |-> 0, fin |-> "open", got |-> <<>>, sees |-> "open"]

Init ==
    /\ app = End /\ rem = End
    /\ px = [pc |-> "idle", entry |-> "none", route |-> "none", pre |-> <<>>,
             read |-> 0, up |-> "none", down |-> "none", uerr |-> FALSE, derr |-> FALSE,
             expired |-> FALSE]
    /\ st = [up |-> <<>>, down |-> <<>>, cfin |-> FALSE, sfin |-> FALSE]
    /\ sv = [pc |-> "none", up |-> "none", down |-> "none", read |-> 0]
    /\ alive = TRUE
    /\ sem = 0 /\ direct = 0 /\ active = 0
    /\ record = [st |-> "none", err |-> FALSE]
    /\ load = 0 /\ late = FALSE

\* The peer has sent more than the reader of its socket has read.
Unread(e, read) == e.sent > read

(***************************************************************************)
(* The two endpoints.                                                      *)
(***************************************************************************)
AppSend ==
    /\ px.pc # "end" /\ app.fin = "open" /\ app.sent < MaxUp
    /\ app' = [app EXCEPT !.sent = @ + 1]
    /\ UNCHANGED <<rem, px, st, sv, alive, sem, direct, active, record, load, late>>

AppEnds ==
    /\ px.pc \notin {"idle", "end"} /\ app.fin = "open"
    /\ \E how \in {"fin", "rst"} : app' = [app EXCEPT !.fin = how]
    /\ UNCHANGED <<rem, px, st, sv, alive, sem, direct, active, record, load, late>>

\* The socket of the destination is open.
Connected == (sv.pc = "run" \/ (px.route = "direct" /\ px.pc = "run")) /\ rem.sees # "closed"

RemSend ==
    /\ Connected /\ rem.fin = "open" /\ rem.sent < MaxDown
    /\ rem' = [rem EXCEPT !.sent = @ + 1]
    /\ UNCHANGED <<app, px, st, sv, alive, sem, direct, active, record, load, late>>

RemEnds ==
    /\ Connected /\ rem.fin = "open"
    /\ \E how \in {"fin", "rst"} : rem' = [rem EXCEPT !.fin = how]
    /\ UNCHANGED <<app, px, st, sv, alive, sem, direct, active, record, load, late>>

(***************************************************************************)
(* Entry: a connection redirected by the firewall (handleConn, which peeks *)
(* at the first data for five seconds), a SOCKS5 or an HTTP proxy request  *)
(* (whose reply says "connected" before anything is dialled).              *)
(***************************************************************************)
Accept ==
    /\ px.pc = "idle"
    /\ \E e \in {"redirect", "socks5", "http"} :
         px' = [px EXCEPT !.pc = IF e = "redirect" THEN "peek" ELSE "request", !.entry = e]
    /\ UNCHANGED <<app, rem, st, sv, alive, sem, direct, active, record, load, late>>

PeekHost ==
    LET n == IF Unread(app, 0) THEN 1 ELSE 0
    IN  /\ px.pc = "peek"
        /\ px' = [px EXCEPT !.pc = "route", !.read = n, !.pre = SubSeq(<<1>>, 1, n)]
        /\ UNCHANGED <<app, rem, st, sv, alive, sem, direct, active, record, load, late>>

\* A request is understood and answered with success, or refused.
Request(entry) ==
    /\ px.pc = "request" /\ px.entry = entry
    /\ \/ /\ px' = [px EXCEPT !.pc = "route"]
          /\ app' = app
       \/ /\ px' = [px EXCEPT !.pc = "end"]
          /\ app' = [app EXCEPT !.sees = "closed"]
    /\ UNCHANGED <<rem, st, sv, alive, sem, direct, active, record, load, late>>

Socks5Handshake == Request("socks5")

HandleHTTPProxy == Request("http")

(***************************************************************************)
(* The route of the destination: rejected, dialled from here, or through   *)
(* the tunnel.  Refusals are recorded, except that of the guard against    *)
(* redirect loops.                                                         *)
(***************************************************************************)
Fail(p, why) ==
    /\ px' = [p EXCEPT !.pc = "end"]
    /\ app' = [app EXCEPT !.sees = "closed"]
    /\ record' = [st |-> "failed", err |-> why]

RouteBlocked ==
    /\ Fail([px EXCEPT !.route = "blocked"], TRUE)
    /\ UNCHANGED <<rem, st, sv, alive, sem, direct, active, load, late>>

RouteDirect ==
    /\ IF direct >= DirectLimit
       THEN /\ px' = [px EXCEPT !.pc = "end", !.route = "direct"]
            /\ app' = [app EXCEPT !.sees = "closed"]
            /\ direct' = direct
       ELSE /\ px' = [px EXCEPT !.pc = "dial", !.route = "direct"]
            /\ app' = app
            /\ direct' = direct + 1
    /\ UNCHANGED <<rem, st, sv, alive, sem, active, record, load, late>>

Copying(p) == [p EXCEPT !.pc = "run", !.up = "copy", !.down = "copy"]

DirectDialRelease_Kept == direct

DirectDialRelease == direct - 1

DialDirect ==
    /\ px.pc = "dial"
    /\ \/ /\ px' = Copying(px) /\ app' = app /\ direct' = direct
          /\ record' = [st |-> "open", err |-> FALSE]
       \/ /\ Fail(px, TRUE)
          /\ direct' = DirectDialRelease
    /\ UNCHANGED <<rem, st, sv, alive, sem, active, load, late>>

OpenTCP ==
    /\ IF alive
       THEN /\ px' = Copying([px EXCEPT !.route = "tunnel"])
            /\ sv' = [sv EXCEPT !.pc = "queued"]
            /\ active' = active + 1
            /\ record' = [st |-> "open", err |-> FALSE]
            /\ app' = app
       ELSE /\ Fail([px EXCEPT !.route = "tunnel"], TRUE)
            /\ UNCHANGED <<sv, active>>
    /\ UNCHANGED <<rem, st, alive, sem, direct, load, late>>

HandleConn ==
    /\ px.pc = "route" /\ px.entry = "redirect"
    /\ RouteBlocked \/ RouteDirect \/ OpenTCP

ForwardTCP ==
    /\ px.pc = "route" /\ px.entry # "redirect"
    /\ RouteBlocked \/ RouteDirect \/ OpenTCP

(***************************************************************************)
(* The client's end of the stream.  Writes fail after the deadline, after  *)
(* the session is gone and after the server has closed the stream.         *)
(***************************************************************************)
Writable == alive /\ ~px.expired /\ ~st.sfin

CloseWrite(s) == IF Writable THEN [s EXCEPT !.up = Append(@, HalfClose)] ELSE s

\* What the proxy sends next: peeked data first, then the socket's.
Fresh == px.pre # <<>> \/ (Unread(app, px.read) /\ app.fin # "rst")
NextChunk == IF px.pre # <<>> THEN px.pre[1] ELSE px.read + 1
Taken == IF px.pre # <<>> THEN [px EXCEPT !.pre = Tail(@), !.expired = FALSE]
         ELSE [px EXCEPT !.read = @ + 1, !.expired = FALSE]

\* The upload copier ends: an error is recorded unless it is a timeout or a
\* closed connection.
UploadEnds(err) ==
    /\ px' = [px EXCEPT !.up = "done", !.uerr = err]
    /\ IF px.route = "tunnel"
       THEN st' = CloseWrite(st) /\ rem' = rem
       ELSE st' = st /\ rem' = IF rem.sees = "open" /\ ~px.expired
                               THEN [rem EXCEPT !.sees = "eof"] ELSE rem

\* A write that was under way when the deadline passed still counts, and
\* renews it; so the first alternative does not look at expired.
Upload ==
    /\ px.pc = "run" /\ px.up = "copy"
    /\ \/ /\ Fresh /\ px.route = "tunnel" /\ alive /\ ~st.sfin
          /\ px' = Taken
          /\ st' = [st EXCEPT !.up = Append(@, NextChunk)]
          /\ rem' = rem
       \/ /\ Fresh /\ px.route = "direct" /\ rem.fin # "rst"
          /\ px' = Taken
          /\ rem' = [rem EXCEPT !.got = Append(@, NextChunk)]
          /\ st' = st
       \/ Fresh /\ px.route = "tunnel" /\ ~Writable /\ UploadEnds(FALSE)
       \/ Fresh /\ px.route = "direct" /\ rem.fin = "rst" /\ UploadEnds(TRUE)
       \/ px.expired /\ UploadEnds(FALSE)
       \/ ~Fresh /\ app.fin # "open" /\ UploadEnds(app.fin = "rst")
    /\ UNCHANGED <<app, sv, alive, sem, direct, active, record, load, late>>

(***************************************************************************)
(* The download copier, on the stream or on the direct connection.  The    *)
(* deadline is renewed by a successful write.                              *)
(***************************************************************************)
DownloadEnds(err) ==
    /\ px' = [px EXCEPT !.down = "done", !.derr = err]
    /\ app' = IF app.fin # "rst" THEN [app EXCEPT !.sees = "eof"] ELSE app

Deliver(chunk) ==
    IF app.fin = "rst" THEN DownloadEnds(TRUE)
    ELSE /\ app' = [app EXCEPT !.got = Append(@, chunk)]
         /\ px' = [px EXCEPT !.expired = FALSE]

\* The message ClientConn.Read finds: the end, a RemoteError, or data.
ReadMsg(msg) ==
    CASE msg = HalfClose -> DownloadEnds(FALSE)
      [] msg = ErrorFrame -> DownloadEnds(TRUE)
      [] OTHER -> Deliver(msg)

DownloadTunnel ==
    /\ px.pc = "run" /\ px.down = "copy" /\ px.route = "tunnel"
    /\ \/ px.expired /\ DownloadEnds(FALSE) /\ st' = st
       \/ /\ st.down # <<>>
          /\ st' = [st EXCEPT !.down = Tail(@)]
          /\ ReadMsg(Head(st.down))
       \/ st.down = <<>> /\ st.sfin /\ DownloadEnds(FALSE) /\ st' = st
       \/ ~alive /\ DownloadEnds(FALSE) /\ st' = st
    /\ UNCHANGED <<rem, sv, alive, sem, direct, active, record, load, late>>

DownloadDirect ==
    /\ px.pc = "run" /\ px.down = "copy" /\ px.route = "direct"
    /\ \/ px.expired /\ DownloadEnds(FALSE)
       \/ Unread(rem, Len(app.got)) /\ rem.fin # "rst" /\ Deliver(Len(app.got) + 1)
       \/ ~Unread(rem, Len(app.got)) /\ rem.fin = "fin" /\ DownloadEnds(FALSE)
       \/ rem.fin = "rst" /\ DownloadEnds(TRUE)
    /\ UNCHANGED <<rem, st, sv, alive, sem, direct, active, record, load, late>>

\* The deadline of both sockets passes.  Successful writes move it, so a
\* copier that gets on may leave the other one running.
IdleTimeout ==
    /\ px.pc = "run" /\ ~px.expired
    /\ px' = [px EXCEPT !.expired = TRUE] /\ late' = TRUE
    /\ UNCHANGED <<app, rem, st, sv, alive, sem, direct, active, record, load>>

\* Both copiers are done: ConnCloseErr, and the deferred closes.
Finish ==
    /\ px.pc = "run" /\ px.up = "done" /\ px.down = "done"
    /\ px' = [px EXCEPT !.pc = "end"]
    /\ record' = [st |-> "closed", err |-> px.uerr \/ px.derr]
    /\ app' = [app EXCEPT !.sees = IF @ = "open" THEN "closed" ELSE @]
    /\ IF px.route = "tunnel"
       THEN /\ st' = [CloseWrite(st) EXCEPT !.cfin = TRUE]
            /\ active' = active - 1
            /\ UNCHANGED <<rem, direct>>
       ELSE /\ rem' = [rem EXCEPT !.sees = IF @ = "open" THEN "closed" ELSE @]
            /\ direct' = DirectDialRelease
            /\ UNCHANGED <<st, active>>
    /\ UNCHANGED <<sv, alive, sem, load, late>>

(***************************************************************************)
(* The server: the accept loop with its slots, the header, the dial, and   *)
(* the two copiers of handleTCP, which has no deadline and waits for both. *)
(***************************************************************************)
AcceptStream ==
    /\ alive /\ sv.pc = "queued"
    /\ IF sem < Slots
       THEN /\ sv' = [sv EXCEPT !.pc = "header"]
            /\ sem' = sem + 1 /\ st' = st
       ELSE /\ sv' = [sv EXCEPT !.pc = "rejected"]
            /\ st' = [st EXCEPT !.down = Append(@, HalfClose), !.sfin = TRUE]
            /\ sem' = sem
    /\ UNCHANGED <<app, rem, px, alive, direct, active, record, load, late>>

HandleStream ==
    /\ alive /\ sv.pc = "header"
    /\ sv' = [sv EXCEPT !.pc = "dial"]
    /\ UNCHANGED <<app, rem, px, st, alive, sem, direct, active, record, load, late>>

\* What handleTCP writes and where it goes on after its dial.

DialFailed(s) == [s EXCEPT !.down = Append(@, ErrorFrame), !.sfin = TRUE]

DialTCP ==
    /\ alive /\ sv.pc = "dial"
    /\ \/ /\ sv' = [sv EXCEPT !.pc = "run", !.up = "copy", !.down = "copy"]
          /\ UNCHANGED <<st, sem>>
       \/ /\ sv' = [sv EXCEPT !.pc = "failed"]
          /\ st' = DialFailed(st)
          /\ sem' = sem - 1
    /\ UNCHANGED <<app, rem, px, alive, direct, active, record, load, late>>

\* What ends the reading of the client's stream beside a half-close.
StreamClosed_Ignored == FALSE

StreamClosed == st.up = <<>> /\ st.cfin

\* mux -> remote.  A half-close is passed on; the end of the stream is not.
MuxToRemote ==
    /\ alive /\ sv.pc = "run" /\ sv.up = "copy"
    /\ \/ /\ st.up # <<>>
          /\ st' = [st EXCEPT !.up = Tail(@)]
          /\ IF Head(st.up) = HalfClose
             THEN /\ rem' = [rem EXCEPT !.sees = "eof"]
                  /\ sv' = [sv EXCEPT !.up = "done"]
             ELSE IF rem.fin = "rst"
                  THEN sv' = [sv EXCEPT !.up = "done"] /\ rem' = rem
                  ELSE sv' = sv /\ rem' = [rem EXCEPT !.got = Append(@, Head(st.up))]
       \/ /\ StreamClosed
          /\ sv' = [sv EXCEPT !.up = "done"]
          /\ UNCHANGED <<st, rem>>
    /\ UNCHANGED <<app, px, alive, sem, direct, active, record, load, late>>

\* remote -> mux: the end of the connection, orderly or not, is a half-close.
EndOfRemote(s) == IF s.cfin THEN s ELSE [s EXCEPT !.down = Append(@, HalfClose)]

RemoteToMux ==
    /\ alive /\ sv.pc = "run" /\ sv.down = "copy"
    /\ \/ /\ Unread(rem, sv.read) /\ rem.fin # "rst"
          /\ IF st.cfin
             THEN st' = st /\ sv' = [sv EXCEPT !.down = "done"]
             ELSE /\ st' = [st EXCEPT !.down = Append(@, sv.read + 1)]
                  /\ sv' = [sv EXCEPT !.read = @ + 1]
       \/ /\ rem.fin = "rst" \/ (rem.fin = "fin" /\ ~Unread(rem, sv.read))
          /\ st' = EndOfRemote(st)
          /\ sv' = [sv EXCEPT !.down = "done"]
    /\ UNCHANGED <<app, rem, px, alive, sem, direct, active, record, load, late>>

StreamDone_First == sv.up = "done" \/ sv.down = "done"

StreamDone == sv.up = "done" /\ sv.down = "done"

HandleTCPReturns ==
    /\ alive /\ sv.pc = "run" /\ StreamDone
    /\ sv' = [sv EXCEPT !.pc = "end"]
    /\ rem' = [rem EXCEPT !.sees = IF @ = "open" THEN "closed" ELSE @]
    /\ st' = [st EXCEPT !.sfin = TRUE]
    /\ sem' = sem - 1
    /\ UNCHANGED <<app, px, alive, direct, active, record, load, late>>

(***************************************************************************)
(* The surroundings: the session dies, and with it the server; other       *)
(* connections come and go.                                                *)
(***************************************************************************)
SessionDies ==
    /\ alive /\ alive' = FALSE
    /\ sv' = [sv EXCEPT !.pc = IF @ = "none" THEN "none" ELSE "end"]
    /\ rem' = [rem EXCEPT !.sees = IF sv.pc = "run" /\ @ = "open" THEN "closed" ELSE @]
    /\ sem' = 0
    /\ UNCHANGED <<app, px, st, direct, active, record, load, late>>

\* Slots and direct dials of other connections.
Mine == IF sv.pc \in {"header", "dial", "run"} THEN 1 ELSE 0
MyDirect == IF px.route = "direct" /\ px.pc \in {"dial", "run"} THEN 1 ELSE 0

OtherConnections ==
    /\ load < MaxLoad /\ load' = load + 1
    /\ \/ alive /\ sem < Slots /\ sem' = sem + 1 /\ direct' = direct
       \/ sem > Mine /\ sem' = sem - 1 /\ direct' = direct
       \/ direct < DirectLimit /\ direct' = direct + 1 /\ sem' = sem
       \/ direct > MyDirect /\ direct' = direct - 1 /\ sem' = sem
    /\ UNCHANGED <<app, rem, px, st, sv, alive, active, record, late>>

Proxy ==
    \/ PeekHost \/ Socks5Handshake \/ HandleHTTPProxy
    \/ HandleConn \/ ForwardTCP \/ DialDirect \/ Finish

Server == AcceptStream \/ HandleStream \/ DialTCP \/ HandleTCPReturns

Endpoints == AppSend \/ AppEnds \/ RemSend \/ RemEnds

RelayNext ==
    \/ Accept \/ Proxy \/ Upload \/ DownloadTunnel \/ DownloadDirect \/ IdleTimeout
    \/ Server \/ MuxToRemote \/ RemoteToMux
    \/ Endpoints \/ SessionDies \/ OtherConnections

\* Nothing moves: what the two-minute deadline is for.
Quiet == ~ENABLED (Upload \/ DownloadTunnel \/ DownloadDirect)

\* Goroutines run, and a deadline nothing renews expires.  Nobody has to send,
\* to close or to connect.
Fairness ==
    /\ WF_vars(Proxy) /\ WF_vars(Upload)
    /\ WF_vars(DownloadTunnel) /\ WF_vars(DownloadDirect)
    /\ WF_vars(Server) /\ WF_vars(MuxToRemote) /\ WF_vars(RemoteToMux)
    /\ WF_vars(IdleTimeout /\ Quiet)

Spec == Init /\ [][RelayNext]_vars /\ Fairness

(***************************************************************************)
(* Properties.                                                             *)
(***************************************************************************)
TypeOK ==
    /\ app.sent \in 0..MaxUp /\ rem.sent \in 0..MaxDown
    /\ app.fin \in {"open", "fin", "rst"} /\ rem.fin \in {"open", "fin", "rst"}
    /\ sem \in 0..Slots /\ direct \in 0..DirectLimit /\ active \in {0, 1}
    /\ record.st \in {"none", "open", "failed", "closed"}

\* What each side receives is what the other sent, in order and without gaps:
\* peeked data are replayed and nothing is repeated or skipped.
Numbered(s) == \A i \in 1..Len(s) : s[i] = i

InOrder == Numbered(app.got) /\ Numbered(rem.got)

\* A clean end of file is told the truth: the destination sees one only after
\* everything the application sent, and the application only after everything
\* the destination sent, unless the connection was reset, timed out or refused
\* or the session died.  A half-close of one direction cuts nothing in the other.
EofComplete ==
    /\ (rem.sees = "eof" /\ app.fin # "rst" /\ rem.fin # "rst" /\ ~late /\ alive)
          => Len(rem.got) = app.sent
    /\ (/\ app.sees = "eof" /\ app.fin # "rst" /\ rem.fin # "rst" /\ ~late /\ alive
        /\ sv.pc \notin {"rejected", "failed"})
          => Len(app.got) = rem.sent

\* The books balance: slots, direct dials and the active count are those of
\* connections that run, and a connection that ran is recorded as closed.
Accounted ==
    /\ sem >= Mine /\ direct >= MyDirect
    /\ load = 0 => (sem = Mine /\ direct = MyDirect)
    /\ active = (IF px.route = "tunnel" /\ px.pc = "run" THEN 1 ELSE 0)
    /\ (record.st = "open") <=> (px.pc = "run")

\* The reason of a failed dial on the server reaches the statistics, whatever
\* else happens in between, if the session and the application hold out.
DialErrorReported ==
    (sv.pc = "failed" /\ record.st = "closed" /\ alive /\ ~late /\ app.fin # "rst")
        => record.err

\* Once both ends are closed the handler on the server ends and its slot is
\* free again.
SlotFreed ==
    (sv.pc = "run" /\ px.pc = "end" /\ rem.fin # "open") ~> (sv.pc # "run")

\* A connection the proxy has given up, after an idle timeout too, does not
\* stay behind on the server.
NoStuckConnection == (sv.pc = "run" /\ px.pc = "end") ~> (sv.pc # "run")
=============================================================================
