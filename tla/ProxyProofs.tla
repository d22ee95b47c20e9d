----------------------------- MODULE ProxyProofs -----------------------------
(***************************************************************************)
(* What the proxies promise about one TCP connection (Relay) and about the *)
(* flows and channels of the datagram proxies (Datagrams), for every       *)
(* number of chunks, slots, dials, keys and channels, and where WinDivert  *)
(* tells the proxy a connection goes.                                      *)
(***************************************************************************)
EXTENDS Relay, Datagrams, WinDivert, SequenceTheorems, TLAPS

(***************************************************************************)
(* One connection.  The strengthening of Accounted: the values the         *)
(* variables take, and the stages the proxy and the server go through.     *)
(***************************************************************************)
Sockets == [sent : Nat, fin : {"open", "fin", "rst"}, got : Seq(Int),
            sees : {"open", "eof", "closed"}]

Proxies == [pc : {"idle", "peek", "request", "route", "dial", "run", "end"},
            entry : {"none", "redirect", "socks5", "http"},
            route : {"none", "blocked", "direct", "tunnel"},
            pre : Seq(Int), read : Nat,
            up : {"none", "copy", "done"}, down : {"none", "copy", "done"},
            uerr : BOOLEAN, derr : BOOLEAN, expired : BOOLEAN]

Streams == [up : Seq(Int), down : Seq(Int), cfin : BOOLEAN, sfin : BOOLEAN]

Servers == [pc : {"none", "queued", "rejected", "header", "dial", "failed", "run", "end"},
            up : {"none", "copy", "done"}, down : {"none", "copy", "done"}, read : Nat]

Records == [st : {"none", "open", "failed", "closed"}, err : BOOLEAN]

RelayTypes ==
    /\ app \in Sockets /\ rem \in Sockets /\ px \in Proxies /\ st \in Streams /\ sv \in Servers
    /\ alive \in BOOLEAN /\ late \in BOOLEAN /\ record \in Records
    /\ sem \in Int /\ direct \in Int /\ active \in Int /\ load \in Nat

Before == {"idle", "peek", "request", "route", "dial"}

\* Until the copiers start nothing has moved.
Untouched ==
    px.pc \in Before =>
        /\ px.up = "none" /\ px.down = "none" /\ px.read = Len(px.pre)
        /\ app.got = <<>> /\ app.sees = "open"
        /\ rem.got = <<>> /\ rem.sees = "open" /\ rem.sent = 0

Routes ==
    /\ px.pc \in {"idle", "peek", "request", "route"} => px.route = "none"
    /\ px.pc = "dial" => px.route = "direct"
    /\ px.pc = "run" => px.route \in {"direct", "tunnel"}
    /\ px.route # "tunnel" => sv.pc = "none" /\ st = [up |-> <<>>, down |-> <<>>, cfin |-> FALSE, sfin |-> FALSE]

Stages ==
    /\ px.pre = <<>> \/ (px.pre = <<1>> /\ px.read = 1)
    /\ px.read <= app.sent
    /\ px.expired => late
    /\ sv.pc \notin {"run", "end"} => sv.up = "none" /\ sv.down = "none" /\ sv.read = 0
    /\ sv.read <= rem.sent
    /\ ~alive => sv.pc \in {"none", "end"}
    /\ (sv.pc = "end" /\ alive) => sv.up = "done" /\ sv.down = "done"
    /\ st.sfin => sv.pc \in {"rejected", "failed", "end"}
    /\ st.cfin => px.pc = "end"

Bounds ==
    /\ app.sent <= MaxUp /\ rem.sent <= MaxDown
    /\ sem <= Slots /\ direct <= DirectLimit

StageInv == RelayTypes /\ Untouched /\ Routes /\ Stages /\ Bounds /\ Accounted

(***************************************************************************)
(* The two directions.  q is d chunks that follow the first n, and then    *)
(* messages of ends, which carry no data.                                  *)
(***************************************************************************)
Chunks(q, d, n, ends) ==
    /\ d \in 0..Len(q)
    /\ \A i \in 1..d : q[i] = n + i
    /\ \A i \in (d + 1)..Len(q) : q[i] \in ends

UpEnds == {HalfClose}
DownEnds == {HalfClose, ErrorFrame}

\* Nothing has cut the connection.
Intact == app.fin # "rst" /\ rem.fin # "rst" /\ ~late /\ alive

AllUp == app.fin = "fin" /\ px.read = app.sent /\ px.pre = <<>>
AllDown == rem.fin = "fin" /\ sv.read = rem.sent

Consumed == px.read - Len(px.pre)

\* What is under way to the server.
InFlightUp(d) ==
    /\ Chunks(st.up, d, Len(rem.got), UpEnds) /\ Len(rem.got) + d = Consumed
    /\ d < Len(st.up) => px.up = "done" /\ (Intact => AllUp)

UpFlow ==
    /\ Numbered(rem.got)
    /\ px.route # "tunnel" => Len(rem.got) = Consumed
    /\ (px.route = "tunnel" /\ sv.up # "done") => \E d \in Nat : InFlightUp(d)
    /\ (px.up = "done" /\ Intact) => AllUp \/ st.sfin
    /\ rem.sees = "eof" =>
         /\ (px.route = "tunnel" /\ sv.up = "done") \/ (px.route = "direct" /\ px.up = "done")
         /\ Intact => AllUp /\ Len(rem.got) = app.sent

\* What is under way to the application.
InFlightDown(d) ==
    /\ Chunks(st.down, d, Len(app.got), DownEnds) /\ Len(app.got) + d = sv.read
    /\ d < Len(st.down) =>
         /\ sv.down = "done" \/ sv.pc \in {"rejected", "failed", "end"}
         /\ (Intact /\ sv.pc \notin {"rejected", "failed"}) => AllDown

DownFlow ==
    /\ Numbered(app.got)
    /\ px.route # "tunnel" => Len(app.got) <= rem.sent
    /\ (px.route = "tunnel" /\ px.down # "done") => \E d \in Nat : InFlightDown(d)
    /\ (sv.down = "done" /\ Intact) => AllDown \/ st.cfin
    /\ app.sees = "eof" =>
         /\ px.down = "done"
         /\ (Intact /\ sv.pc \notin {"rejected", "failed"}) =>
              rem.fin = "fin" /\ Len(app.got) = rem.sent

\* The error of a failed dial is under way to the statistics.
ErrorKept ==
    /\ (sv.pc \in {"queued", "header", "dial"} /\ alive /\ ~late)
         => px.pc = "run" /\ px.down = "copy" /\ st.down = <<>>
    /\ (sv.pc = "failed" /\ alive /\ ~late /\ app.fin # "rst") =>
         \/ px.pc = "run" /\ px.down = "copy" /\ st.down = <<ErrorFrame>>
         \/ px.down = "done" /\ px.derr /\ (px.pc = "end" => record.err)

(***************************************************************************)
(* Records: what an update leaves and what it changes.                     *)
(***************************************************************************)
\* What the types of the records say of their fields.
LEMMA RelayFields ==
    ASSUME RelayTypes
    PROVE  /\ app.sent \in Nat /\ app.got \in Seq(Int) /\ rem.sent \in Nat /\ rem.got \in Seq(Int)
           /\ px.pre \in Seq(Int) /\ px.read \in Nat /\ sv.read \in Nat
           /\ st.up \in Seq(Int) /\ st.down \in Seq(Int)
    BY DEF RelayTypes, Sockets, Proxies, Servers, Streams

(***************************************************************************)
(* What the copiers do, field by field.                                    *)
(***************************************************************************)
Around == <<alive, sem, direct, active, record, load, late>>

SameStream == st'.up = st.up /\ st'.down = st.down /\ st'.cfin = st.cfin /\ st'.sfin = st.sfin
SameServer == sv'.pc = sv.pc /\ sv'.up = sv.up /\ sv'.down = sv.down /\ sv'.read = sv.read

\* Of handleConn, apart from the copier at work.
UploadOnly ==
    /\ px.pc = "run" /\ px.up = "copy" /\ px' \in Proxies
    /\ px'.pc = px.pc /\ px'.route = px.route /\ px'.down = px.down /\ px'.derr = px.derr
    /\ px'.expired => px.expired
    /\ UNCHANGED <<app, sv, Around>>

DownloadOnly ==
    /\ px.pc = "run" /\ px.down = "copy" /\ px' \in Proxies
    /\ px'.pc = px.pc /\ px'.route = px.route /\ px'.up = px.up
    /\ px'.pre = px.pre /\ px'.read = px.read
    /\ px'.expired => px.expired
    /\ UNCHANGED <<rem, sv, Around>>

\* A chunk goes to the stream or to the direct connection.
ChunkUp ==
    /\ px'.up = "copy" /\ px'.pre = <<>> /\ px'.read = Consumed + 1 /\ px'.read <= app.sent
    /\ \/ /\ px.route = "tunnel" /\ alive /\ ~st.sfin
          /\ st' \in Streams /\ st'.up = Append(st.up, Consumed + 1)
          /\ st'.down = st.down /\ st'.cfin = st.cfin /\ st'.sfin = st.sfin
          /\ rem' = rem
       \/ /\ px.route = "direct"
          /\ rem' \in Sockets /\ rem'.got = Append(rem.got, Consumed + 1)
          /\ rem'.sent = rem.sent /\ rem'.fin = rem.fin /\ rem'.sees = rem.sees
          /\ st' = st

\* The upload ends, with a half-close if the stream still takes one.
EndUp ==
    /\ px'.up = "done" /\ px'.pre = px.pre /\ px'.read = px.read
    /\ Intact => AllUp \/ st.sfin
    /\ \/ /\ px.route = "tunnel" /\ rem' = rem
          /\ \/ st' = st
             \/ /\ ~st.sfin /\ st' \in Streams /\ st'.up = Append(st.up, HalfClose)
                /\ st'.down = st.down /\ st'.cfin = st.cfin /\ st'.sfin = st.sfin
       \/ /\ px.route = "direct" /\ st' = st
          /\ rem' \in Sockets /\ rem'.sees \in {"eof", rem.sees}
          /\ rem'.got = rem.got /\ rem'.sent = rem.sent /\ rem'.fin = rem.fin

\* A step of the upload copier sends the next chunk or ends the upload; it never
\* skips or repeats a chunk, also when it still has peeked data.
LEMMA UploadEffect ==
    ASSUME RelayTypes, Routes, Stages, Upload
    PROVE  UploadOnly /\ (ChunkUp \/ EndUp)
<1> DEFINE c == Consumed + 1
           grown == Append(st.up, c)
           heard == Append(rem.got, c)
           closed == Append(st.up, HalfClose)
<1>1. /\ px \in Proxies /\ st \in Streams /\ rem \in Sockets /\ RelayTypes
      /\ px.pre \in Seq(Int) /\ px.read \in Nat /\ app.sent \in Nat
      /\ px.pc = "run" /\ px.up = "copy" /\ px.route \in {"direct", "tunnel"}
      /\ UNCHANGED <<app, sv, Around>>
    BY RelayFields DEF RelayTypes, Routes, Upload, Around
<1>2. NextChunk = c /\ c \in Int
    <2>1. CASE px.pre = <<>>
        BY <1>1, <2>1 DEF NextChunk, Consumed
    <2>2. CASE px.pre = <<1>> /\ px.read = 1
        BY <1>1, <2>2 DEF NextChunk, Consumed
    <2> QED
        BY <2>1, <2>2 DEF Stages
<1>3. grown \in Seq(Int) /\ heard \in Seq(Int) /\ closed \in Seq(Int)
    BY <1>1, <1>2, RelayFields DEF HalfClose
<1>4. ASSUME Fresh, px' = Taken
      PROVE  /\ px' \in Proxies /\ px'.pc = px.pc /\ px'.route = px.route /\ px'.down = px.down
             /\ px'.derr = px.derr /\ ~px'.expired
             /\ px'.up = "copy" /\ px'.pre = <<>> /\ px'.read = c
             /\ px.read <= app.sent /\ (px.pre = <<>> => px.read + 1 <= app.sent)
    <2>1. CASE px.pre = <<>>
        <3>3. c = px.read + 1 /\ c \in Nat
            BY <1>1, <2>1 DEF Consumed
        <3> HIDE DEF c
        <3>1. px' = [px EXCEPT !.read = c, !.expired = FALSE]
            BY <1>4, <2>1, <3>3 DEF Taken
        <3>2. px' \in Proxies
            BY <1>1, <3>1, <3>3 DEF Proxies
        <3> QED
            BY <1>1, <1>4, <2>1, <3>1, <3>2, <3>3 DEF Proxies, Fresh, Unread, Stages
    <2>2. CASE px.pre = <<1>> /\ px.read = 1
        <3>1. px' = [px EXCEPT !.pre = <<>>, !.expired = FALSE] /\ c = px.read
            BY <1>1, <1>4, <2>2 DEF Taken, Consumed
        <3>3. <<>> \in Seq(Int)
            OBVIOUS
        <3>2. px' \in Proxies
            BY <1>1, <3>1, <3>3 DEF Proxies
        <3> QED
            BY <1>1, <1>4, <2>2, <3>1, <3>2 DEF Proxies, Stages
    <2> QED
        BY <2>1, <2>2 DEF Stages
<1>5. ASSUME NEW err \in BOOLEAN, UploadEnds(err), Intact => AllUp \/ st.sfin
      PROVE  UploadOnly /\ EndUp
    <2>1. px' = [px EXCEPT !.up = "done", !.uerr = err]
        BY <1>5 DEF UploadEnds
    <2>2. /\ px' \in Proxies /\ px'.pc = px.pc /\ px'.route = px.route /\ px'.down = px.down
          /\ px'.derr = px.derr /\ px'.expired = px.expired
          /\ px'.up = "done" /\ px'.pre = px.pre /\ px'.read = px.read
        BY <1>1, <2>1 DEF Proxies
    <2>3. CASE px.route = "tunnel"
        <3>1. rem' = rem /\ (st' = st \/ (~st.sfin /\ st' = [st EXCEPT !.up = closed]))
            BY <1>5, <2>3 DEF UploadEnds, CloseWrite, Writable
        <3> HIDE DEF closed
        <3>2. CASE st' = st
            BY <1>1, <1>5, <2>2, <2>3, <3>1, <3>2 DEF UploadOnly, EndUp
        <3>3. CASE ~st.sfin /\ st' = [st EXCEPT !.up = closed]
            <4>1. /\ st' \in Streams /\ st'.up = closed
                  /\ st'.down = st.down /\ st'.cfin = st.cfin /\ st'.sfin = st.sfin
                BY <1>1, <1>3, <3>3 DEF Streams
            <4> QED
                BY <1>1, <1>5, <2>2, <2>3, <3>1, <3>3, <4>1 DEF UploadOnly, EndUp, closed
        <3> QED
            BY <3>1, <3>2, <3>3
    <2>4. CASE px.route = "direct"
        <3>1. st' = st /\ (rem' = rem \/ rem' = [rem EXCEPT !.sees = "eof"])
            BY <1>5, <2>4 DEF UploadEnds
        <3>2. /\ rem' \in Sockets /\ rem'.sees \in {"eof", rem.sees}
              /\ rem'.got = rem.got /\ rem'.sent = rem.sent /\ rem'.fin = rem.fin
            BY <1>1, <3>1 DEF Sockets
        <3> QED
            BY <1>1, <1>5, <2>2, <2>4, <3>1, <3>2 DEF UploadOnly, EndUp
    <2> QED
        BY <1>1, <2>3, <2>4
<1> HIDE DEF c
<1>6. CASE Fresh /\ px.route = "tunnel" /\ alive /\ ~st.sfin /\ px' = Taken
             /\ st' = [st EXCEPT !.up = Append(@, NextChunk)] /\ rem' = rem
    <2>1. st' = [st EXCEPT !.up = grown]
        BY <1>2, <1>6
    <2> HIDE DEF grown
    <2>2. /\ st' \in Streams /\ st'.up = grown
          /\ st'.down = st.down /\ st'.cfin = st.cfin /\ st'.sfin = st.sfin
        BY <1>1, <1>3, <2>1 DEF Streams
    <2>3. px'.read <= app.sent
        BY <1>1, <1>4, <1>6 DEF Stages, c, Consumed
    <2> QED
        BY <1>1, <1>4, <1>6, <2>2, <2>3 DEF UploadOnly, ChunkUp, grown, c
<1>7. CASE Fresh /\ px.route = "direct" /\ px' = Taken
             /\ rem' = [rem EXCEPT !.got = Append(@, NextChunk)] /\ st' = st
    <2>1. rem' = [rem EXCEPT !.got = heard]
        BY <1>2, <1>7
    <2> HIDE DEF heard
    <2>2. /\ rem' \in Sockets /\ rem'.got = heard
          /\ rem'.sent = rem.sent /\ rem'.fin = rem.fin /\ rem'.sees = rem.sees
        BY <1>1, <1>3, <2>1 DEF Sockets
    <2>3. px'.read <= app.sent
        BY <1>1, <1>4, <1>7 DEF Stages, c, Consumed
    <2> QED
        BY <1>1, <1>4, <1>7, <2>2, <2>3 DEF UploadOnly, ChunkUp, heard, c
<1>8. CASE Fresh /\ px.route = "tunnel" /\ ~Writable /\ UploadEnds(FALSE)
    BY <1>5, <1>8 DEF Writable, Intact, Stages
<1>9. CASE Fresh /\ px.route = "direct" /\ rem.fin = "rst" /\ UploadEnds(TRUE)
    BY <1>5, <1>9 DEF Intact
<1>10. CASE px.expired /\ UploadEnds(FALSE)
    BY <1>5, <1>10 DEF Intact, Stages
<1>11. CASE ~Fresh /\ app.fin # "open" /\ UploadEnds(app.fin = "rst")
    <2>1. Intact => AllUp
        <3>1. app.fin \in {"open", "fin", "rst"}
            BY DEF RelayTypes, Sockets
        <3> QED
            BY <1>1, <1>11, <3>1 DEF Fresh, Unread, Intact, AllUp, Stages
    <2> QED
        BY <1>5, <1>11, <2>1
<1> QED
    BY <1>6, <1>7, <1>8, <1>9, <1>10, <1>11 DEF Upload

\* A chunk reaches the application.
ChunkDown ==
    /\ px'.down = "copy" /\ px'.derr = px.derr /\ app.fin # "rst"
    /\ app' \in Sockets /\ app'.sent = app.sent /\ app'.fin = app.fin /\ app'.sees = app.sees
    /\ \/ /\ px.route = "tunnel" /\ st.down # <<>>
          /\ Head(st.down) \notin {HalfClose, ErrorFrame}
          /\ app'.got = Append(app.got, Head(st.down))
          /\ st' \in Streams /\ st'.down = Tail(st.down)
          /\ st'.up = st.up /\ st'.cfin = st.cfin /\ st'.sfin = st.sfin
       \/ /\ px.route = "direct" /\ st' = st /\ rem.sent > Len(app.got)
          /\ app'.got = Append(app.got, Len(app.got) + 1)

\* The download ends; why says what it found.
EndDown ==
    /\ px'.down = "done"
    /\ app' \in Sockets /\ app'.got = app.got /\ app'.sent = app.sent /\ app'.fin = app.fin
    /\ app'.sees \in {"eof", app.sees}
    /\ st' \in Streams /\ st'.up = st.up /\ st'.cfin = st.cfin /\ st'.sfin = st.sfin
    /\ \/ /\ px.route = "tunnel"
          /\ \/ st'.down = st.down /\ (late \/ ~alive)
             \/ st'.down = st.down /\ st.down = <<>> /\ st.sfin
             \/ /\ st.down # <<>> /\ st'.down = Tail(st.down)
                /\ \/ app.fin = "rst" /\ px'.derr
                   \/ Head(st.down) = HalfClose
                   \/ Head(st.down) = ErrorFrame /\ px'.derr
       \/ /\ px.route = "direct" /\ st' = st
          /\ Intact => rem.fin = "fin" /\ rem.sent <= Len(app.got)

\* The download copier ends: the application's socket is half-closed unless it
\* was reset.
LEMMA DownloadEndsEffect ==
    ASSUME RelayTypes, NEW err \in BOOLEAN, DownloadEnds(err), px.pc = "run", px.down = "copy",
           UNCHANGED <<rem, sv, Around>>
    PROVE  /\ DownloadOnly /\ px'.down = "done" /\ px'.derr = err
           /\ app' \in Sockets /\ app'.got = app.got /\ app'.sent = app.sent /\ app'.fin = app.fin
           /\ app'.sees \in {"eof", app.sees}
<1>1. px' = [px EXCEPT !.down = "done", !.derr = err] /\ px \in Proxies
    BY DEF DownloadEnds, RelayTypes
<1>2. /\ px' \in Proxies /\ px'.pc = px.pc /\ px'.route = px.route /\ px'.up = px.up
      /\ px'.pre = px.pre /\ px'.read = px.read /\ px'.expired = px.expired
      /\ px'.down = "done" /\ px'.derr = err
    BY <1>1 DEF Proxies
<1>3. app \in Sockets /\ (app' = app \/ app' = [app EXCEPT !.sees = "eof"])
    BY DEF DownloadEnds, RelayTypes
<1>4. /\ app' \in Sockets /\ app'.got = app.got /\ app'.sent = app.sent /\ app'.fin = app.fin
      /\ app'.sees \in {"eof", app.sees}
    BY <1>3 DEF Sockets
<1> QED
    BY <1>2, <1>4 DEF DownloadOnly

\* A chunk is written to the application.
LEMMA DeliverEffect ==
    ASSUME RelayTypes, NEW c \in Int, Deliver(c), app.fin # "rst", px.pc = "run", px.down = "copy",
           UNCHANGED <<rem, sv, Around>>
    PROVE  /\ DownloadOnly /\ px'.down = "copy" /\ px'.derr = px.derr
           /\ app' \in Sockets /\ app'.got = Append(app.got, c)
           /\ app'.sent = app.sent /\ app'.fin = app.fin /\ app'.sees = app.sees
<1> DEFINE q == Append(app.got, c)
<1>1. px' = [px EXCEPT !.expired = FALSE] /\ px \in Proxies
    BY DEF Deliver, RelayTypes
<1>2. /\ px' \in Proxies /\ px'.pc = px.pc /\ px'.route = px.route /\ px'.up = px.up
      /\ px'.pre = px.pre /\ px'.read = px.read /\ ~px'.expired
      /\ px'.down = px.down /\ px'.derr = px.derr
    BY <1>1 DEF Proxies
<1>3. app \in Sockets /\ app' = [app EXCEPT !.got = q] /\ q \in Seq(Int)
    BY RelayFields DEF Deliver, RelayTypes
<1> HIDE DEF q
<1>4. /\ app' \in Sockets /\ app'.got = q
      /\ app'.sent = app.sent /\ app'.fin = app.fin /\ app'.sees = app.sees
    BY <1>3 DEF Sockets
<1> QED
    BY <1>2, <1>4 DEF DownloadOnly, q

\* A step of the download copier of the tunnel takes one message, if any.
LEMMA TunnelEffect ==
    ASSUME RelayTypes, Stages, DownloadTunnel
    PROVE  DownloadOnly /\ (ChunkDown \/ EndDown)
<1> DEFINE m == Head(st.down)
           rest == Tail(st.down)
<1>1. /\ px \in Proxies /\ st \in Streams /\ st.down \in Seq(Int)
      /\ px.pc = "run" /\ px.down = "copy" /\ px.route = "tunnel"
      /\ UNCHANGED <<rem, sv, Around>>
    BY RelayFields DEF RelayTypes, DownloadTunnel, Around
<1>2. CASE px.expired /\ DownloadEnds(FALSE) /\ st' = st
    BY <1>1, <1>2, DownloadEndsEffect DEF Stages, EndDown
<1>3. CASE st.down = <<>> /\ st.sfin /\ DownloadEnds(FALSE) /\ st' = st
    BY <1>1, <1>3, DownloadEndsEffect DEF EndDown
<1>4. CASE ~alive /\ DownloadEnds(FALSE) /\ st' = st
    BY <1>1, <1>4, DownloadEndsEffect DEF EndDown
<1>5. CASE st.down # <<>> /\ st' = [st EXCEPT !.down = Tail(@)] /\ ReadMsg(Head(st.down))
    <2>1. m \in Int /\ rest \in Seq(Int) /\ st' = [st EXCEPT !.down = rest]
        BY <1>1, <1>5
    <2>2. \/ m = HalfClose /\ DownloadEnds(FALSE)
          \/ m = ErrorFrame /\ DownloadEnds(TRUE)
          \/ m \notin {HalfClose, ErrorFrame} /\ Deliver(m)
        BY <1>5 DEF ReadMsg, HalfClose, ErrorFrame
    <2> HIDE DEF m, rest
    <2>3. /\ st' \in Streams /\ st'.down = rest
          /\ st'.up = st.up /\ st'.cfin = st.cfin /\ st'.sfin = st.sfin
        BY <1>1, <2>1 DEF Streams
    <2>4. CASE m = HalfClose /\ DownloadEnds(FALSE)
        BY <1>1, <1>5, <2>3, <2>4, DownloadEndsEffect DEF EndDown, m, rest
    <2>5. CASE m = ErrorFrame /\ DownloadEnds(TRUE)
        BY <1>1, <1>5, <2>3, <2>5, DownloadEndsEffect DEF EndDown, m, rest
    <2>6. CASE m \notin {HalfClose, ErrorFrame} /\ Deliver(m) /\ app.fin # "rst"
        BY <1>1, <1>5, <2>1, <2>3, <2>6, DeliverEffect DEF ChunkDown, m, rest
    <2>7. CASE Deliver(m) /\ app.fin = "rst"
        <3>1. DownloadEnds(TRUE)
            BY <2>7 DEF Deliver
        <3> QED
            BY <1>1, <1>5, <2>3, <2>7, <3>1, DownloadEndsEffect DEF EndDown, m, rest
    <2> QED
        BY <2>2, <2>4, <2>5, <2>6, <2>7
<1> QED
    BY <1>2, <1>3, <1>4, <1>5 DEF DownloadTunnel

\* A step of the download copier of a direct connection.
LEMMA DirectEffect ==
    ASSUME RelayTypes, Stages, DownloadDirect
    PROVE  DownloadOnly /\ (ChunkDown \/ EndDown)
<1>1. /\ px \in Proxies /\ st \in Streams /\ Len(app.got) + 1 \in Int /\ rem.sent \in Nat
      /\ px.pc = "run" /\ px.down = "copy" /\ px.route = "direct" /\ st' = st
      /\ UNCHANGED <<rem, sv, Around>>
    BY RelayFields DEF RelayTypes, DownloadDirect, Around
<1>2. CASE px.expired /\ DownloadEnds(FALSE)
    BY <1>1, <1>2, DownloadEndsEffect DEF Stages, EndDown, Intact
<1>3. CASE Unread(rem, Len(app.got)) /\ Deliver(Len(app.got) + 1)
    <2>1. CASE app.fin = "rst"
        <3>1. DownloadEnds(TRUE)
            BY <1>3, <2>1 DEF Deliver
        <3> QED
            BY <1>1, <2>1, <3>1, DownloadEndsEffect DEF EndDown, Intact
    <2>2. CASE app.fin # "rst"
        BY <1>1, <1>3, <2>2, DeliverEffect DEF ChunkDown, Unread
    <2> QED
        BY <2>1, <2>2
<1>4. CASE ~Unread(rem, Len(app.got)) /\ rem.fin = "fin" /\ DownloadEnds(FALSE)
    <2>1. rem.sent <= Len(app.got)
        BY <1>1, <1>4, RelayFields DEF Unread
    <2> QED
        BY <1>1, <1>4, <2>1, DownloadEndsEffect DEF EndDown
<1>5. CASE rem.fin = "rst" /\ DownloadEnds(TRUE)
    BY <1>1, <1>5, DownloadEndsEffect DEF EndDown, Intact
<1> QED
    BY <1>2, <1>3, <1>4, <1>5 DEF DownloadDirect

\* The server passes a chunk or the half-close on to the destination.
ServerUploadOnly ==
    /\ alive /\ sv.pc = "run" /\ sv.up = "copy"
    /\ sv' \in Servers /\ sv'.pc = sv.pc /\ sv'.down = sv.down /\ sv'.read = sv.read
    /\ st' \in Streams /\ st'.down = st.down /\ st'.cfin = st.cfin /\ st'.sfin = st.sfin
    /\ rem' \in Sockets /\ rem'.sent = rem.sent /\ rem'.fin = rem.fin
    /\ UNCHANGED <<app, px, Around>>

PassUp ==
    \/ /\ st.up # <<>> /\ Head(st.up) = HalfClose
       /\ sv'.up = "done" /\ rem'.got = rem.got /\ rem'.sees = "eof"
    \/ sv'.up = "done" /\ rem'.got = rem.got /\ rem'.sees = rem.sees
    \/ /\ st.up # <<>> /\ Head(st.up) # HalfClose /\ st'.up = Tail(st.up)
       /\ sv'.up = "copy" /\ rem'.got = Append(rem.got, Head(st.up)) /\ rem'.sees = rem.sees

\* A step of the server's copier to the destination takes one message, or ends
\* at the end of the stream.
LEMMA MuxToRemoteEffect ==
    ASSUME RelayTypes, MuxToRemote
    PROVE  ServerUploadOnly /\ PassUp
<1> DEFINE m == Head(st.up)
           rest == Tail(st.up)
           heard == Append(rem.got, m)
<1>1. /\ px \in Proxies /\ st \in Streams /\ st.up \in Seq(Int) /\ sv \in Servers /\ rem \in Sockets
      /\ alive /\ sv.pc = "run" /\ sv.up = "copy"
      /\ UNCHANGED <<app, px, Around>>
    BY RelayFields DEF RelayTypes, MuxToRemote, Around
<1>2. ASSUME sv' = [sv EXCEPT !.up = "done"]
      PROVE  sv' \in Servers /\ sv'.pc = sv.pc /\ sv'.down = sv.down /\ sv'.read = sv.read /\ sv'.up = "done"
    BY <1>1, <1>2 DEF Servers
<1>3. ASSUME st' = [st EXCEPT !.up = rest], st.up # <<>>
      PROVE  /\ st' \in Streams /\ st'.up = rest
             /\ st'.down = st.down /\ st'.cfin = st.cfin /\ st'.sfin = st.sfin
    <2>1. rest \in Seq(Int)
        BY <1>1, <1>3
    <2> HIDE DEF rest
    <2> QED
        BY <1>1, <1>3, <2>1 DEF Streams
<1>4. CASE StreamClosed /\ sv' = [sv EXCEPT !.up = "done"] /\ st' = st /\ rem' = rem
    BY <1>1, <1>2, <1>4 DEF ServerUploadOnly, PassUp
<1>5. CASE st.up # <<>> /\ st' = [st EXCEPT !.up = rest] /\ m = HalfClose
           /\ rem' = [rem EXCEPT !.sees = "eof"] /\ sv' = [sv EXCEPT !.up = "done"]
    <2>1. /\ rem' \in Sockets /\ rem'.sent = rem.sent /\ rem'.fin = rem.fin
          /\ rem'.got = rem.got /\ rem'.sees = "eof"
        BY <1>1, <1>5 DEF Sockets
    <2> QED
        BY <1>1, <1>2, <1>3, <1>5, <2>1 DEF ServerUploadOnly, PassUp
<1>6. CASE st.up # <<>> /\ st' = [st EXCEPT !.up = rest] /\ m # HalfClose
           /\ rem' = rem /\ sv' = [sv EXCEPT !.up = "done"]
    BY <1>1, <1>2, <1>3, <1>6 DEF ServerUploadOnly, PassUp
<1>7. CASE st.up # <<>> /\ st' = [st EXCEPT !.up = rest] /\ m # HalfClose
           /\ sv' = sv /\ rem' = [rem EXCEPT !.got = Append(@, m)]
    <2>1. heard \in Seq(Int) /\ rem' = [rem EXCEPT !.got = heard]
        BY <1>1, <1>7, RelayFields
    <2>2. /\ rem' \in Sockets /\ rem'.sent = rem.sent /\ rem'.fin = rem.fin
          /\ rem'.got = heard /\ rem'.sees = rem.sees
        <3> HIDE DEF heard
        <3> QED
            BY <1>1, <2>1 DEF Sockets
    <2> QED
        BY <1>1, <1>3, <1>7, <2>2 DEF ServerUploadOnly, PassUp
<1> QED
    BY <1>4, <1>5, <1>6, <1>7 DEF MuxToRemote

\* The server sends a chunk of the destination's, or its end.
ServerDownloadOnly ==
    /\ alive /\ sv.pc = "run" /\ sv.down = "copy"
    /\ sv' \in Servers /\ sv'.pc = sv.pc /\ sv'.up = sv.up
    /\ st' \in Streams /\ st'.up = st.up /\ st'.cfin = st.cfin /\ st'.sfin = st.sfin
    /\ UNCHANGED <<app, rem, px, Around>>

PassDown ==
    \/ /\ rem.sent > sv.read /\ sv'.down = "copy" /\ sv'.read = sv.read + 1
       /\ st'.down = Append(st.down, sv.read + 1)
    \/ /\ st.cfin /\ sv'.down = "done" /\ sv'.read = sv.read /\ st'.down = st.down
    \/ /\ sv'.down = "done" /\ sv'.read = sv.read /\ st'.down = Append(st.down, HalfClose)
       /\ Intact => rem.fin = "fin" /\ rem.sent <= sv.read

\* A step of the server's copier from the destination.
LEMMA RemoteToMuxEffect ==
    ASSUME RelayTypes, RemoteToMux
    PROVE  ServerDownloadOnly /\ PassDown
<1> DEFINE next == sv.read + 1
           grown == Append(st.down, next)
           closed == Append(st.down, HalfClose)
<1>1. /\ px \in Proxies /\ st \in Streams /\ sv \in Servers /\ rem \in Sockets
      /\ alive /\ sv.pc = "run" /\ sv.down = "copy"
      /\ UNCHANGED <<app, rem, px, Around>>
      /\ rem.sent \in Nat /\ sv.read \in Nat /\ next \in Nat
      /\ grown \in Seq(Int) /\ closed \in Seq(Int)
    <2>1. rem.sent \in Nat /\ sv.read \in Nat /\ st.down \in Seq(Int)
        BY RelayFields
    <2>2. next \in Nat /\ HalfClose \in Int
        BY <2>1 DEF HalfClose
    <2>3. grown \in Seq(Int) /\ closed \in Seq(Int)
        BY <2>1, <2>2
    <2>4. px \in Proxies /\ st \in Streams /\ sv \in Servers /\ rem \in Sockets
        BY DEF RelayTypes
    <2>5. alive /\ sv.pc = "run" /\ sv.down = "copy" /\ UNCHANGED <<app, rem, px, Around>>
        BY DEF RemoteToMux, Around
    <2> QED
        BY <2>1, <2>2, <2>3, <2>4, <2>5
<1>2. ASSUME sv' = [sv EXCEPT !.down = "done"]
      PROVE  sv' \in Servers /\ sv'.pc = sv.pc /\ sv'.up = sv.up /\ sv'.read = sv.read /\ sv'.down = "done"
    BY <1>1, <1>2 DEF Servers
<1>3. CASE st.cfin /\ st' = st /\ sv' = [sv EXCEPT !.down = "done"]
    BY <1>1, <1>2, <1>3 DEF ServerDownloadOnly, PassDown
<1>4. CASE Unread(rem, sv.read) /\ st' = [st EXCEPT !.down = grown] /\ sv' = [sv EXCEPT !.read = next]
    <2> HIDE DEF grown
    <2>1. /\ st' \in Streams /\ st'.down = grown
          /\ st'.up = st.up /\ st'.cfin = st.cfin /\ st'.sfin = st.sfin
        BY <1>1, <1>4 DEF Streams
    <2>2. sv' \in Servers /\ sv'.pc = sv.pc /\ sv'.up = sv.up /\ sv'.read = next /\ sv'.down = sv.down
        <3> HIDE DEF next
        <3> QED
            BY <1>1, <1>4 DEF Servers
    <2> QED
        BY <1>1, <1>4, <2>1, <2>2 DEF ServerDownloadOnly, PassDown, Unread, grown
<1>5. CASE /\ rem.fin = "rst" \/ (rem.fin = "fin" /\ ~Unread(rem, sv.read))
           /\ st' = [st EXCEPT !.down = closed] /\ sv' = [sv EXCEPT !.down = "done"]
    <2> HIDE DEF closed
    <2>1. /\ st' \in Streams /\ st'.down = closed
          /\ st'.up = st.up /\ st'.cfin = st.cfin /\ st'.sfin = st.sfin
        BY <1>1, <1>5 DEF Streams
    <2>2. Intact => rem.fin = "fin" /\ rem.sent <= sv.read
        BY <1>1, <1>5 DEF Intact, Unread
    <2>3. ServerDownloadOnly
        BY <1>1, <1>2, <1>5, <2>1 DEF ServerDownloadOnly
    <2>4. PassDown
        BY <1>2, <1>5, <2>1, <2>2 DEF PassDown, closed
    <2> QED
        BY <2>3, <2>4
<1> QED
    BY <1>3, <1>4, <1>5 DEF RemoteToMux, EndOfRemote

(***************************************************************************)
(* The entry: what handleConn and forwardTCP do before they copy.          *)
(***************************************************************************)
Entering ==
    \/ Accept \/ PeekHost \/ Socks5Handshake \/ HandleHTTPProxy
    \/ HandleConn \/ ForwardTCP \/ DialDirect

EntryData ==
    /\ px.pc \in Before /\ px' \in Proxies /\ app' \in Sockets /\ sv' \in Servers /\ record' \in Records
    /\ px'.pc # "idle" /\ px'.expired = px.expired
    /\ px'.read = Len(px'.pre) /\ px'.read <= app.sent
    /\ px'.pre = <<>> \/ (px'.pre = <<1>> /\ px'.read = 1)
    /\ app'.sent = app.sent /\ app'.fin = app.fin /\ app'.got = app.got
    /\ app'.sees # "eof" /\ (px'.pc # "end" => app' = app)
    /\ px'.up = px'.down /\ px'.up = (IF px'.pc = "run" THEN "copy" ELSE "none")
    /\ sv'.up = sv.up /\ sv'.down = sv.down /\ sv'.read = sv.read
    /\ UNCHANGED <<rem, st, alive, sem, load, late>>

\* Where the connection goes, and what is counted and recorded.
EntryMove(p, r) == px'.pc = p /\ px'.route = r

EntryBooks ==
    \/ /\ px.pc # "dial" /\ \E p \in {"peek", "request", "route", "end"} : EntryMove(p, px.route)
       /\ UNCHANGED <<record, direct, active, sv>>
    \/ /\ px.pc = "route" /\ \E r \in {"blocked", "tunnel"} : EntryMove("end", r)
       /\ record'.st = "failed" /\ UNCHANGED <<direct, active, sv>>
    \/ /\ px.pc = "route" /\ EntryMove("end", "direct")
       /\ UNCHANGED <<record, direct, active, sv>>
    \/ /\ px.pc = "route" /\ EntryMove("dial", "direct")
       /\ direct < DirectLimit /\ direct' = direct + 1 /\ UNCHANGED <<record, active, sv>>
    \/ /\ px.pc = "route" /\ EntryMove("run", "tunnel")
       /\ alive /\ sv'.pc = "queued" /\ active' = active + 1 /\ record'.st = "open" /\ direct' = direct
    \/ /\ px.pc = "dial" /\ EntryMove("run", px.route)
       /\ record'.st = "open" /\ UNCHANGED <<direct, active, sv>>
    \/ /\ px.pc = "dial" /\ EntryMove("end", px.route)
       /\ direct' = direct - 1 /\ record'.st = "failed" /\ UNCHANGED <<active, sv>>

\* A step of the entry moves no data, and counts and records where it goes.
LEMMA EntryEffect ==
    ASSUME RelayTypes, Untouched, Routes, Stages, Entering, RelayAssumption
    PROVE  EntryData /\ EntryBooks
<1> USE DEF EntryMove
<1>1. /\ px \in Proxies /\ app \in Sockets /\ sv \in Servers /\ record \in Records
      /\ px.read \in Nat /\ px.pre \in Seq(Int) /\ app.sent \in Nat
      /\ direct \in Int /\ DirectLimit \in Int /\ active \in Int
    BY RelayFields, RelayAssumption DEF RelayTypes
<1>2. px.pc \in Before /\ UNCHANGED <<rem, st, alive, sem, load, late>>
    BY DEF Entering, Accept, PeekHost, Socks5Handshake, HandleHTTPProxy, Request, HandleConn, ForwardTCP,
           RouteBlocked, RouteDirect, OpenTCP, DialDirect, Before, Fail
<1>3. /\ px.up = "none" /\ px.down = "none" /\ px.read = Len(px.pre) /\ app.sees = "open"
      /\ px.pre = <<>> \/ (px.pre = <<1>> /\ px.read = 1)
      /\ px.read <= app.sent /\ px.pc # "run" /\ px.pc # "end"
    BY <1>2 DEF Untouched, Stages, Before
<1>4. ASSUME app' = [app EXCEPT !.sees = "closed"]
      PROVE  /\ app' \in Sockets /\ app'.sent = app.sent /\ app'.fin = app.fin
             /\ app'.got = app.got /\ app'.sees # "eof"
    BY <1>1, <1>4 DEF Sockets
<1>5. ASSUME NEW why \in BOOLEAN, record' = [st |-> "failed", err |-> why]
      PROVE  record' \in Records /\ record'.st = "failed"
    BY <1>5 DEF Records
<1>6. ASSUME record' = [st |-> "open", err |-> FALSE]
      PROVE  record' \in Records /\ record'.st = "open"
    BY <1>6 DEF Records
<1>7. CASE Accept
    <2>1. PICK e \in {"redirect", "socks5", "http"}, p \in {"peek", "request"} :
            px' = [px EXCEPT !.pc = p, !.entry = e]
        BY <1>7 DEF Accept
    <2>2. /\ px' \in Proxies /\ px'.pc = p /\ px'.route = px.route /\ px'.pre = px.pre
          /\ px'.read = px.read /\ px'.up = px.up /\ px'.down = px.down /\ px'.expired = px.expired
        BY <1>1, <2>1 DEF Proxies
    <2>3. UNCHANGED <<app, record, direct, active, sv>> /\ px.pc # "dial"
        BY <1>7 DEF Accept
    <2> QED
        BY <1>1, <1>2, <1>3, <2>2, <2>3 DEF EntryData, EntryBooks
<1>8. CASE PeekHost
    <2> DEFINE n == IF Unread(app, 0) THEN 1 ELSE 0
               s == SubSeq(<<1>>, 1, n)
    <2>1. px' = [px EXCEPT !.pc = "route", !.read = n, !.pre = s] /\ n \in {0, 1}
        BY <1>8 DEF PeekHost
    <2>2. /\ s \in Seq(Int) /\ Len(s) = n
          /\ s = <<>> \/ (s = <<1>> /\ n = 1)
        <3>1. CASE n = 0
            <4>1. s = <<>>
                BY <3>1, SubSeqEmpty
            <4> QED
                BY <3>1, <4>1
        <3>2. CASE n = 1
            <4>1. <<1>> \in Seq(Int) /\ Len(<<1>>) = 1
                OBVIOUS
            <4>2. s = <<1>>
                BY <3>2, <4>1, SubSeqFull
            <4> QED
                BY <3>2, <4>1, <4>2
        <3> QED
            BY <2>1, <3>1, <3>2
    <2>3. n \in Nat /\ n <= app.sent
        BY <1>1, <2>1 DEF Unread
    <2> HIDE DEF s, n
    <2>4. /\ px' \in Proxies /\ px'.pc = "route" /\ px'.route = px.route /\ px'.pre = s
          /\ px'.read = n /\ px'.up = px.up /\ px'.down = px.down /\ px'.expired = px.expired
        BY <1>1, <2>1, <2>2, <2>3 DEF Proxies
    <2>5. UNCHANGED <<app, record, direct, active, sv>> /\ px.pc # "dial"
        BY <1>8 DEF PeekHost
    <2> QED
        BY <1>1, <1>2, <1>3, <2>2, <2>3, <2>4, <2>5 DEF EntryData, EntryBooks
<1>9. CASE Socks5Handshake \/ HandleHTTPProxy
    <2>1. PICK p \in {"route", "end"} : px' = [px EXCEPT !.pc = p]
        BY <1>9 DEF Socks5Handshake, HandleHTTPProxy, Request
    <2>2. /\ px' \in Proxies /\ px'.pc = p /\ px'.route = px.route /\ px'.pre = px.pre
          /\ px'.read = px.read /\ px'.up = px.up /\ px'.down = px.down /\ px'.expired = px.expired
        BY <1>1, <2>1 DEF Proxies
    <2>3. UNCHANGED <<record, direct, active, sv>> /\ px.pc # "dial"
        BY <1>9 DEF Socks5Handshake, HandleHTTPProxy, Request
    <2>4. app' = app \/ (p = "end" /\ app' = [app EXCEPT !.sees = "closed"])
        BY <1>1, <1>9, <2>2 DEF Socks5Handshake, HandleHTTPProxy, Request, Proxies
    <2> QED
        BY <1>1, <1>2, <1>3, <1>4, <2>2, <2>3, <2>4 DEF EntryData, EntryBooks
<1>10. CASE px.pc = "route" /\ RouteBlocked
    <2>1. /\ px' = [[px EXCEPT !.route = "blocked"] EXCEPT !.pc = "end"]
          /\ app' = [app EXCEPT !.sees = "closed"] /\ record' = [st |-> "failed", err |-> TRUE]
          /\ UNCHANGED <<direct, active, sv>>
        BY <1>10 DEF RouteBlocked, Fail
    <2>2. /\ px' \in Proxies /\ px'.pc = "end" /\ px'.route = "blocked" /\ px'.pre = px.pre
          /\ px'.read = px.read /\ px'.up = px.up /\ px'.down = px.down /\ px'.expired = px.expired
        BY <1>1, <2>1 DEF Proxies
    <2> QED
        BY <1>1, <1>2, <1>3, <1>4, <1>5, <1>10, <2>1, <2>2 DEF EntryData, EntryBooks
<1>11. CASE px.pc = "route" /\ RouteDirect
    <2>1. PICK p \in {"end", "dial"} : px' = [px EXCEPT !.pc = p, !.route = "direct"]
        BY <1>11 DEF RouteDirect
    <2>2. /\ px' \in Proxies /\ px'.pc = p /\ px'.route = "direct" /\ px'.pre = px.pre
          /\ px'.read = px.read /\ px'.up = px.up /\ px'.down = px.down /\ px'.expired = px.expired
        BY <1>1, <2>1 DEF Proxies
    <2>3. /\ UNCHANGED <<record, active, sv>>
          /\ \/ px'.pc = "end" /\ app' = [app EXCEPT !.sees = "closed"] /\ direct' = direct
             \/ px'.pc = "dial" /\ app' = app /\ direct' = direct + 1 /\ ~(direct >= DirectLimit)
        BY <1>1, <1>11 DEF RouteDirect, Proxies
    <2> QED
        BY <1>1, <1>2, <1>3, <1>4, <1>11, <2>2, <2>3 DEF EntryData, EntryBooks
<1>12. CASE px.pc = "route" /\ OpenTCP /\ alive
    <2>1. /\ px' = [[px EXCEPT !.route = "tunnel"] EXCEPT !.pc = "run", !.up = "copy", !.down = "copy"]
          /\ app' = app /\ record' = [st |-> "open", err |-> FALSE]
          /\ sv' = [sv EXCEPT !.pc = "queued"] /\ active' = active + 1 /\ direct' = direct
        BY <1>12 DEF OpenTCP, Copying
    <2>2. /\ px' \in Proxies /\ px'.pc = "run" /\ px'.route = "tunnel" /\ px'.pre = px.pre
          /\ px'.read = px.read /\ px'.up = "copy" /\ px'.down = "copy" /\ px'.expired = px.expired
        BY <1>1, <2>1 DEF Proxies
    <2>3. /\ sv' \in Servers /\ sv'.pc = "queued"
          /\ sv'.up = sv.up /\ sv'.down = sv.down /\ sv'.read = sv.read
        BY <1>1, <2>1 DEF Servers
    <2> QED
        BY <1>1, <1>2, <1>3, <1>6, <1>12, <2>1, <2>2, <2>3 DEF EntryData, EntryBooks
<1>13. CASE px.pc = "route" /\ OpenTCP /\ ~alive
    <2>1. /\ px' = [[px EXCEPT !.route = "tunnel"] EXCEPT !.pc = "end"]
          /\ app' = [app EXCEPT !.sees = "closed"] /\ record' = [st |-> "failed", err |-> TRUE]
          /\ UNCHANGED <<direct, active, sv>>
        BY <1>13 DEF OpenTCP, Fail
    <2>2. /\ px' \in Proxies /\ px'.pc = "end" /\ px'.route = "tunnel" /\ px'.pre = px.pre
          /\ px'.read = px.read /\ px'.up = px.up /\ px'.down = px.down /\ px'.expired = px.expired
        BY <1>1, <2>1 DEF Proxies
    <2> QED
        BY <1>1, <1>2, <1>3, <1>4, <1>5, <1>13, <2>1, <2>2 DEF EntryData, EntryBooks
<1>14. CASE DialDirect /\ px' = Copying(px)
    <2>1. /\ px' = [px EXCEPT !.pc = "run", !.up = "copy", !.down = "copy"] /\ px.pc = "dial"
          /\ UNCHANGED <<active, sv>>
        BY <1>14 DEF DialDirect, Copying
    <2>2. /\ px' \in Proxies /\ px'.pc = "run" /\ px'.route = px.route /\ px'.pre = px.pre
          /\ px'.read = px.read /\ px'.up = "copy" /\ px'.down = "copy" /\ px'.expired = px.expired
        BY <1>1, <2>1 DEF Proxies
    <2>3. px'.pc # "end"
        BY <2>2
    <2>4. app' = app /\ record' = [st |-> "open", err |-> FALSE] /\ direct' = direct
        <3>1. ASSUME Fail(px, TRUE) PROVE px'.pc = "end"
            BY <1>1, <3>1 DEF Fail, Proxies
        <3> QED
            BY <1>14, <2>3, <3>1 DEF DialDirect
    <2> QED
        BY <1>1, <1>2, <1>3, <1>6, <2>1, <2>2, <2>4 DEF EntryData, EntryBooks
<1>15. CASE DialDirect /\ Fail(px, TRUE) /\ direct' = DirectDialRelease
    <2>1. /\ px' = [px EXCEPT !.pc = "end"] /\ px.pc = "dial"
          /\ app' = [app EXCEPT !.sees = "closed"] /\ record' = [st |-> "failed", err |-> TRUE]
          /\ UNCHANGED <<active, sv>> /\ direct' = direct - 1
        BY <1>15 DEF DialDirect, Fail, DirectDialRelease
    <2>2. /\ px' \in Proxies /\ px'.pc = "end" /\ px'.route = px.route /\ px'.pre = px.pre
          /\ px'.read = px.read /\ px'.up = px.up /\ px'.down = px.down /\ px'.expired = px.expired
        BY <1>1, <2>1 DEF Proxies
    <2> QED
        BY <1>1, <1>2, <1>3, <1>4, <1>5, <2>1, <2>2 DEF EntryData, EntryBooks
<1>16. DialDirect => (DialDirect /\ px' = Copying(px)) \/ (DialDirect /\ Fail(px, TRUE) /\ direct' = DirectDialRelease)
    BY DEF DialDirect
<1> QED
    BY <1>7, <1>8, <1>9, <1>10, <1>11, <1>12, <1>13, <1>14, <1>15, <1>16
       DEF Entering, HandleConn, ForwardTCP

(***************************************************************************)
(* The end of the connection, and the server around its copiers.           *)
(***************************************************************************)
FinishEffect ==
    /\ px.pc = "run" /\ px.up = "done" /\ px.down = "done"
    /\ px' \in Proxies /\ px'.pc = "end" /\ px'.route = px.route /\ px'.pre = px.pre
    /\ px'.read = px.read /\ px'.up = "done" /\ px'.down = "done"
    /\ px'.derr = px.derr /\ px'.expired = px.expired
    /\ record' \in Records /\ record'.st = "closed" /\ (px.derr => record'.err)
    /\ app' \in Sockets /\ app'.got = app.got /\ app'.sent = app.sent /\ app'.fin = app.fin
    /\ app'.sees = "eof" => app.sees = "eof"
    /\ rem' \in Sockets /\ rem'.got = rem.got /\ rem'.sent = rem.sent /\ rem'.fin = rem.fin
    /\ rem'.sees = "eof" => rem.sees = "eof"
    /\ st' \in Streams /\ st'.down = st.down /\ st'.sfin = st.sfin
    /\ UNCHANGED <<sv, alive, sem, load, late>>
    /\ \/ /\ px.route = "tunnel" /\ st'.cfin /\ active' = active - 1 /\ direct' = direct
          /\ st'.up = st.up \/ (~st.sfin /\ st'.up = Append(st.up, HalfClose))
       \/ /\ px.route # "tunnel" /\ st' = st /\ direct' = direct - 1 /\ active' = active

\* Both copiers are done: the connection is closed and recorded.
LEMMA FinishFields ==
    ASSUME RelayTypes, Finish
    PROVE  FinishEffect
<1> DEFINE q == Append(st.up, HalfClose)
<1>1. /\ px \in Proxies /\ app \in Sockets /\ rem \in Sockets /\ st \in Streams
      /\ px.pc = "run" /\ px.up = "done" /\ px.down = "done"
      /\ UNCHANGED <<sv, alive, sem, load, late>> /\ q \in Seq(Int)
    BY RelayFields DEF RelayTypes, Finish, HalfClose
<1>2. px' = [px EXCEPT !.pc = "end"]
    BY DEF Finish
<1>3. /\ px' \in Proxies /\ px'.pc = "end" /\ px'.route = px.route /\ px'.pre = px.pre
      /\ px'.read = px.read /\ px'.up = px.up /\ px'.down = px.down
      /\ px'.derr = px.derr /\ px'.expired = px.expired
    BY <1>1, <1>2 DEF Proxies
<1>4. record' \in Records /\ record'.st = "closed" /\ (px.derr => record'.err)
    <2>1. record' = [st |-> "closed", err |-> px.uerr \/ px.derr] /\ px.uerr \in BOOLEAN /\ px.derr \in BOOLEAN
        BY <1>1 DEF Finish, Proxies
    <2>2. CASE px.uerr \/ px.derr
        <3>1. record' = [st |-> "closed", err |-> TRUE]
            BY <2>1, <2>2
        <3> QED
            BY <3>1 DEF Records
    <2>3. CASE ~(px.uerr \/ px.derr)
        <3>1. record' = [st |-> "closed", err |-> FALSE]
            BY <2>1, <2>3
        <3> QED
            BY <2>3, <3>1 DEF Records
    <2> QED
        BY <2>2, <2>3
<1>5. /\ app' \in Sockets /\ app'.got = app.got /\ app'.sent = app.sent /\ app'.fin = app.fin
      /\ app'.sees = "eof" => app.sees = "eof"
    <2>1. PICK e \in {"open", "eof", "closed"} : /\ app' = [app EXCEPT !.sees = e]
                                                 /\ e = "eof" => app.sees = "eof"
        BY <1>1 DEF Finish, Sockets
    <2> QED
        BY <1>1, <2>1 DEF Sockets
<1>6. CASE px.route = "tunnel"
    <2>1. st' = [CloseWrite(st) EXCEPT !.cfin = TRUE] /\ active' = active - 1 /\ rem' = rem /\ direct' = direct
        BY <1>6 DEF Finish
    <2>2. CASE CloseWrite(st) = st
        <3>1. /\ st' \in Streams /\ st'.down = st.down /\ st'.sfin = st.sfin
              /\ st'.cfin /\ st'.up = st.up
            BY <1>1, <2>1, <2>2 DEF Streams
        <3> QED
            BY <1>1, <1>3, <1>4, <1>5, <1>6, <2>1, <3>1 DEF FinishEffect
    <2>3. CASE ~st.sfin /\ CloseWrite(st) = [st EXCEPT !.up = Append(@, HalfClose)]
        <3>1. PICK s : s = [st EXCEPT !.up = q]
            OBVIOUS
        <3>2. s = CloseWrite(st)
            BY <2>3, <3>1
        <3> HIDE DEF q
        <3>3. s \in Streams /\ s.up = q /\ s.down = st.down /\ s.cfin = st.cfin /\ s.sfin = st.sfin
            BY <1>1, <3>1 DEF Streams
        <3>4. st' = [s EXCEPT !.cfin = TRUE]
            BY <2>1, <3>2
        <3>5. st' \in Streams /\ st'.down = s.down /\ st'.sfin = s.sfin /\ st'.cfin /\ st'.up = s.up
            BY <1>1, <3>3, <3>4 DEF Streams
        <3> QED
            BY <1>1, <1>3, <1>4, <1>5, <1>6, <2>1, <2>3, <3>3, <3>5 DEF FinishEffect, q
    <2> QED
        BY <2>2, <2>3 DEF CloseWrite, Writable
<1>7. CASE px.route # "tunnel"
    <2>1. st' = st /\ direct' = direct - 1 /\ active' = active
        BY <1>7 DEF Finish, DirectDialRelease
    <2>2. PICK e \in {"open", "eof", "closed"} : /\ rem' = [rem EXCEPT !.sees = e]
                                                 /\ e = "eof" => rem.sees = "eof"
        BY <1>1, <1>7 DEF Finish, Sockets
    <2>3. /\ rem' \in Sockets /\ rem'.got = rem.got /\ rem'.sent = rem.sent /\ rem'.fin = rem.fin
          /\ rem'.sees = "eof" => rem.sees = "eof"
        BY <1>1, <2>2 DEF Sockets
    <2> QED
        BY <1>1, <1>3, <1>4, <1>5, <1>7, <2>1, <2>3 DEF FinishEffect
<1> QED
    BY <1>6, <1>7

\* The accept loop, the dial and the return of the server's handler.
ServerMove(from, to) == sv.pc = from /\ sv'.pc = to

ServerEffect ==
    /\ alive /\ sv' \in Servers /\ sv'.read = sv.read
    /\ st' \in Streams /\ st'.up = st.up /\ st'.cfin = st.cfin
    /\ rem' \in Sockets /\ rem'.got = rem.got /\ rem'.sent = rem.sent /\ rem'.fin = rem.fin
    /\ rem'.sees = "eof" => rem.sees = "eof"
    /\ UNCHANGED <<app, px, alive, direct, active, record, load, late>>
    /\ \/ /\ ServerMove("queued", "header") /\ sem < Slots /\ sem' = sem + 1 /\ st' = st
          /\ sv'.up = sv.up /\ sv'.down = sv.down
       \/ /\ ServerMove("queued", "rejected") /\ sem' = sem
          /\ st'.down = Append(st.down, HalfClose) /\ st'.sfin
          /\ sv'.up = sv.up /\ sv'.down = sv.down
       \/ /\ ServerMove("header", "dial") /\ sem' = sem /\ st' = st
          /\ sv'.up = sv.up /\ sv'.down = sv.down
       \/ /\ ServerMove("dial", "run") /\ sem' = sem /\ st' = st
          /\ sv'.up = "copy" /\ sv'.down = "copy"
       \/ /\ ServerMove("dial", "failed") /\ sem' = sem - 1
          /\ st'.down = Append(st.down, ErrorFrame) /\ st'.sfin
          /\ sv'.up = sv.up /\ sv'.down = sv.down
       \/ /\ ServerMove("run", "end") /\ sem' = sem - 1 /\ st'.down = st.down /\ st'.sfin
          /\ sv'.up = "done" /\ sv'.down = "done" /\ sv.up = "done" /\ sv.down = "done"

\* A step of the server beside its copiers.
LEMMA ServerFields ==
    ASSUME RelayTypes, Server, RelayAssumption
    PROVE  ServerEffect
<1> USE DEF ServerMove
<1> DEFINE half == Append(st.down, HalfClose)
           error == Append(st.down, ErrorFrame)
<1>1. /\ st \in Streams /\ sv \in Servers /\ rem \in Sockets /\ alive
      /\ UNCHANGED <<app, px, alive, direct, active, record, load, late>>
      /\ half \in Seq(Int) /\ error \in Seq(Int) /\ sem \in Int /\ Slots \in Nat
    <2>1. st.down \in Seq(Int) /\ HalfClose \in Int /\ ErrorFrame \in Int
        BY RelayFields DEF HalfClose, ErrorFrame
    <2>2. half \in Seq(Int) /\ error \in Seq(Int)
        BY <2>1
    <2>3. st \in Streams /\ sv \in Servers /\ rem \in Sockets /\ sem \in Int /\ Slots \in Nat
        BY RelayAssumption DEF RelayTypes
    <2>4. alive /\ UNCHANGED <<app, px, alive, direct, active, record, load, late>>
        BY DEF Server, AcceptStream, HandleStream, DialTCP, HandleTCPReturns
    <2> QED
        BY <2>2, <2>3, <2>4
<1> HIDE DEF half, error
<1>2. CASE /\ sv.pc = "queued" /\ sem < Slots /\ sem' = sem + 1 /\ st' = st /\ rem' = rem
           /\ sv' = [sv EXCEPT !.pc = "header"]
    <2>1. sv' \in Servers /\ sv'.pc = "header" /\ sv'.up = sv.up /\ sv'.down = sv.down /\ sv'.read = sv.read
        BY <1>1, <1>2 DEF Servers
    <2> QED
        BY <1>1, <1>2, <2>1 DEF ServerEffect
<1>3. CASE /\ sv.pc = "queued" /\ sem' = sem /\ rem' = rem
           /\ st' = [st EXCEPT !.down = half, !.sfin = TRUE]
           /\ sv' = [sv EXCEPT !.pc = "rejected"]
    <2>1. sv' \in Servers /\ sv'.pc = "rejected" /\ sv'.up = sv.up /\ sv'.down = sv.down /\ sv'.read = sv.read
        BY <1>1, <1>3 DEF Servers
    <2>2. st' \in Streams /\ st'.up = st.up /\ st'.down = half /\ st'.cfin = st.cfin /\ st'.sfin
        BY <1>1, <1>3 DEF Streams
    <2> QED
        BY <1>1, <1>3, <2>1, <2>2 DEF ServerEffect, half
<1>4. CASE /\ sv.pc = "header" /\ sem' = sem /\ st' = st /\ rem' = rem
           /\ sv' = [sv EXCEPT !.pc = "dial"]
    <2>1. sv' \in Servers /\ sv'.pc = "dial" /\ sv'.up = sv.up /\ sv'.down = sv.down /\ sv'.read = sv.read
        BY <1>1, <1>4 DEF Servers
    <2> QED
        BY <1>1, <1>4, <2>1 DEF ServerEffect
<1>5. CASE /\ sv.pc = "dial" /\ sem' = sem /\ st' = st /\ rem' = rem
           /\ sv' = [sv EXCEPT !.pc = "run", !.up = "copy", !.down = "copy"]
    <2>1. sv' \in Servers /\ sv'.pc = "run" /\ sv'.up = "copy" /\ sv'.down = "copy" /\ sv'.read = sv.read
        BY <1>1, <1>5 DEF Servers
    <2> QED
        BY <1>1, <1>5, <2>1 DEF ServerEffect
<1>6. CASE /\ sv.pc = "dial" /\ sem' = sem - 1 /\ rem' = rem
           /\ st' = [st EXCEPT !.down = error, !.sfin = TRUE]
           /\ sv' = [sv EXCEPT !.pc = "failed"]
    <2>1. sv' \in Servers /\ sv'.pc = "failed" /\ sv'.up = sv.up /\ sv'.down = sv.down /\ sv'.read = sv.read
        BY <1>1, <1>6 DEF Servers
    <2>2. st' \in Streams /\ st'.up = st.up /\ st'.down = error /\ st'.cfin = st.cfin /\ st'.sfin
        BY <1>1, <1>6 DEF Streams
    <2> QED
        BY <1>1, <1>6, <2>1, <2>2 DEF ServerEffect, error
<1>7. CASE HandleTCPReturns
    <2>1. /\ sv' = [sv EXCEPT !.pc = "end"] /\ st' = [st EXCEPT !.sfin = TRUE] /\ sem' = sem - 1
          /\ sv.pc = "run" /\ sv.up = "done" /\ sv.down = "done"
        BY <1>7 DEF HandleTCPReturns, StreamDone
    <2>2. sv' \in Servers /\ sv'.pc = "end" /\ sv'.up = sv.up /\ sv'.down = sv.down /\ sv'.read = sv.read
        BY <1>1, <2>1 DEF Servers
    <2>3. st' \in Streams /\ st'.up = st.up /\ st'.down = st.down /\ st'.cfin = st.cfin /\ st'.sfin
        BY <1>1, <2>1 DEF Streams
    <2>4. PICK e \in {"open", "eof", "closed"} : /\ rem' = [rem EXCEPT !.sees = e]
                                                 /\ e = "eof" => rem.sees = "eof"
        BY <1>1, <1>7 DEF HandleTCPReturns, Sockets
    <2>5. /\ rem' \in Sockets /\ rem'.got = rem.got /\ rem'.sent = rem.sent /\ rem'.fin = rem.fin
          /\ rem'.sees = "eof" => rem.sees = "eof"
        BY <1>1, <2>4 DEF Sockets
    <2> QED
        BY <1>1, <2>1, <2>2, <2>3, <2>5 DEF ServerEffect
<1>8. AcceptStream => \/ /\ sv.pc = "queued" /\ sem < Slots /\ sem' = sem + 1 /\ st' = st /\ rem' = rem
                         /\ sv' = [sv EXCEPT !.pc = "header"]
                      \/ /\ sv.pc = "queued" /\ sem' = sem /\ rem' = rem
                         /\ st' = [st EXCEPT !.down = half, !.sfin = TRUE]
                         /\ sv' = [sv EXCEPT !.pc = "rejected"]
    BY DEF AcceptStream, half
<1>9. HandleStream => /\ sv.pc = "header" /\ sem' = sem /\ st' = st /\ rem' = rem
                      /\ sv' = [sv EXCEPT !.pc = "dial"]
    BY DEF HandleStream
<1>10. DialTCP => \/ /\ sv.pc = "dial" /\ sem' = sem /\ st' = st /\ rem' = rem
                     /\ sv' = [sv EXCEPT !.pc = "run", !.up = "copy", !.down = "copy"]
                  \/ /\ sv.pc = "dial" /\ sem' = sem - 1 /\ rem' = rem
                     /\ st' = [st EXCEPT !.down = error, !.sfin = TRUE]
                     /\ sv' = [sv EXCEPT !.pc = "failed"]
    BY DEF DialTCP, DialFailed, error
<1> QED
    BY <1>2, <1>3, <1>4, <1>5, <1>6, <1>7, <1>8, <1>9, <1>10 DEF Server

\* The session dies.
SessionEffect ==
    /\ alive /\ alive' = FALSE /\ sem' = 0
    /\ sv' \in Servers /\ sv'.pc \in {"none", "end"} /\ (sv.pc = "none" <=> sv'.pc = "none")
    /\ sv'.up = sv.up /\ sv'.down = sv.down /\ sv'.read = sv.read
    /\ rem' \in Sockets /\ rem'.got = rem.got /\ rem'.sent = rem.sent /\ rem'.fin = rem.fin
    /\ rem'.sees \in {rem.sees, "closed"}
    /\ sv.pc = "none" => rem' = rem
    /\ UNCHANGED <<app, px, st, direct, active, record, load, late>>

\* The session dies and the server's handler with it.
LEMMA SessionFields ==
    ASSUME RelayTypes, SessionDies
    PROVE  SessionEffect
<1>1. /\ alive /\ alive' = FALSE /\ sem' = 0 /\ sv \in Servers /\ rem \in Sockets
      /\ UNCHANGED <<app, px, st, direct, active, record, load, late>>
    BY DEF SessionDies, RelayTypes
<1>2. PICK p \in {"none", "end"} : sv' = [sv EXCEPT !.pc = p] /\ (sv.pc = "none" <=> p = "none")
    BY DEF SessionDies
<1>3. /\ sv' \in Servers /\ sv'.pc = p
      /\ sv'.up = sv.up /\ sv'.down = sv.down /\ sv'.read = sv.read
    BY <1>1, <1>2 DEF Servers
<1>4. PICK e \in {rem.sees, "closed"} : rem' = [rem EXCEPT !.sees = e] /\ (sv.pc = "none" => e = rem.sees)
    BY DEF SessionDies
<1>5. /\ rem' \in Sockets /\ rem'.got = rem.got /\ rem'.sent = rem.sent /\ rem'.fin = rem.fin
      /\ rem'.sees = e
    BY <1>1, <1>4 DEF Sockets
<1>6. sv.pc = "none" => rem' = rem
    BY <1>1, <1>4 DEF Sockets
<1> QED
    BY <1>1, <1>2, <1>3, <1>4, <1>5, <1>6 DEF SessionEffect

\* The application, the destination and the deadline.
Reached == <<px, st, sv, alive, sem, direct, active, record, load>>

AppEffect ==
    /\ app.fin = "open" /\ app' \in Sockets /\ app'.got = app.got /\ app'.sees = app.sees
    /\ UNCHANGED <<rem, Reached, late>>
    /\ \/ app'.sent = app.sent + 1 /\ app'.fin = app.fin /\ app.sent < MaxUp
       \/ app'.sent = app.sent /\ app'.fin \in {"fin", "rst"}

RemEffect ==
    /\ rem.fin = "open" /\ rem' \in Sockets /\ rem'.got = rem.got /\ rem'.sees = rem.sees
    /\ Connected /\ UNCHANGED <<app, Reached, late>>
    /\ \/ rem'.sent = rem.sent + 1 /\ rem'.fin = rem.fin /\ rem.sent < MaxDown
       \/ rem'.sent = rem.sent /\ rem'.fin \in {"fin", "rst"}

\* The application or the destination sends a chunk or ends its direction.
LEMMA EndpointFields ==
    ASSUME RelayTypes, Endpoints
    PROVE  AppEffect \/ RemEffect
<1>1. app \in Sockets /\ rem \in Sockets /\ app.sent + 1 \in Nat /\ rem.sent + 1 \in Nat
    BY RelayFields DEF RelayTypes
<1>2. CASE AppSend
    <2>1. PICK n \in Nat : app' = [app EXCEPT !.sent = n] /\ n = app.sent + 1
        BY <1>1, <1>2 DEF AppSend
    <2>2. app' \in Sockets /\ app'.got = app.got /\ app'.sees = app.sees /\ app'.fin = app.fin /\ app'.sent = n
        BY <1>1, <2>1 DEF Sockets
    <2> QED
        BY <1>2, <2>1, <2>2 DEF AppSend, AppEffect, Reached
<1>3. CASE AppEnds
    <2>1. PICK how \in {"fin", "rst"} : app' = [app EXCEPT !.fin = how]
        BY <1>3 DEF AppEnds
    <2>2. app' \in Sockets /\ app'.got = app.got /\ app'.sees = app.sees /\ app'.fin = how /\ app'.sent = app.sent
        BY <1>1, <2>1 DEF Sockets
    <2> QED
        BY <1>3, <2>1, <2>2 DEF AppEnds, AppEffect, Reached
<1>4. CASE RemSend
    <2>1. PICK n \in Nat : rem' = [rem EXCEPT !.sent = n] /\ n = rem.sent + 1
        BY <1>1, <1>4 DEF RemSend
    <2>2. rem' \in Sockets /\ rem'.got = rem.got /\ rem'.sees = rem.sees /\ rem'.fin = rem.fin /\ rem'.sent = n
        BY <1>1, <2>1 DEF Sockets
    <2> QED
        BY <1>4, <2>1, <2>2 DEF RemSend, RemEffect, Reached
<1>5. CASE RemEnds
    <2>1. PICK how \in {"fin", "rst"} : rem' = [rem EXCEPT !.fin = how]
        BY <1>5 DEF RemEnds
    <2>2. rem' \in Sockets /\ rem'.got = rem.got /\ rem'.sees = rem.sees /\ rem'.fin = how /\ rem'.sent = rem.sent
        BY <1>1, <2>1 DEF Sockets
    <2> QED
        BY <1>5, <2>1, <2>2 DEF RemEnds, RemEffect, Reached
<1> QED
    BY <1>2, <1>3, <1>4, <1>5 DEF Endpoints

TimeoutEffect ==
    /\ px' \in Proxies /\ px'.pc = px.pc /\ px'.route = px.route /\ px'.pre = px.pre /\ px'.read = px.read
    /\ px'.up = px.up /\ px'.down = px.down /\ px'.derr = px.derr
    /\ late' = TRUE /\ px.pc = "run"
    /\ UNCHANGED <<app, rem, st, sv, alive, sem, direct, active, record, load>>

\* The idle deadline passes.
LEMMA TimeoutFields ==
    ASSUME RelayTypes, IdleTimeout
    PROVE  TimeoutEffect
<1>1. px \in Proxies /\ px' = [px EXCEPT !.expired = TRUE]
    BY DEF IdleTimeout, RelayTypes
<1>2. /\ px' \in Proxies /\ px'.pc = px.pc /\ px'.route = px.route /\ px'.pre = px.pre /\ px'.read = px.read
      /\ px'.up = px.up /\ px'.down = px.down /\ px'.derr = px.derr
    BY <1>1 DEF Proxies
<1> QED
    BY <1>2 DEF IdleTimeout, TimeoutEffect

(***************************************************************************)
(* The strengthening of Accounted is inductive.                            *)
(***************************************************************************)
LEMMA StageStep ==
    ASSUME StageInv, [RelayNext]_vars, RelayAssumption
    PROVE  StageInv'
<1>0. /\ RelayTypes /\ Untouched /\ Routes /\ Stages /\ Bounds /\ Accounted
      /\ app.sent \in Nat /\ rem.sent \in Nat /\ px.read \in Nat /\ sv.read \in Nat
      /\ sem \in Int /\ direct \in Int /\ active \in Int /\ load \in Nat
      /\ Slots \in Nat /\ DirectLimit \in Nat /\ MaxUp \in Nat /\ MaxDown \in Nat
    BY RelayFields DEF StageInv, RelayAssumption, RelayTypes
<1>1. CASE Entering
    <2>1. EntryData /\ EntryBooks
        BY <1>0, <1>1, EntryEffect
    <2>2. RelayTypes'
        BY <1>0, <2>1 DEF EntryData, EntryBooks, EntryMove, Before, RelayTypes
    <2>3. Untouched'
        BY <1>0, <2>1 DEF EntryData, EntryBooks, EntryMove, Before, Untouched, Routes
    <2>4. Routes'
        BY <1>0, <2>1 DEF EntryData, EntryBooks, EntryMove, Before, Routes, Untouched
    <2>5. Stages'
        BY <1>0, <2>1 DEF EntryData, EntryBooks, EntryMove, Before, Stages, Routes, Untouched
    <2>6. Bounds'
        BY <1>0, <2>1 DEF EntryData, EntryBooks, EntryMove, Before, Bounds
    <2>7. Accounted'
        BY <1>0, <2>1 DEF EntryData, EntryBooks, EntryMove, Before, Accounted, Mine, MyDirect,
                          Routes, Stages
    <2> QED
        BY <2>2, <2>3, <2>4, <2>5, <2>6, <2>7 DEF StageInv
<1>2. CASE Upload
    <2>1. UploadOnly /\ (ChunkUp \/ EndUp)
        BY <1>0, <1>2, UploadEffect
    <2>2. RelayTypes'
        BY <1>0, <2>1 DEF UploadOnly, ChunkUp, EndUp, Around, RelayTypes
    <2>3. Untouched'
        BY <1>0, <2>1 DEF UploadOnly, ChunkUp, EndUp, Around, Untouched, Before, Routes
    <2>4. Routes'
        BY <1>0, <2>1 DEF UploadOnly, ChunkUp, EndUp, Around, Routes, Untouched, Before
    <2>5. Stages'
        BY <1>0, <2>1 DEF UploadOnly, ChunkUp, EndUp, Around, Stages, Routes, Untouched, Before
    <2>6. Bounds'
        BY <1>0, <2>1 DEF UploadOnly, ChunkUp, EndUp, Around, Bounds
    <2>7. Accounted'
        BY <1>0, <2>1 DEF UploadOnly, ChunkUp, EndUp, Around, Accounted, Mine, MyDirect, Routes, Stages, Before
    <2> QED
        BY <2>2, <2>3, <2>4, <2>5, <2>6, <2>7 DEF StageInv
<1>3. CASE DownloadTunnel \/ DownloadDirect
    <2>1. DownloadOnly /\ (ChunkDown \/ EndDown)
        BY <1>0, <1>3, TunnelEffect, DirectEffect
    <2>2. RelayTypes'
        BY <1>0, <2>1 DEF DownloadOnly, ChunkDown, EndDown, Around, RelayTypes
    <2>3. Untouched'
        BY <1>0, <2>1 DEF DownloadOnly, ChunkDown, EndDown, Around, Untouched, Before, Routes
    <2>4. Routes'
        BY <1>0, <2>1 DEF DownloadOnly, ChunkDown, EndDown, Around, Routes, Untouched, Before
    <2>5. Stages'
        BY <1>0, <2>1 DEF DownloadOnly, ChunkDown, EndDown, Around, Stages, Routes, Untouched, Before
    <2>6. Bounds'
        BY <1>0, <2>1 DEF DownloadOnly, ChunkDown, EndDown, Around, Bounds
    <2>7. Accounted'
        BY <1>0, <2>1 DEF DownloadOnly, ChunkDown, EndDown, Around, Accounted, Mine, MyDirect, Routes, Stages, Before
    <2> QED
        BY <2>2, <2>3, <2>4, <2>5, <2>6, <2>7 DEF StageInv
<1>4. CASE IdleTimeout
    <2>1. TimeoutEffect
        BY <1>0, <1>4, TimeoutFields
    <2>2. RelayTypes'
        BY <1>0, <2>1 DEF TimeoutEffect, RelayTypes
    <2>3. Untouched'
        BY <1>0, <2>1 DEF TimeoutEffect, Untouched, Before, Routes
    <2>4. Routes'
        BY <1>0, <2>1 DEF TimeoutEffect, Routes, Untouched, Before
    <2>5. Stages'
        BY <1>0, <2>1 DEF TimeoutEffect, Stages, Routes, Untouched, Before
    <2>6. Bounds'
        BY <1>0, <2>1 DEF TimeoutEffect, Bounds
    <2>7. Accounted'
        BY <1>0, <2>1 DEF TimeoutEffect, Accounted, Mine, MyDirect, Routes, Stages, Before
    <2> QED
        BY <2>2, <2>3, <2>4, <2>5, <2>6, <2>7 DEF StageInv
<1>5. CASE Finish
    <2>1. FinishEffect
        BY <1>0, <1>5, FinishFields
    <2>2. RelayTypes'
        BY <1>0, <2>1 DEF FinishEffect, RelayTypes
    <2>3. Untouched'
        BY <1>0, <2>1 DEF FinishEffect, Untouched, Before, Routes
    <2>4. Routes'
        BY <1>0, <2>1 DEF FinishEffect, Routes, Untouched, Before
    <2>5. Stages'
        BY <1>0, <2>1 DEF FinishEffect, Stages, Routes, Untouched, Before
    <2>6. Bounds'
        BY <1>0, <2>1 DEF FinishEffect, Bounds
    <2>7. Accounted'
        BY <1>0, <2>1 DEF FinishEffect, Accounted, Mine, MyDirect, Routes, Stages, Before
    <2> QED
        BY <2>2, <2>3, <2>4, <2>5, <2>6, <2>7 DEF StageInv
<1>6. CASE Server
    <2>1. ServerEffect
        BY <1>0, <1>6, ServerFields
    <2>2. RelayTypes'
        BY <1>0, <2>1 DEF ServerEffect, ServerMove, RelayTypes
    <2>3. Untouched'
        BY <1>0, <2>1 DEF ServerEffect, ServerMove, Untouched, Before, Routes
    <2>4. Routes'
        BY <1>0, <2>1 DEF ServerEffect, ServerMove, Routes, Untouched, Before
    <2>5. Stages'
        BY <1>0, <2>1 DEF ServerEffect, ServerMove, Stages, Routes, Untouched, Before
    <2>6. Bounds'
        BY <1>0, <2>1 DEF ServerEffect, ServerMove, Bounds
    <2>7. Accounted'
        BY <1>0, <2>1 DEF ServerEffect, ServerMove, Accounted, Mine, MyDirect, Routes, Stages, Before
    <2> QED
        BY <2>2, <2>3, <2>4, <2>5, <2>6, <2>7 DEF StageInv
<1>7. CASE MuxToRemote
    <2>1. ServerUploadOnly /\ PassUp
        BY <1>0, <1>7, MuxToRemoteEffect
    <2>2. RelayTypes'
        BY <1>0, <2>1 DEF ServerUploadOnly, PassUp, Around, RelayTypes
    <2>3. Untouched'
        BY <1>0, <2>1 DEF ServerUploadOnly, PassUp, Around, Untouched, Before, Routes
    <2>4. Routes'
        BY <1>0, <2>1 DEF ServerUploadOnly, PassUp, Around, Routes, Untouched, Before
    <2>5. Stages'
        BY <1>0, <2>1 DEF ServerUploadOnly, PassUp, Around, Stages, Routes, Untouched, Before
    <2>6. Bounds'
        BY <1>0, <2>1 DEF ServerUploadOnly, PassUp, Around, Bounds
    <2>7. Accounted'
        BY <1>0, <2>1 DEF ServerUploadOnly, PassUp, Around, Accounted, Mine, MyDirect, Routes, Stages, Before
    <2> QED
        BY <2>2, <2>3, <2>4, <2>5, <2>6, <2>7 DEF StageInv
<1>8. CASE RemoteToMux
    <2>1. ServerDownloadOnly /\ PassDown
        BY <1>0, <1>8, RemoteToMuxEffect
    <2>2. RelayTypes'
        BY <1>0, <2>1 DEF ServerDownloadOnly, PassDown, Around, RelayTypes
    <2>3. Untouched'
        BY <1>0, <2>1 DEF ServerDownloadOnly, PassDown, Around, Untouched, Before, Routes
    <2>4. Routes'
        BY <1>0, <2>1 DEF ServerDownloadOnly, PassDown, Around, Routes, Untouched, Before
    <2>5. Stages'
        BY <1>0, <2>1 DEF ServerDownloadOnly, PassDown, Around, Stages, Routes, Untouched, Before
    <2>6. Bounds'
        BY <1>0, <2>1 DEF ServerDownloadOnly, PassDown, Around, Bounds
    <2>7. Accounted'
        BY <1>0, <2>1 DEF ServerDownloadOnly, PassDown, Around, Accounted, Mine, MyDirect, Routes, Stages, Before
    <2> QED
        BY <2>2, <2>3, <2>4, <2>5, <2>6, <2>7 DEF StageInv
<1>9. CASE Endpoints
    <2>1. AppEffect \/ RemEffect
        BY <1>0, <1>9, EndpointFields
    <2>2. RelayTypes'
        BY <1>0, <2>1 DEF AppEffect, RemEffect, Reached, Connected, RelayTypes
    <2>3. Untouched'
        BY <1>0, <2>1 DEF AppEffect, RemEffect, Reached, Connected, Untouched, Before, Routes
    <2>4. Routes'
        BY <1>0, <2>1 DEF AppEffect, RemEffect, Reached, Connected, Routes, Untouched, Before
    <2>5. Stages'
        <3>1. UNCHANGED <<px, st, sv, alive, late>> /\ app'.sent >= app.sent /\ rem'.sent >= rem.sent
            BY <1>0, <2>1 DEF AppEffect, RemEffect, Reached
        <3>2. app'.sent \in Nat /\ rem'.sent \in Nat
            BY <2>2, RelayFields DEF RelayTypes, Sockets
        <3> QED
            BY <1>0, <3>1, <3>2 DEF Stages
    <2>6. Bounds'
        BY <1>0, <2>1 DEF AppEffect, RemEffect, Reached, Connected, Bounds
    <2>7. Accounted'
        BY <1>0, <2>1 DEF AppEffect, RemEffect, Reached, Connected, Accounted, Mine, MyDirect, Routes, Stages, Before
    <2> QED
        BY <2>2, <2>3, <2>4, <2>5, <2>6, <2>7 DEF StageInv
<1>10. CASE SessionDies
    <2>1. SessionEffect
        BY <1>0, <1>10, SessionFields
    <2>8. alive' \in BOOLEAN
        BY <2>1, Zenon DEF SessionEffect
    <2>2. RelayTypes'
        BY <1>0, <2>1, <2>8 DEF SessionEffect, RelayTypes
    <2>3. Untouched'
        BY <1>0, <2>1 DEF SessionEffect, Untouched, Before, Routes
    <2>4. Routes'
        BY <1>0, <2>1 DEF SessionEffect, Routes, Untouched, Before
    <2>5. Stages'
        BY <1>0, <2>1 DEF SessionEffect, Stages, Routes, Untouched, Before
    <2>6. Bounds'
        BY <1>0, <2>1 DEF SessionEffect, Bounds
    <2>7. Accounted'
        BY <1>0, <2>1 DEF SessionEffect, Accounted, Mine, MyDirect, Routes, Stages, Before
    <2> QED
        BY <2>2, <2>3, <2>4, <2>5, <2>6, <2>7 DEF StageInv
<1>11. CASE OtherConnections
    <2>2. RelayTypes'
        BY <1>0, <1>11 DEF OtherConnections, RelayTypes
    <2>3. Untouched'
        BY <1>0, <1>11 DEF OtherConnections, Untouched, Before, Routes
    <2>4. Routes'
        BY <1>0, <1>11 DEF OtherConnections, Routes, Untouched, Before
    <2>5. Stages'
        BY <1>0, <1>11 DEF OtherConnections, Stages, Routes, Untouched, Before
    <2>6. Bounds'
        BY <1>0, <1>11 DEF OtherConnections, Bounds
    <2>7. Accounted'
        BY <1>0, <1>11 DEF OtherConnections, Accounted, Mine, MyDirect, Routes, Stages, Before
    <2> QED
        BY <2>2, <2>3, <2>4, <2>5, <2>6, <2>7 DEF StageInv
<1>12. CASE UNCHANGED vars
    <2>2. RelayTypes'
        BY <1>0, <1>12 DEF vars, RelayTypes
    <2>3. Untouched'
        BY <1>0, <1>12 DEF vars, Untouched, Before, Routes
    <2>4. Routes'
        BY <1>0, <1>12 DEF vars, Routes, Untouched, Before
    <2>5. Stages'
        BY <1>0, <1>12 DEF vars, Stages, Routes, Untouched, Before
    <2>6. Bounds'
        BY <1>0, <1>12 DEF vars, Bounds
    <2>7. Accounted'
        BY <1>0, <1>12 DEF vars, Accounted, Mine, MyDirect, Routes, Stages, Before
    <2> QED
        BY <2>2, <2>3, <2>4, <2>5, <2>6, <2>7 DEF StageInv
<1> QED
    BY <1>1, <1>2, <1>3, <1>4, <1>5, <1>6, <1>7, <1>8, <1>9, <1>10, <1>11, <1>12 DEF RelayNext, Proxy, Entering

(***************************************************************************)
(* Chunks on a stream.                                                     *)
(***************************************************************************)
\* The next chunk follows those on the stream.
LEMMA ChunkAppended ==
    ASSUME NEW q \in Seq(Int), NEW n \in Nat, NEW E, Chunks(q, Len(q), n, E)
    PROVE  Chunks(Append(q, n + Len(q) + 1), Len(q) + 1, n, E)
    BY DEF Chunks

\* An end follows the chunks on the stream.
LEMMA EndAppended ==
    ASSUME NEW q \in Seq(Int), NEW n \in Nat, NEW d \in Nat, NEW E, Chunks(q, d, n, E),
           NEW m \in Int, m \in E
    PROVE  Chunks(Append(q, m), d, n, E) /\ d < Len(Append(q, m))
    BY DEF Chunks

\* The head of the stream is the chunk after those received.
LEMMA ChunkTaken ==
    ASSUME NEW q \in Seq(Int), NEW n \in Nat, NEW d \in Nat, NEW E, Chunks(q, d, n, E), q # <<>>
    PROVE  /\ Len(Tail(q)) = Len(q) - 1 /\ Tail(q) \in Seq(Int)
           /\ d > 0 => Head(q) = n + 1 /\ Chunks(Tail(q), d - 1, n + 1, E)
           /\ d = 0 => Head(q) \in E /\ Chunks(Tail(q), 0, n, E) /\ d < Len(q)
<1>1. /\ Tail(q) \in Seq(Int) /\ Len(Tail(q)) = Len(q) - 1 /\ Len(q) \in Nat \ {0}
      /\ Head(q) = q[1] /\ \A i \in 1..(Len(q) - 1) : Tail(q)[i] = q[i + 1]
    OBVIOUS
<1>2. CASE d > 0
    <2>1. Head(q) = n + 1 /\ d - 1 \in 0..Len(Tail(q))
        BY <1>1, <1>2 DEF Chunks
    <2>2. \A i \in 1..(d - 1) : Tail(q)[i] = n + 1 + i
        BY <1>1, <1>2 DEF Chunks
    <2>3. \A i \in (d - 1 + 1)..Len(Tail(q)) : Tail(q)[i] \in E
        BY <1>1, <1>2 DEF Chunks
    <2> QED
        BY <1>1, <1>2, <2>1, <2>2, <2>3 DEF Chunks
<1>3. CASE d = 0
    BY <1>1, <1>3 DEF Chunks
<1> QED
    BY <1>1, <1>2, <1>3

\* Nothing is under way on an empty stream.
LEMMA NoChunks ==
    ASSUME NEW n \in Nat, NEW E
    PROVE  Chunks(<<>>, 0, n, E) /\ Numbered(<<>>)
    BY DEF Chunks, Numbered

\* The destination has heard one chunk more.
LEMMA Heard ==
    ASSUME NEW s \in Seq(Int), Numbered(s)
    PROVE  Numbered(Append(s, Len(s) + 1)) /\ Len(Append(s, Len(s) + 1)) = Len(s) + 1
    BY DEF Numbered

(***************************************************************************)
(* The upload.                                                             *)
(***************************************************************************)
\* A step that leaves the upload alone, or cuts the connection.
LEMMA UpKept ==
    ASSUME UpFlow,
           st'.up = st.up, rem'.got = rem.got, px'.route = px.route,
           px'.pre = px.pre, px'.read = px.read, px'.up = px.up,
           sv.up = "done" => sv'.up = "done", st.sfin => st'.sfin,
           rem'.sees = "eof" => rem.sees = "eof",
           Intact' => Intact, AllUp => AllUp' /\ app'.sent = app.sent
    PROVE  UpFlow'
<1>1. Consumed' = Consumed
    BY DEF Consumed
<1>2. ASSUME NEW d \in Nat, InFlightUp(d) PROVE InFlightUp(d)'
    BY <1>1, <1>2 DEF InFlightUp, Chunks
<1>3. (px'.route = "tunnel" /\ sv'.up # "done") => \E d \in Nat : InFlightUp(d)'
    BY <1>2 DEF UpFlow
<1> QED
    BY <1>1, <1>3 DEF UpFlow, Numbered

\* The upload's invariant is inductive.
LEMMA UpStep ==
    ASSUME StageInv, UpFlow, StageInv', [RelayNext]_vars, RelayAssumption
    PROVE  UpFlow'
<1>0. /\ RelayTypes /\ Untouched /\ Routes /\ Stages
      /\ app.sent \in Nat /\ px.read \in Nat /\ px.pre \in Seq(Int)
      /\ st.up \in Seq(Int) /\ rem.got \in Seq(Int)
      /\ rem.fin \in {"open", "fin", "rst"} /\ app.fin \in {"open", "fin", "rst"}
    BY RelayFields DEF StageInv, RelayTypes, Sockets
<1>1. CASE Entering
    <2>1. EntryData /\ EntryBooks
        BY <1>0, <1>1, EntryEffect
    <2>2. /\ rem.got = <<>> /\ rem.sees = "open" /\ rem' = rem /\ st' = st
          /\ px.route # "tunnel" /\ st.up = <<>> /\ sv'.up # "done"
          /\ px'.up # "done" /\ px'.read = Len(px'.pre)
        BY <1>0, <2>1 DEF EntryData, Untouched, Routes, Stages, Before
    <2>3. Consumed' = 0 /\ Len(rem.got) = 0 /\ px'.pre \in Seq(Int)
        BY <2>1, <2>2 DEF Consumed, EntryData, Proxies
    <2>4. InFlightUp(0)'
        BY <2>2, <2>3, NoChunks DEF InFlightUp, Chunks
    <2> QED
        BY <2>2, <2>3, <2>4, NoChunks DEF UpFlow
<1>2. CASE Upload
    <2>1. UploadOnly
        BY <1>0, <1>2, UploadEffect
    <2>2. CASE ChunkUp /\ px.route = "tunnel"
        <3>1. /\ sv' = sv /\ px'.route = "tunnel" /\ px'.up = "copy" /\ px.up = "copy" /\ rem' = rem
              /\ st'.up = Append(st.up, Consumed + 1)
            BY <2>1, <2>2 DEF UploadOnly, ChunkUp
        <3>2. Consumed \in Int /\ Consumed' = Consumed + 1
            BY <1>0, <2>2 DEF ChunkUp, Consumed
        <3>3. ASSUME NEW d \in Nat, InFlightUp(d) PROVE InFlightUp(d + 1)'
            <4>1. d = Len(st.up) /\ Chunks(st.up, d, Len(rem.got), UpEnds) /\ Len(rem.got) + d = Consumed
                BY <1>0, <3>1, <3>3 DEF InFlightUp, Chunks
            <4>2. Len(rem.got) \in Nat /\ Len(st.up) \in Nat
                BY <1>0
            <4>5. Consumed + 1 = Len(rem.got) + Len(st.up) + 1
                BY <4>1
            <4>3. Chunks(st'.up, d + 1, Len(rem'.got), UpEnds)
                BY <1>0, <3>1, <4>1, <4>2, <4>5, ChunkAppended
            <4>6. Len(st'.up) = Len(st.up) + 1
                BY <1>0, <3>1
            <4>4. ~(d + 1 < Len(st'.up))
                BY <4>1, <4>2, <4>6
            <4>7. Len(rem'.got) = Len(rem.got)
                BY <3>1
            <4>10. Len(rem.got) + (d + 1) = Consumed + 1
                <5> DEFINE a == Len(rem.got)
                           c == Consumed
                <5>1. a \in Int /\ d \in Int /\ c \in Int
                    BY <3>2, <4>1, <4>2
                <5>2. a + d = c
                    BY <4>1
                <5> HIDE DEF a, c
                <5>3. a + (d + 1) = c + 1
                    BY <5>1, <5>2
                <5> QED
                    BY <5>3 DEF a, c
            <4>8. Len(rem'.got) + (d + 1) = Consumed'
                BY <3>2, <4>7, <4>10
            <4> QED
                BY <4>3, <4>4, <4>8 DEF InFlightUp
        <3>4. sv.up # "done" => \E d \in Nat : InFlightUp(d)'
            BY <2>2, <3>3 DEF UpFlow
        <3>6. ~AllUp
            <4>1. AllUp => Consumed = app.sent
                BY <1>0 DEF AllUp, Consumed
            <4> QED
                BY <1>0, <2>2, <3>2, <4>1 DEF ChunkUp
        <3>7. app' = app /\ Intact' = Intact
            BY <2>1, <3>1 DEF UploadOnly, Intact, Around
        <3>5. rem.sees = "eof" => sv.up = "done" /\ ~Intact
            BY <2>2, <3>6 DEF UpFlow
        <3> QED
            BY <2>2, <3>1, <3>4, <3>5, <3>7 DEF UpFlow
    <2>3. CASE ChunkUp /\ px.route = "direct"
        <3>1. /\ px'.route = "direct" /\ px'.up = "copy" /\ px.up = "copy"
              /\ rem'.got = Append(rem.got, Consumed + 1) /\ rem'.sees = rem.sees
            BY <2>1, <2>3 DEF UploadOnly, ChunkUp
        <3>2. Consumed \in Int /\ Consumed' = Consumed + 1
            BY <1>0, <2>3 DEF ChunkUp, Consumed
        <3>3. Len(rem.got) = Consumed /\ Numbered(rem.got) /\ rem.sees # "eof"
            BY <2>3, <3>1 DEF UpFlow
        <3>4. Numbered(rem'.got) /\ Len(rem'.got) = Consumed'
            BY <1>0, <3>1, <3>2, <3>3, Heard
        <3> QED
            BY <3>1, <3>3, <3>4 DEF UpFlow
    <2>4. CASE EndUp /\ px.route = "tunnel"
        <3>1. /\ UNCHANGED <<app, sv, alive, late, rem>> /\ px'.route = "tunnel" /\ px'.up = "done" /\ px.up = "copy"
              /\ px'.pre = px.pre /\ px'.read = px.read
              /\ st'.sfin = st.sfin
            BY <2>1, <2>4 DEF UploadOnly, EndUp, Around
        <3>5. st'.up = st.up \/ (st'.up = Append(st.up, HalfClose) /\ ~st.sfin)
            BY <2>4 DEF EndUp
        <3>2. /\ Consumed' = Consumed /\ Intact' = Intact /\ AllUp' = AllUp
              /\ Intact => AllUp \/ st.sfin
            BY <2>4, <3>1 DEF Consumed, Intact, AllUp, EndUp
        <3>3. ASSUME NEW d \in Nat, InFlightUp(d) PROVE InFlightUp(d)'
            <4>4. ~(d < Len(st.up))
                BY <3>1, <3>3 DEF InFlightUp
            <4>1. /\ Chunks(st.up, d, Len(rem.got), UpEnds) /\ Len(rem.got) + d = Consumed
                  /\ rem'.got = rem.got
                BY <3>1, <3>3 DEF InFlightUp
            <4>2. CASE st'.up = st.up
                BY <3>2, <4>1, <4>2, <4>4 DEF InFlightUp
            <4>3. CASE st'.up = Append(st.up, HalfClose) /\ ~st.sfin
                <5>2. HalfClose \in UpEnds /\ HalfClose \in Int /\ Len(rem.got) \in Nat
                    BY <1>0 DEF HalfClose, UpEnds
                <5>1. Chunks(st'.up, d, Len(rem.got), UpEnds)
                    BY <1>0, <4>1, <4>3, <5>2, EndAppended
                <5> QED
                    BY <3>1, <3>2, <4>1, <4>3, <5>1 DEF InFlightUp
            <4> QED
                BY <3>5, <4>2, <4>3
        <3>4. sv.up # "done" => \E d \in Nat : InFlightUp(d)'
            BY <2>4, <3>3 DEF UpFlow
        <3> QED
            BY <2>4, <3>1, <3>2, <3>4 DEF UpFlow
    <2>5. CASE EndUp /\ px.route = "direct"
        <3>1. /\ UNCHANGED <<app, sv, alive, late, st>> /\ px'.route = "direct" /\ px'.up = "done"
              /\ rem'.got = rem.got /\ rem'.fin = rem.fin
              /\ px'.pre = px.pre /\ px'.read = px.read
            BY <2>1, <2>5 DEF UploadOnly, EndUp, Around
        <3>2. /\ Consumed' = Consumed /\ Intact' = Intact /\ AllUp' = AllUp
              /\ Intact => AllUp \/ st.sfin
            BY <2>5, <3>1 DEF Consumed, Intact, AllUp, EndUp
        <3>3. ~st.sfin
            BY <1>0, <2>5 DEF Routes
        <3>4. AllUp => Consumed = app.sent
            BY <1>0 DEF AllUp, Consumed
        <3> QED
            BY <2>5, <3>1, <3>2, <3>3, <3>4 DEF UpFlow
    <2> QED
        BY <1>0, <1>2, <2>2, <2>3, <2>4, <2>5, UploadEffect DEF ChunkUp, EndUp
<1>3. CASE DownloadTunnel \/ DownloadDirect
    <2>1. DownloadOnly /\ (ChunkDown \/ EndDown)
        BY <1>0, <1>3, TunnelEffect, DirectEffect
    <2>2. UNCHANGED <<rem, sv, alive, late>> /\ st'.up = st.up /\ st'.sfin = st.sfin
        BY <2>1 DEF DownloadOnly, ChunkDown, EndDown, Around
    <2>3. app'.sent = app.sent /\ app'.fin = app.fin
        BY <2>1 DEF ChunkDown, EndDown
    <2> QED
        BY <2>1, <2>2, <2>3, UpKept DEF DownloadOnly, Intact, AllUp
<1>4. CASE IdleTimeout
    BY <1>0, <1>4, TimeoutFields, UpKept DEF TimeoutEffect, Intact, AllUp
<1>5. CASE Finish
    <2>1. FinishEffect
        BY <1>0, <1>5, FinishFields
    <2>2. /\ UNCHANGED <<sv, alive, late>> /\ px'.route = px.route /\ px'.up = "done" /\ px.up = "done"
          /\ px'.pre = px.pre /\ px'.read = px.read /\ st'.sfin = st.sfin
          /\ app'.sent = app.sent /\ app'.fin = app.fin /\ rem'.got = rem.got /\ rem'.fin = rem.fin
          /\ rem'.sees = "eof" => rem.sees = "eof"
        BY <2>1 DEF FinishEffect
    <2>3. Consumed' = Consumed /\ Intact' = Intact /\ AllUp' = AllUp
        BY <2>2 DEF Consumed, Intact, AllUp
    <2>4. CASE st'.up = st.up
        BY <2>2, <2>3, <2>4, UpKept
    <2>5. CASE ~st.sfin /\ st'.up = Append(st.up, HalfClose) /\ px.route = "tunnel"
        <3>1. ASSUME NEW d \in Nat, InFlightUp(d) PROVE InFlightUp(d)'
            <4>1. Chunks(st'.up, d, Len(rem.got), UpEnds)
                <5>1. HalfClose \in UpEnds /\ HalfClose \in Int /\ Len(rem.got) \in Nat
                    BY <1>0 DEF HalfClose, UpEnds
                <5> QED
                    BY <1>0, <2>5, <3>1, <5>1, EndAppended DEF InFlightUp
            <4>2. Intact => AllUp
                BY <2>2, <2>5 DEF UpFlow
            <4> QED
                BY <2>2, <2>3, <3>1, <4>1, <4>2 DEF InFlightUp
        <3>2. sv.up # "done" => \E d \in Nat : InFlightUp(d)'
            BY <2>5, <3>1 DEF UpFlow
        <3> QED
            BY <2>2, <2>3, <2>5, <3>2 DEF UpFlow
    <2> QED
        BY <2>1, <2>4, <2>5 DEF FinishEffect
<1>6. CASE Server
    <2>1. ServerEffect
        BY <1>0, <1>6, ServerFields
    <2>2. sv.up = "done" => sv'.up = "done"
        BY <1>0, <2>1 DEF ServerEffect, ServerMove, Stages
    <2>3. st.sfin => st'.sfin
        BY <1>0, <2>1 DEF ServerEffect, ServerMove
    <2> QED
        BY <2>1, <2>2, <2>3, UpKept DEF ServerEffect, Intact, AllUp
<1>7. CASE MuxToRemote
    <2>1. ServerUploadOnly /\ PassUp
        BY <1>0, <1>7, MuxToRemoteEffect
    <2>2. /\ sv.up # "done" /\ px' = px /\ px.route = "tunnel" /\ st'.sfin = st.sfin
          /\ app' = app /\ rem'.fin = rem.fin
        BY <1>0, <2>1 DEF ServerUploadOnly, Routes
    <2>3. Consumed' = Consumed /\ Intact' = Intact /\ AllUp' = AllUp
        BY <2>1, <2>2 DEF Consumed, Intact, AllUp, ServerUploadOnly, Around
    <2>4. PICK d \in Nat : InFlightUp(d)
        BY <2>2 DEF UpFlow
    <2>5. /\ Chunks(st.up, d, Len(rem.got), UpEnds) /\ Len(rem.got) \in Nat /\ Numbered(rem.got)
          /\ rem.sees # "eof" /\ Len(rem.got) + d = Consumed
          /\ (px.up = "done" /\ Intact) => AllUp \/ st.sfin
        BY <1>0, <2>2, <2>4 DEF UpFlow, InFlightUp
    <2>6. CASE st.up # <<>> /\ Head(st.up) = HalfClose /\ sv'.up = "done" /\ rem'.got = rem.got
        <3>1. d = 0 /\ d < Len(st.up)
            <4>1. ~(d > 0)
                <5>1. d > 0 => Head(st.up) = Len(rem.got) + 1
                    BY <1>0, <2>5, <2>6, ChunkTaken
                <5> QED
                    BY <2>5, <2>6, <5>1 DEF HalfClose
            <4> QED
                BY <1>0, <2>5, <2>6, <4>1, ChunkTaken
        <3>2. Intact => AllUp /\ Len(rem.got) = app.sent
            BY <1>0, <2>4, <2>5, <3>1 DEF InFlightUp, AllUp, Consumed
        <3>3. px'.route = "tunnel" /\ sv'.up = "done" /\ Numbered(rem'.got)
            BY <2>2, <2>5, <2>6
        <3>4. (px'.up = "done" /\ Intact') => AllUp' \/ st'.sfin
            BY <2>2, <2>3, <2>5
        <3>5. Intact' => AllUp' /\ Len(rem'.got) = app'.sent
            BY <2>2, <2>3, <2>6, <3>2
        <3> QED
            BY <3>3, <3>4, <3>5 DEF UpFlow
    <2>7. CASE sv'.up = "done" /\ rem'.got = rem.got /\ rem'.sees = rem.sees
        BY <2>2, <2>3, <2>5, <2>7 DEF UpFlow
    <2>8. CASE /\ st.up # <<>> /\ Head(st.up) # HalfClose /\ st'.up = Tail(st.up)
               /\ sv'.up = "copy" /\ rem'.got = Append(rem.got, Head(st.up)) /\ rem'.sees = rem.sees
        <3>1. d > 0
            <4>1. d = 0 => Head(st.up) \in UpEnds
                BY <1>0, <2>5, <2>8, ChunkTaken
            <4> QED
                BY <2>8, <4>1 DEF UpEnds
        <3>2. /\ Head(st.up) = Len(rem.got) + 1 /\ Len(st'.up) = Len(st.up) - 1
              /\ Chunks(st'.up, d - 1, Len(rem.got) + 1, UpEnds)
            <4> DEFINE q == st.up
                       n == Len(rem.got)
            <4>1. q \in Seq(Int) /\ n \in Nat /\ q # <<>> /\ Chunks(q, d, n, UpEnds)
                BY <1>0, <2>5, <2>8
            <4> HIDE DEF q, n
            <4>2. Len(Tail(q)) = Len(q) - 1 /\ Head(q) = n + 1 /\ Chunks(Tail(q), d - 1, n + 1, UpEnds)
                BY <3>1, <4>1, ChunkTaken
            <4> QED
                BY <2>8, <4>2 DEF q, n
        <3>3. Numbered(rem'.got) /\ Len(rem'.got) = Len(rem.got) + 1
            BY <1>0, <2>5, <2>8, <3>2, Heard
        <3>4. /\ d - 1 \in Nat /\ Len(rem'.got) + (d - 1) = Consumed'
              /\ d - 1 < Len(st'.up) => d < Len(st.up)
            BY <1>0, <2>3, <2>5, <3>1, <3>2, <3>3
        <3>5. InFlightUp(d - 1)'
            BY <2>2, <2>3, <2>4, <3>2, <3>3, <3>4 DEF InFlightUp
        <3>6. \E e \in Nat : InFlightUp(e)'
            BY <3>4, <3>5
        <3> QED
            BY <2>2, <2>3, <2>5, <2>8, <3>3, <3>6 DEF UpFlow
    <2> QED
        BY <2>1, <2>6, <2>7, <2>8 DEF PassUp
<1>8. CASE RemoteToMux
    <2>1. ServerDownloadOnly
        BY <1>0, <1>8, RemoteToMuxEffect
    <2> QED
        BY <2>1, UpKept DEF ServerDownloadOnly, Intact, AllUp, Around
<1>9. CASE Endpoints
    <2>1. CASE AppEffect
        <3>1. AllUp => AllUp' /\ app'.sent = app.sent
            BY <1>0, <2>1 DEF AppEffect, AllUp
        <3> QED
            BY <1>0, <2>1, <3>1, UpKept DEF AppEffect, Reached, Intact
    <2>2. CASE RemEffect
        BY <1>0, <2>2, UpKept DEF RemEffect, Reached, Intact, AllUp
    <2> QED
        BY <1>0, <1>9, <2>1, <2>2, EndpointFields
<1>10. CASE SessionDies
    <2>1. SessionEffect
        BY <1>0, <1>10, SessionFields
    <2>2. ~Intact'
        BY <2>1 DEF SessionEffect, Intact
    <2> QED
        BY <2>1, <2>2, UpKept DEF SessionEffect, AllUp
<1>11. CASE OtherConnections
    BY <1>11, UpKept DEF OtherConnections, Intact, AllUp
<1>12. CASE UNCHANGED vars
    BY <1>12, UpKept DEF vars, Intact, AllUp
<1> QED
    BY <1>1, <1>2, <1>3, <1>4, <1>5, <1>6, <1>7, <1>8, <1>9, <1>10, <1>11, <1>12 DEF RelayNext, Proxy, Entering

(***************************************************************************)
(* The download.                                                           *)
(***************************************************************************)
Refused == sv.pc \in {"rejected", "failed"}

\* A step that leaves the download alone, or cuts the connection.
LEMMA DownKept ==
    ASSUME DownFlow,
           st'.down = st.down, app'.got = app.got, px'.route = px.route,
           px'.down = px.down, sv'.read = sv.read, rem'.sent = rem.sent \/ rem.fin # "fin",
           sv.down = "done" => sv'.down = "done",
           sv'.down = "done" => sv.down = "done",
           sv.pc \in {"rejected", "failed", "end"} => sv'.pc \in {"rejected", "failed", "end"},
           st.cfin => st'.cfin, rem'.sent \in Nat, rem.sent \in Nat, rem'.sent >= rem.sent,
           Len(app.got) \in Nat,
           app'.sees = "eof" => app.sees = "eof",
           Intact' => Intact /\ (Refused => Refused'), AllDown => AllDown',
           rem.fin = "fin" => rem'.fin = "fin"
    PROVE  DownFlow'
<1>1. (Intact' /\ ~Refused') => (Intact /\ ~Refused)
    OBVIOUS
<1>2. ASSUME NEW d \in Nat, InFlightDown(d) PROVE InFlightDown(d)'
    BY <1>1, <1>2 DEF InFlightDown, Chunks, Refused
<1>3. (px'.route = "tunnel" /\ px'.down # "done") => \E d \in Nat : InFlightDown(d)'
    BY <1>2 DEF DownFlow
<1>4. app'.sees = "eof" =>
        /\ px'.down = "done"
        /\ (Intact' /\ ~Refused') => rem'.fin = "fin" /\ Len(app'.got) = rem'.sent
    BY <1>1 DEF DownFlow, Refused
<1>5. px'.route # "tunnel" => Len(app'.got) <= rem'.sent
    BY DEF DownFlow
<1>6. (sv'.down = "done" /\ Intact') => AllDown' \/ st'.cfin
    BY DEF DownFlow
<1> QED
    BY <1>3, <1>4, <1>5, <1>6 DEF DownFlow, Numbered, Refused

\* The download's invariant is inductive.
LEMMA DownStep ==
    ASSUME StageInv, DownFlow, StageInv', [RelayNext]_vars, RelayAssumption
    PROVE  DownFlow'
<1>0. /\ RelayTypes /\ Untouched /\ Routes /\ Stages
      /\ sv.read \in Nat /\ rem.sent \in Nat
      /\ st.down \in Seq(Int) /\ app.got \in Seq(Int) /\ Len(app.got) \in Nat
      /\ rem.fin \in {"open", "fin", "rst"} /\ app.fin \in {"open", "fin", "rst"}
      /\ sv.read <= rem.sent
    <2>1. RelayTypes /\ Untouched /\ Routes /\ Stages
        BY DEF StageInv
    <2>2. rem.fin \in {"open", "fin", "rst"} /\ app.fin \in {"open", "fin", "rst"}
        BY <2>1 DEF RelayTypes, Sockets
    <2>3. sv.read <= rem.sent
        BY <2>1 DEF Stages
    <2> QED
        BY <2>1, <2>2, <2>3, RelayFields
<1>1. CASE Entering
    <2>1. EntryData /\ EntryBooks
        BY <1>0, <1>1, EntryEffect
    <2>2. /\ app.got = <<>> /\ app'.got = <<>> /\ app'.sees # "eof" /\ rem' = rem /\ st' = st
          /\ px.route # "tunnel" /\ st.down = <<>> /\ sv'.down # "done" /\ sv'.read = 0
        BY <1>0, <2>1 DEF EntryData, Untouched, Routes, Stages, Before
    <2>3. Len(app'.got) = 0
        BY <2>2
    <2>4. InFlightDown(0)'
        BY <2>2, <2>3, NoChunks DEF InFlightDown, Chunks
    <2> QED
        BY <1>0, <2>2, <2>3, <2>4, NoChunks DEF DownFlow
<1>2. CASE Upload
    <2>1. UploadOnly /\ (ChunkUp \/ EndUp)
        BY <1>0, <1>2, UploadEffect
    <2>2. UNCHANGED <<app, sv, alive, late>> /\ px'.route = px.route /\ px'.down = px.down
        BY <2>1 DEF UploadOnly, Around
    <2>3. st'.down = st.down /\ st'.cfin = st.cfin /\ rem'.sent = rem.sent /\ rem'.fin = rem.fin
        BY <2>1 DEF ChunkUp, EndUp
    <2> QED
        BY <1>0, <2>2, <2>3, DownKept DEF Intact, AllDown, Refused
<1>3. CASE DownloadTunnel \/ DownloadDirect
    <2>1. DownloadOnly
        BY <1>0, <1>3, TunnelEffect, DirectEffect
    <2>2. /\ UNCHANGED <<rem, sv, alive, late>> /\ px'.route = px.route /\ px.down = "copy"
          /\ px.pc = "run" /\ ~st.cfin
        BY <1>0, <2>1 DEF DownloadOnly, Around, Stages
    <2>3. app.sees # "eof"
        BY <2>2 DEF DownFlow
    <2>4. CASE ChunkDown /\ px.route = "tunnel"
        <3>1. PICK d \in Nat : InFlightDown(d)
            BY <2>2, <2>4 DEF DownFlow
        <3>2. /\ px'.down = "copy" /\ app'.fin = app.fin /\ app'.sees = app.sees /\ st.down # <<>>
              /\ Head(st.down) \notin {HalfClose, ErrorFrame} /\ st'.down = Tail(st.down)
              /\ app'.got = Append(app.got, Head(st.down)) /\ st'.cfin = st.cfin
            BY <2>4 DEF ChunkDown
        <3>3. Chunks(st.down, d, Len(app.got), DownEnds) /\ Len(app.got) + d = sv.read
            BY <3>1 DEF InFlightDown
        <3>4. d > 0
            <4>1. d = 0 => Head(st.down) \in DownEnds
                BY <1>0, <3>2, <3>3, ChunkTaken
            <4> QED
                BY <3>2, <4>1 DEF DownEnds
        <3>5. /\ Head(st.down) = Len(app.got) + 1 /\ Len(st'.down) = Len(st.down) - 1
              /\ Chunks(st'.down, d - 1, Len(app.got) + 1, DownEnds)
            <4> DEFINE q == st.down
                       n == Len(app.got)
            <4>1. q \in Seq(Int) /\ n \in Nat /\ q # <<>> /\ Chunks(q, d, n, DownEnds)
                BY <1>0, <3>2, <3>3
            <4> HIDE DEF q, n
            <4>2. Len(Tail(q)) = Len(q) - 1 /\ Head(q) = n + 1 /\ Chunks(Tail(q), d - 1, n + 1, DownEnds)
                BY <3>4, <4>1, ChunkTaken
            <4> QED
                BY <3>2, <4>2 DEF q, n
        <3>6. Numbered(app'.got) /\ Len(app'.got) = Len(app.got) + 1
            BY <1>0, <3>2, <3>5, Heard DEF DownFlow
        <3>7. /\ d - 1 \in Nat /\ Len(app'.got) + (d - 1) = sv.read
              /\ d - 1 < Len(st'.down) => d < Len(st.down)
            <4>1. Len(st.down) \in Nat
                BY <1>0
            <4>2. d - 1 < Len(st'.down) => d < Len(st.down)
                BY <3>5, <4>1
            <4>3. Len(app'.got) + (d - 1) = sv.read
                BY <1>0, <3>3, <3>6
            <4> QED
                BY <3>4, <4>2, <4>3
        <3>8. Intact' = Intact /\ AllDown' = AllDown
            BY <2>2, <3>2 DEF Intact, AllDown
        <3>9. InFlightDown(d - 1)'
            BY <2>2, <3>1, <3>5, <3>6, <3>7, <3>8 DEF InFlightDown
        <3>10. \E e \in Nat : InFlightDown(e)'
            BY <3>7, <3>9
        <3> QED
            BY <2>2, <2>3, <2>4, <3>2, <3>6, <3>8, <3>10 DEF DownFlow
    <2>5. CASE ChunkDown /\ px.route = "direct"
        <3>1. /\ px'.down = "copy" /\ app'.fin = app.fin /\ app'.sees = app.sees /\ st' = st
              /\ app'.got = Append(app.got, Len(app.got) + 1) /\ rem.sent > Len(app.got)
            BY <2>5 DEF ChunkDown
        <3>2. Numbered(app'.got) /\ Len(app'.got) = Len(app.got) + 1
            BY <1>0, <3>1, Heard DEF DownFlow
        <3>3. Intact' = Intact /\ AllDown' = AllDown
            BY <2>2, <3>1 DEF Intact, AllDown
        <3>4. Len(app'.got) <= rem.sent
            BY <1>0, <3>1, <3>2
        <3> QED
            BY <2>2, <2>3, <2>5, <3>1, <3>2, <3>3, <3>4 DEF DownFlow
    <2>6. CASE EndDown
        <3>1. /\ px'.down = "done" /\ app'.got = app.got /\ app'.fin = app.fin /\ st'.cfin = st.cfin
              /\ app'.sees \in {"eof", app.sees}
            BY <2>6 DEF EndDown
        <3>2. Intact' = Intact /\ AllDown' = AllDown
            BY <2>2, <3>1 DEF Intact, AllDown
        <3>3. (Intact /\ ~Refused) => rem.fin = "fin" /\ Len(app.got) = rem.sent
            <4> SUFFICES ASSUME Intact, ~Refused PROVE rem.fin = "fin" /\ Len(app.got) = rem.sent
                OBVIOUS
            <4>1. CASE px.route = "direct"
                BY <1>0, <2>6, <4>1 DEF EndDown, DownFlow
            <4>2. CASE px.route = "tunnel"
                <5>1. PICK d \in Nat : InFlightDown(d)
                    BY <2>2, <4>2 DEF DownFlow
                <5>2. Chunks(st.down, d, Len(app.got), DownEnds) /\ Len(app.got) + d = sv.read
                    BY <5>1 DEF InFlightDown
                <5>3. CASE st.down = <<>> /\ st.sfin
                    <6>1. sv.down = "done"
                        BY <1>0, <5>3 DEF Stages, Refused, Intact
                    <6>2. AllDown /\ d = 0
                        BY <2>2, <5>2, <5>3, <6>1 DEF DownFlow, Chunks
                    <6> QED
                        BY <1>0, <5>2, <6>2 DEF AllDown
                <5>4. CASE st.down # <<>> /\ Head(st.down) \in {HalfClose, ErrorFrame}
                    <6>1. d = 0
                        <7>1. d > 0 => Head(st.down) = Len(app.got) + 1
                            BY <1>0, <5>2, <5>4, ChunkTaken
                        <7> QED
                            BY <1>0, <5>4, <7>1 DEF HalfClose, ErrorFrame
                    <6>2. d < Len(st.down)
                        BY <1>0, <5>2, <5>4, <6>1, ChunkTaken
                    <6>3. AllDown
                        BY <5>1, <6>2 DEF InFlightDown, Refused
                    <6> QED
                        BY <1>0, <5>2, <6>1, <6>3 DEF AllDown
                <5> QED
                    BY <2>6, <4>2, <5>3, <5>4 DEF EndDown, Intact
            <4> QED
                BY <2>6, <4>1, <4>2 DEF EndDown
        <3> QED
            BY <2>2, <2>3, <3>1, <3>2, <3>3 DEF DownFlow, Refused
    <2> QED
        BY <1>0, <1>3, <2>4, <2>5, <2>6, TunnelEffect, DirectEffect DEF ChunkDown
<1>4. CASE IdleTimeout
    BY <1>0, <1>4, TimeoutFields, DownKept DEF TimeoutEffect, Intact, AllDown, Refused
<1>5. CASE Finish
    <2>1. FinishEffect
        BY <1>0, <1>5, FinishFields
    <2>2. /\ UNCHANGED <<sv, alive, late>> /\ px'.route = px.route /\ px'.down = px.down
          /\ st'.down = st.down /\ (st.cfin => st'.cfin)
          /\ app'.got = app.got /\ app'.fin = app.fin /\ rem'.sent = rem.sent /\ rem'.fin = rem.fin
          /\ (app'.sees = "eof" => app.sees = "eof")
        BY <2>1 DEF FinishEffect
    <2>3. Intact' = Intact /\ AllDown' = AllDown /\ Refused' = Refused
        BY <2>2 DEF Intact, AllDown, Refused
    <2> QED
        BY <1>0, <2>2, <2>3, DownKept
<1>6. CASE Server
    <2>1. ServerEffect
        BY <1>0, <1>6, ServerFields
    <2>2. /\ UNCHANGED <<app, px, alive, late>> /\ sv'.read = sv.read /\ st'.cfin = st.cfin
          /\ rem'.sent = rem.sent /\ rem'.fin = rem.fin
        BY <2>1 DEF ServerEffect
    <2>3. Intact' = Intact /\ AllDown' = AllDown
        BY <2>2 DEF Intact, AllDown
    <2>4. /\ sv.pc \notin {"rejected", "failed", "end"}
          /\ sv'.down = "done" <=> sv.down = "done"
        BY <1>0, <2>1 DEF ServerEffect, ServerMove, Stages
    <2>5. CASE st'.down = st.down
        BY <1>0, <2>2, <2>3, <2>4, <2>5, DownKept DEF Refused
    <2>6. ASSUME NEW m \in {HalfClose, ErrorFrame}, st'.down = Append(st.down, m),
                 sv'.pc \in {"rejected", "failed"}
          PROVE  DownFlow'
        <3>1. ASSUME NEW d \in Nat, InFlightDown(d) PROVE InFlightDown(d)'
            <4>1. Chunks(st.down, d, Len(app.got), DownEnds) /\ Len(app.got) + d = sv.read
                BY <3>1 DEF InFlightDown
            <4>2. m \in Int
                BY DEF HalfClose, ErrorFrame
            <4>4. m \in DownEnds
                BY DEF DownEnds
            <4>3. Chunks(st'.down, d, Len(app.got), DownEnds)
                BY <1>0, <2>6, <4>1, <4>2, <4>4, EndAppended
            <4> QED
                BY <2>2, <2>6, <4>1, <4>3 DEF InFlightDown
        <3>2. (px'.route = "tunnel" /\ px'.down # "done") => \E d \in Nat : InFlightDown(d)'
            BY <2>2, <3>1 DEF DownFlow
        <3> QED
            BY <2>2, <2>3, <2>4, <2>6, <3>2 DEF DownFlow
    <2> QED
        BY <2>1, <2>5, <2>6 DEF ServerEffect, ServerMove
<1>7. CASE MuxToRemote
    <2>1. ServerUploadOnly
        BY <1>0, <1>7, MuxToRemoteEffect
    <2> QED
        BY <1>0, <2>1, DownKept DEF ServerUploadOnly, Intact, AllDown, Refused, Around
<1>8. CASE RemoteToMux
    <2>1. ServerDownloadOnly /\ PassDown
        BY <1>0, <1>8, RemoteToMuxEffect
    <2>2. /\ UNCHANGED <<app, rem, px, alive, late>> /\ sv.down = "copy" /\ sv.pc = "run"
          /\ sv'.pc = sv.pc /\ st'.cfin = st.cfin /\ Intact' = Intact /\ px.route = "tunnel"
        BY <1>0, <2>1 DEF ServerDownloadOnly, Around, Intact, Routes
    <2>3. (app.sees = "eof" /\ Intact) => rem.fin = "fin" /\ Len(app.got) = rem.sent /\ px.down = "done"
        BY <2>2 DEF DownFlow
    <2>4. ASSUME NEW d \in Nat, InFlightDown(d)
          PROVE  /\ d = Len(st.down) /\ Chunks(st.down, d, Len(app.got), DownEnds)
                 /\ Len(app.got) + d = sv.read
        <3>1. /\ Chunks(st.down, d, Len(app.got), DownEnds) /\ Len(app.got) + d = sv.read
              /\ ~(d < Len(st.down))
            BY <2>2, <2>4 DEF InFlightDown
        <3>2. d \in 0..Len(st.down) /\ Len(st.down) \in Nat
            BY <1>0, <3>1 DEF Chunks
        <3>3. d = Len(st.down)
            BY <3>1, <3>2
        <3> QED
            BY <3>1, <3>3
    <2>5. CASE /\ rem.sent > sv.read /\ sv'.down = "copy" /\ sv'.read = sv.read + 1
               /\ st'.down = Append(st.down, sv.read + 1)
        <3>1. ASSUME NEW d \in Nat, InFlightDown(d) PROVE InFlightDown(d + 1)'
            <4>1. /\ d = Len(st.down) /\ Chunks(st.down, d, Len(app.got), DownEnds)
                  /\ Len(app.got) + d = sv.read /\ Len(st.down) \in Nat
                BY <1>0, <2>4, <3>1
            <4>2. sv.read + 1 = Len(app.got) + Len(st.down) + 1
                BY <4>1
            <4>5. Len(st'.down) = Len(st.down) + 1
                BY <1>0, <2>5
            <4>3. Chunks(st'.down, d + 1, Len(app.got), DownEnds)
                BY <1>0, <2>5, <4>1, <4>2, ChunkAppended
            <4>7. Len(app.got) \in Nat /\ sv.read \in Nat
                BY <1>0, RelayFields
            <4>6. Len(app.got) + (d + 1) = sv.read + 1
                <5> DEFINE a == Len(app.got)
                           c == sv.read
                <5>1. a \in Int /\ d \in Int /\ c \in Int
                    BY <4>1, <4>7
                <5>2. a + d = c
                    BY <4>1
                <5> HIDE DEF a, c
                <5>3. a + (d + 1) = c + 1
                    BY <5>1, <5>2
                <5> QED
                    BY <5>3 DEF a, c
            <4>8. ~(d + 1 < Len(st'.down))
                BY <4>1, <4>5
            <4>4. Len(app.got) + (d + 1) = sv'.read /\ ~(d + 1 < Len(st'.down))
                BY <2>5, <4>6, <4>8
            <4> QED
                BY <2>2, <4>3, <4>4 DEF InFlightDown
        <3>2. px.down # "done" => \E d \in Nat : InFlightDown(d)'
            BY <2>2, <3>1 DEF DownFlow
        <3> QED
            BY <2>2, <2>3, <2>5, <3>2 DEF DownFlow
    <2>6. CASE st.cfin /\ sv'.down = "done" /\ sv'.read = sv.read /\ st'.down = st.down
        <3>1. ASSUME NEW d \in Nat, InFlightDown(d) PROVE InFlightDown(d)'
            <4>1. ~(d < Len(st.down))
                BY <1>0, <2>4, <3>1
            <4> QED
                BY <2>2, <2>6, <3>1, <4>1 DEF InFlightDown
        <3>2. px.down # "done" => \E d \in Nat : InFlightDown(d)'
            BY <2>2, <3>1 DEF DownFlow
        <3> QED
            BY <2>2, <2>3, <2>6, <3>2 DEF DownFlow
    <2>7. CASE /\ sv'.down = "done" /\ sv'.read = sv.read /\ st'.down = Append(st.down, HalfClose)
               /\ Intact => rem.fin = "fin" /\ rem.sent <= sv.read
        <3>1. Intact => AllDown'
            BY <1>0, <2>2, <2>7 DEF AllDown
        <3>2. ASSUME NEW d \in Nat, InFlightDown(d) PROVE InFlightDown(d)'
            <4>1. Chunks(st.down, d, Len(app.got), DownEnds) /\ Len(app.got) + d = sv.read
                BY <2>4, <3>2
            <4>2. HalfClose \in DownEnds /\ HalfClose \in Int
                BY DEF HalfClose, DownEnds
            <4>3. Chunks(st'.down, d, Len(app.got), DownEnds)
                BY <1>0, <2>7, <4>1, <4>2, EndAppended
            <4> QED
                BY <2>2, <2>7, <3>1, <4>1, <4>3 DEF InFlightDown
        <3>3. px.down # "done" => \E d \in Nat : InFlightDown(d)'
            BY <2>2, <3>2 DEF DownFlow
        <3> QED
            BY <2>2, <2>3, <2>7, <3>1, <3>3 DEF DownFlow
    <2> QED
        BY <2>1, <2>5, <2>6, <2>7 DEF PassDown
<1>9. CASE Endpoints
    <2>1. CASE AppEffect
        BY <1>0, <2>1, DownKept DEF AppEffect, Reached, Intact, AllDown, Refused
    <2>2. CASE RemEffect
        <3>1. /\ UNCHANGED <<app, px, st, sv, alive, late>> /\ rem.fin = "open"
              /\ rem'.sent \in Nat /\ rem'.sent >= rem.sent
            BY <1>0, <2>2 DEF RemEffect, Reached
        <3>2. (Intact' => Intact) /\ ~AllDown
            BY <1>0, <3>1 DEF Intact, AllDown
        <3> QED
            BY <1>0, <3>1, <3>2, DownKept DEF Refused
    <2> QED
        BY <1>0, <1>9, <2>1, <2>2, EndpointFields
<1>10. CASE SessionDies
    <2>1. SessionEffect
        BY <1>0, <1>10, SessionFields
    <2>2. ~Intact'
        BY <2>1 DEF SessionEffect, Intact
    <2>3. sv.pc \in {"rejected", "failed", "end"} => sv'.pc \in {"rejected", "failed", "end"}
        BY <2>1 DEF SessionEffect
    <2> QED
        BY <1>0, <2>1, <2>2, <2>3, DownKept DEF SessionEffect, AllDown
<1>11. CASE OtherConnections
    BY <1>0, <1>11, DownKept DEF OtherConnections, Intact, AllDown, Refused
<1>12. CASE UNCHANGED vars
    BY <1>0, <1>12, DownKept DEF vars, Intact, AllDown, Refused
<1> QED
    BY <1>1, <1>2, <1>3, <1>4, <1>5, <1>6, <1>7, <1>8, <1>9, <1>10, <1>11, <1>12 DEF RelayNext, Proxy, Entering

(***************************************************************************)
(* The error of a failed dial.                                             *)
(***************************************************************************)
\* A step that leaves alone what the error's way depends on.
LEMMA ErrorKeptSame ==
    ASSUME ErrorKept, px' = px, UNCHANGED <<app, record>>, st'.down = st.down, sv'.pc = sv.pc,
           alive' => alive, late' = late
    PROVE  ErrorKept'
    BY DEF ErrorKept

\* The error stays under way until the download copier has recorded it.
LEMMA ErrorStep ==
    ASSUME StageInv, ErrorKept, [RelayNext]_vars, RelayAssumption
    PROVE  ErrorKept'
<1>0. /\ RelayTypes /\ Untouched /\ Routes /\ Stages
      /\ st.down \in Seq(Int) /\ app.fin \in {"open", "fin", "rst"}
    BY RelayFields DEF StageInv, RelayTypes, Sockets
<1>1. CASE Entering
    <2>1. EntryData /\ EntryBooks
        BY <1>0, <1>1, EntryEffect
    <2>2. sv.pc = "none" /\ st'.down = <<>>
        BY <1>0, <2>1 DEF EntryData, Routes, Before
    <2>3. sv' = sv \/ (sv'.pc = "queued" /\ px'.pc = "run")
        BY <2>1 DEF EntryBooks, EntryMove
    <2>4. px'.pc = "run" => px'.down = "copy"
        BY <2>1 DEF EntryData
    <2> QED
        BY <2>2, <2>3, <2>4 DEF ErrorKept
<1>2. CASE Upload
    <2>1. UploadOnly /\ (ChunkUp \/ EndUp)
        BY <1>0, <1>2, UploadEffect
    <2>2. /\ px'.pc = px.pc /\ px'.down = px.down /\ px'.derr = px.derr
          /\ UNCHANGED <<app, sv, record, alive, late>> /\ st'.down = st.down
        BY <2>1 DEF UploadOnly, ChunkUp, EndUp, Around
    <2> QED
        BY <2>2 DEF ErrorKept
<1>3. CASE DownloadTunnel \/ DownloadDirect
    <2>1. DownloadOnly /\ (ChunkDown \/ EndDown)
        BY <1>0, <1>3, TunnelEffect, DirectEffect
    <2>2. px.pc = "run" /\ px.down = "copy" /\ px'.pc = "run" /\ UNCHANGED <<sv, alive, late, record>>
        BY <2>1 DEF DownloadOnly, Around
    <2>3. CASE px.route # "tunnel"
        BY <1>0, <2>2, <2>3 DEF ErrorKept, Routes
    <2>4. CASE px.route = "tunnel" /\ sv.pc \in {"queued", "header", "dial"} /\ alive /\ ~late
        <3>1. st.down = <<>> /\ ~st.sfin
            BY <1>0, <2>4 DEF ErrorKept, Stages
        <3> QED
            BY <2>1, <2>4, <3>1 DEF ChunkDown, EndDown
    <2>5. CASE px.route = "tunnel" /\ sv.pc = "failed" /\ alive /\ ~late /\ app.fin # "rst"
        <3>1. st.down = <<ErrorFrame>>
            BY <2>2, <2>5 DEF ErrorKept
        <3>2. Head(st.down) = ErrorFrame /\ ErrorFrame # HalfClose /\ st.down # <<>>
            BY <3>1 DEF ErrorFrame, HalfClose
        <3>3. px'.down = "done" /\ px'.derr
            BY <2>1, <2>5, <3>2 DEF ChunkDown, EndDown
        <3> QED
            BY <2>2, <2>5, <3>3 DEF ErrorKept
    <2>6. app'.fin = app.fin
        BY <2>1 DEF ChunkDown, EndDown
    <2> QED
        BY <2>2, <2>3, <2>4, <2>5, <2>6 DEF ErrorKept
<1>4. CASE IdleTimeout
    BY <1>0, <1>4, TimeoutFields DEF TimeoutEffect, ErrorKept
<1>5. CASE Finish
    <2>1. FinishEffect
        BY <1>0, <1>5, FinishFields
    <2> QED
        BY <2>1 DEF FinishEffect, ErrorKept
<1>6. CASE Server
    <2>1. ServerEffect
        BY <1>0, <1>6, ServerFields
    <2>2. CASE ServerMove("dial", "failed") /\ st'.down = Append(st.down, ErrorFrame)
        <3>1. sv.pc = "dial" /\ sv'.pc = "failed" /\ UNCHANGED <<px, app, alive, late>> /\ alive
            BY <2>1, <2>2 DEF ServerEffect, ServerMove
        <3>2. ~late => px.pc = "run" /\ px.down = "copy" /\ st'.down = <<ErrorFrame>>
            <4>1. Append(<<>>, ErrorFrame) = <<ErrorFrame>>
                BY DEF ErrorFrame
            <4> QED
                BY <2>2, <3>1, <4>1 DEF ErrorKept
        <3> QED
            BY <3>1, <3>2 DEF ErrorKept
    <2>3. ASSUME NEW p, NEW q, ServerMove(p, q), p \in {"queued", "header", "dial"},
                 q \in {"header", "dial"}, st' = st
          PROVE  ErrorKept'
        BY <2>1, <2>3 DEF ServerEffect, ServerMove, ErrorKept
    <2>4. ASSUME sv'.pc \in {"rejected", "run", "end"} PROVE ErrorKept'
        BY <2>4 DEF ErrorKept
    <2> QED
        BY <2>1, <2>2, <2>3, <2>4 DEF ServerEffect, ServerMove
<1>7. CASE MuxToRemote
    BY <1>0, <1>7, MuxToRemoteEffect, ErrorKeptSame DEF ServerUploadOnly, ErrorKept
<1>8. CASE RemoteToMux
    BY <1>0, <1>8, RemoteToMuxEffect, ErrorKeptSame DEF ServerDownloadOnly, ErrorKept
<1>9. CASE Endpoints
    <2>1. AppEffect \/ RemEffect
        BY <1>0, <1>9, EndpointFields
    <2>2. UNCHANGED <<px, st, sv, alive, record, late>>
        BY <2>1 DEF AppEffect, RemEffect, Reached
    <2>3. app.fin = "rst" => app'.fin = "rst"
        BY <2>1 DEF AppEffect, RemEffect
    <2> QED
        BY <2>2, <2>3 DEF ErrorKept
<1>10. CASE SessionDies
    BY <1>0, <1>10, SessionFields DEF SessionEffect, ErrorKept
<1>11. CASE OtherConnections
    BY <1>11, ErrorKeptSame DEF OtherConnections
<1>12. CASE UNCHANGED vars
    BY <1>12, ErrorKeptSame DEF vars
<1> QED
    BY <1>1, <1>2, <1>3, <1>4, <1>5, <1>6, <1>7, <1>8, <1>9, <1>10, <1>11, <1>12 DEF RelayNext, Proxy, Entering

(***************************************************************************)
(* The invariant of a connection, and what follows from it.                *)
(***************************************************************************)
RelayInv == StageInv /\ UpFlow /\ DownFlow /\ ErrorKept

\* Nothing is connected at the start.
LEMMA RelayInit ==
    ASSUME Init, RelayAssumption
    PROVE  RelayInv
<1>1. /\ app = End /\ rem = End /\ sv.pc = "none" /\ sv.up = "none" /\ sv.down = "none" /\ sv.read = 0
      /\ px.pc = "idle" /\ px.route = "none" /\ px.pre = <<>> /\ px.read = 0
      /\ px.up = "none" /\ px.down = "none" /\ ~px.expired
      /\ st = [up |-> <<>>, down |-> <<>>, cfin |-> FALSE, sfin |-> FALSE]
      /\ alive /\ ~late /\ sem = 0 /\ direct = 0 /\ active = 0 /\ load = 0 /\ record.st = "none"
    BY DEF Init
<1>2. <<>> \in Seq(Int) /\ Len(<<>>) = 0
    OBVIOUS
<1>3. RelayTypes
    <2>1. End \in Sockets
        BY <1>2 DEF End, Sockets
    <2>2. px \in Proxies
        BY <1>2 DEF Init, Proxies
    <2>3. st \in Streams
        BY <1>2 DEF Init, Streams
    <2>4. sv \in Servers /\ record \in Records
        BY DEF Init, Servers, Records
    <2>5. app \in Sockets /\ rem \in Sockets
        BY <2>1 DEF Init
    <2>6. alive \in BOOLEAN /\ late \in BOOLEAN
        BY DEF Init
    <2>7. sem \in Int /\ direct \in Int /\ active \in Int /\ load \in Nat
        BY DEF Init
    <2> QED
        BY <2>2, <2>3, <2>4, <2>5, <2>6, <2>7 DEF RelayTypes
<1>4. Untouched /\ Routes /\ Stages
    BY <1>1, <1>2 DEF Untouched, Routes, Stages, End
<1>5. Bounds /\ Accounted
    BY <1>1, RelayAssumption DEF Bounds, Accounted, Mine, MyDirect, End
<1>6. UpFlow /\ DownFlow
    <2>1. /\ rem.got = <<>> /\ app.got = <<>> /\ rem.sent = 0
          /\ rem.sees = "open" /\ app.sees = "open"
        BY <1>1 DEF End
    <2>2. Numbered(rem.got) /\ Numbered(app.got)
        BY <2>1 DEF Numbered
    <2>3. px.read = 0 /\ Len(px.pre) = 0
        BY <1>1, <1>2
    <2>4. Consumed = 0
        BY <2>3 DEF Consumed
    <2>5. Len(rem.got) = 0 /\ Len(app.got) = 0
        BY <1>2, <2>1
    <2> QED
        BY <1>1, <2>1, <2>2, <2>4, <2>5 DEF UpFlow, DownFlow
<1>7. ErrorKept
    BY <1>1 DEF ErrorKept
<1> QED
    BY <1>3, <1>4, <1>5, <1>6, <1>7 DEF RelayInv, StageInv

\* Every step preserves the invariant of a connection.
LEMMA RelayStep ==
    ASSUME RelayInv, [RelayNext]_vars, RelayAssumption
    PROVE  RelayInv'
<1>1. StageInv'
    BY StageStep DEF RelayInv
<1>2. UpFlow'
    BY <1>1, UpStep DEF RelayInv
<1>3. DownFlow'
    BY <1>1, DownStep DEF RelayInv
<1>4. ErrorKept'
    BY ErrorStep DEF RelayInv
<1> QED
    BY <1>1, <1>2, <1>3, <1>4 DEF RelayInv

\* The invariant of a connection.
LEMMA RelayInvariant == Spec => []RelayInv
<1>1. Init => RelayInv
    BY RelayInit, RelayAssumption
<1>2. RelayInv /\ [RelayNext]_vars => RelayInv'
    BY RelayStep, RelayAssumption
<1> QED
    BY <1>1, <1>2, PTL DEF Spec

\* The variables of a connection have their types, and the slots of the server
\* and the direct dials to one destination stay within their limits
\* (maxStreamConcurrency, maxConcurrentDirectDials), for every limit.
THEOREM TypesHold == Spec => []TypeOK
<1>1. RelayInv => TypeOK
    <2>1. ASSUME RelayInv PROVE TypeOK
        <3>1. RelayTypes /\ Bounds /\ Accounted
            BY <2>1 DEF RelayInv, StageInv
        <3>2. Mine >= 0 /\ MyDirect >= 0 /\ Mine \in Int /\ MyDirect \in Int
            BY DEF Mine, MyDirect
        <3>3. sem \in 0..Slots /\ direct \in 0..DirectLimit
            BY <3>1, <3>2, RelayAssumption DEF RelayTypes, Bounds, Accounted
        <3>4. app.sent \in 0..MaxUp /\ rem.sent \in 0..MaxDown
            BY <3>1, RelayAssumption DEF RelayTypes, Bounds, Sockets
        <3> QED
            BY <3>1, <3>3, <3>4 DEF TypeOK, RelayTypes, Accounted, Sockets, Records
    <2> QED
        BY <2>1
<1> QED
    BY <1>1, RelayInvariant, PTL

\* Every return of handleConn, forwardTCP and handleTCP gives back what it took:
\* the slots, the direct dials and the active count are those of connections
\* that run, and a connection is recorded as open exactly while it runs,
\* whichever side fails, resets, times out or loses the session when.
THEOREM BooksBalance == Spec => []Accounted
<1>1. RelayInv => Accounted
    BY DEF RelayInv, StageInv
<1> QED
    BY <1>1, RelayInvariant, PTL

\* What each side receives is what the other has sent, in order, without gaps or
\* repetitions, peeked data included, for any number of chunks.
THEOREM DataInOrder == Spec => []InOrder
<1>1. RelayInv => InOrder
    BY DEF RelayInv, UpFlow, DownFlow, InOrder
<1> QED
    BY <1>1, RelayInvariant, PTL

\* A clean end of file is told the truth by the copiers and the half-closes they
\* pass on: each side sees one only after all data of the other, unless the
\* connection was reset, timed out or refused or the session died.
THEOREM EndsAreTrue == Spec => []EofComplete
<1>1. RelayInv => EofComplete
    BY DEF RelayInv, UpFlow, DownFlow, Intact, EofComplete
<1> QED
    BY <1>1, RelayInvariant, PTL

\* The reason of a failed dial on the server, which handleTCP sends as an error
\* message before it closes the stream, is in the record of the connection when
\* it is closed, if the session, the deadline and the application hold out.
THEOREM ErrorsAreReported == Spec => []DialErrorReported
<1>1. RelayInv => DialErrorReported
    <2>1. ASSUME RelayInv, sv.pc = "failed", record.st = "closed" PROVE px.pc = "end"
        <3>1. px.pc # "run" /\ px.route = "tunnel"
            BY <2>1 DEF RelayInv, StageInv, Accounted, Routes
        <3> QED
            BY <2>1, <3>1 DEF RelayInv, StageInv, RelayTypes, Proxies, Routes
    <2> QED
        BY <2>1 DEF RelayInv, ErrorKept, DialErrorReported
<1> QED
    BY <1>1, RelayInvariant, PTL

(***************************************************************************)
(* Datagrams.  The strengthening of FlowsReachable: the loop installs a    *)
(* flow only under a key that has none.                                    *)
(***************************************************************************)
ChanRecords == [st : {"none", "open", "closed"}, key : Keys \cup {None},
                sv : {"none", "run", "end"}, recv : {"none", "run", "delete", "done"},
                rec : {"none", "open", "closed"}]

FlowIds == 0..MaxChans

DTypes ==
    /\ chan \in [Chans -> ChanRecords] /\ flows \in [Keys -> FlowIds]
    /\ loop \in [pc : {"recv", "open", "install", "send", "resolve", "channel", "direct"},
                 key : Keys \cup {None}, ch : FlowIds]
    /\ assoc \in [open : BOOLEAN, ch : FlowIds, direct : {"none", "open", "closed"}, peer : BOOLEAN]

LoopInv ==
    /\ loop.pc \in {"open", "install"} => mode = "tproxy" /\ loop.key \in Keys /\ flows[loop.key] = 0
    /\ loop.pc = "install" => loop.ch \in Chans /\ chan[loop.ch].key = loop.key
    /\ loop.pc \in {"resolve", "channel", "direct"} => mode = "socks5"
    /\ assoc.open => mode = "socks5"
    /\ mode = "tproxy" => \A c \in Chans : chan[c].recv # "none" => chan[c].key \in Keys

\* The strengthening of AssociationClosed: an open channel is the one of the
\* association, or the server has ended it.
AssocInv ==
    mode = "socks5" =>
        /\ \A c \in Chans : chan[c].st = "open" => (c = assoc.ch /\ assoc.open) \/ c \in cut
        /\ \A c \in Chans : chan[c].st = "open" /\ chan[c].sv = "end" => c \in cut
        /\ ~assoc.open => assoc.direct # "open"

DInv == DTypes /\ LoopInv /\ FlowsReachable /\ AssocInv

\* A channel is opened: r becomes its record.
Opens(n, r) ==
    /\ n \in Chans /\ r \in ChanRecords /\ chan' \in [Chans -> ChanRecords]
    /\ chan'[n] = r /\ r.st = "open" /\ r.sv = "run"
    /\ \A c \in Chans : c # n => chan'[c] = chan[c]

\* The record of a channel that is opened.
LEMMA OpenRecord ==
    ASSUME NEW k \in Keys \cup {None}
    PROVE  /\ LET r == [OpenUDP(k) EXCEPT !.rec = "open"]
              IN  r \in ChanRecords /\ r.st = "open" /\ r.sv = "run" /\ r.key = k /\ r.recv = "none"
           /\ LET r == [OpenUDP(k) EXCEPT !.recv = "run"]
              IN  r \in ChanRecords /\ r.st = "open" /\ r.sv = "run" /\ r.key = k
<1>1. NoChan \in ChanRecords /\ NoChan.recv = "none"
    BY DEF NoChan, ChanRecords
<1>2. /\ OpenUDP(k) \in ChanRecords /\ OpenUDP(k).st = "open" /\ OpenUDP(k).sv = "run"
      /\ OpenUDP(k).key = k /\ OpenUDP(k).recv = "none"
    BY <1>1 DEF OpenUDP, ChanRecords
<1> QED
    BY <1>2 DEF ChanRecords

\* OpenUDP for a flow fails or takes a new channel.
LEMMA OpenFlowEffect ==
    ASSUME DTypes, OpenFlow, DatagramsAssumption
    PROVE  \/ loop' = Idle /\ chan' = chan
           \/ \E n \in Chans, r \in ChanRecords :
                /\ Opens(n, r) /\ r.key = loop.key /\ r.recv = "none"
                /\ loop' = [loop EXCEPT !.pc = "install", !.ch = n]
<1>1. CASE loop' = Idle /\ UNCHANGED <<chan, channels>>
    BY <1>1
<1>2. CASE NextChan \in Chans /\ loop' = [loop EXCEPT !.pc = "install", !.ch = NextChan]
           /\ chan' = [chan EXCEPT ![NextChan] = [OpenUDP(loop.key) EXCEPT !.rec = "open"]]
    <2> DEFINE n == NextChan
               r == [OpenUDP(loop.key) EXCEPT !.rec = "open"]
    <2>1. loop.key \in Keys \cup {None}
        BY DEF DTypes
    <2>2. n \in Chans /\ r \in ChanRecords /\ r.st = "open" /\ r.sv = "run" /\ r.key = loop.key /\ r.recv = "none"
        BY <1>2, <2>1, OpenRecord
    <2>3. chan' = [chan EXCEPT ![n] = r] /\ loop' = [loop EXCEPT !.pc = "install", !.ch = n]
        BY <1>2
    <2> HIDE DEF n, r
    <2> QED
        BY <2>2, <2>3 DEF Opens, DTypes
<1> QED
    BY <1>1, <1>2 DEF OpenFlow

\* tunnelChannel fails, finds the association's channel or opens it.
LEMMA TunnelChannelEffect ==
    ASSUME DTypes, TunnelChannel, DatagramsAssumption
    PROVE  \/ /\ chan' = chan /\ assoc' = assoc
              /\ loop' = Idle \/ loop' = [loop EXCEPT !.pc = "send", !.ch = assoc.ch]
           \/ \E n \in Chans, r \in ChanRecords :
                /\ Opens(n, r) /\ assoc.open /\ assoc.ch = 0 /\ assoc' = [assoc EXCEPT !.ch = n]
                /\ loop' = [loop EXCEPT !.pc = "send", !.ch = n]
<1>1. CASE /\ UNCHANGED <<chan, assoc, channels>>
           /\ loop' = Idle \/ loop' = [loop EXCEPT !.pc = "send", !.ch = assoc.ch]
    BY <1>1
<1>2. CASE /\ NextChan \in Chans /\ loop' = [loop EXCEPT !.pc = "send", !.ch = NextChan]
           /\ chan' = [chan EXCEPT ![NextChan] = [OpenUDP(None) EXCEPT !.recv = "run"]]
           /\ assoc' = [assoc EXCEPT !.ch = NextChan] /\ assoc.open /\ assoc.ch = 0
    <2> DEFINE n == NextChan
               r == [OpenUDP(None) EXCEPT !.recv = "run"]
    <2>1. n \in Chans /\ r \in ChanRecords /\ r.st = "open" /\ r.sv = "run"
        BY <1>2, OpenRecord
    <2>2. /\ chan' = [chan EXCEPT ![n] = r] /\ loop' = [loop EXCEPT !.pc = "send", !.ch = n]
          /\ assoc' = [assoc EXCEPT !.ch = n]
        BY <1>2
    <2>3. assoc.open /\ assoc.ch = 0
        BY <1>2
    <2> HIDE DEF n, r
    <2> QED
        BY <2>1, <2>2, <2>3 DEF Opens, DTypes
<1> QED
    BY <1>1, <1>2 DEF TunnelChannel, MayOpen

\* What becomes of a channel's record.
LEMMA RecordUpdates ==
    ASSUME NEW r \in ChanRecords
    PROVE  /\ [r EXCEPT !.st = "closed"] \in ChanRecords
           /\ [r EXCEPT !.recv = "run"] \in ChanRecords
           /\ [r EXCEPT !.st = "closed", !.rec = "closed"] \in ChanRecords
           /\ [r EXCEPT !.st = "closed", !.rec = "closed", !.recv = "delete"] \in ChanRecords
    BY DEF ChanRecords

\* Old flows are closed and their keys are free; nothing else changes.
CleanedUp ==
    /\ UNCHANGED <<mode, loop, assoc, robbed, cut>>
    /\ \A c \in Chans : /\ chan'[c].key = chan[c].key /\ chan'[c].recv = chan[c].recv
                        /\ chan'[c].sv = chan[c].sv
                        /\ chan'[c].st = "open" => chan[c].st = "open"
    /\ \A k \in Keys : flows[k] = 0 => flows'[k] = 0
    /\ \A k \in Keys, c \in Chans :
         (flows[k] = c /\ chan'[c].st = "open") => flows'[k] = c

\* A tick of the cleanup.
LEMMA CleanupEffect ==
    ASSUME DTypes, CleanupTick
    PROVE  CleanedUp
<1>1. PICK old : Cleanup(old)
    BY DEF CleanupTick
<1>2. ASSUME NEW c \in Chans
      PROVE  /\ chan'[c].key = chan[c].key /\ chan'[c].recv = chan[c].recv /\ chan'[c].sv = chan[c].sv
             /\ chan'[c].st = "open" => chan[c].st = "open" /\ c \notin old
    <2>1. chan[c] \in ChanRecords
        BY DEF DTypes
    <2>2. CASE c \in old
        <3>1. chan'[c] = [chan[c] EXCEPT !.st = "closed", !.rec = "closed"]
            BY <1>1, <2>2 DEF Cleanup
        <3> QED
            BY <2>1, <3>1 DEF ChanRecords
    <2>3. CASE c \notin old
        BY <1>1, <2>3 DEF Cleanup
    <2> QED
        BY <2>2, <2>3
<1>3. \A k \in Keys : flows'[k] = IF flows[k] \in old THEN 0 ELSE flows[k]
    BY <1>1 DEF Cleanup
<1>4. UNCHANGED <<mode, loop, assoc, robbed, cut>>
    BY DEF CleanupTick
<1> QED
    BY <1>2, <1>3, <1>4 DEF CleanedUp

\* The variables keep their types.
LEMMA DTypesStep ==
    ASSUME DTypes, LoopInv, [DNext]_dvars, DatagramsAssumption
    PROVE  DTypes'
<1> USE DEF DTypes, ChanRecords, OpenUDP, NoChan, Closed, Idle
<1>1. Chans \subseteq FlowIds /\ 0 \in FlowIds
    BY DatagramsAssumption DEF Chans, FlowIds
<1>2. ASSUME NEW k \in Keys, Recvmsg(k) PROVE DTypes'
    BY <1>2 DEF Recvmsg
<1>3. CASE OpenFlow
    <2>1. UNCHANGED <<flows, assoc>>
        BY <1>3 DEF OpenFlow
    <2>2. CASE loop' = Idle /\ chan' = chan
        BY <1>1, <2>1, <2>2
    <2>3. ASSUME NEW n \in Chans, NEW r, Opens(n, r), loop' = [loop EXCEPT !.pc = "install", !.ch = n]
          PROVE  DTypes'
        BY <1>1, <2>1, <2>3 DEF Opens
    <2> QED
        BY <1>3, <2>2, <2>3, OpenFlowEffect, DatagramsAssumption
<1>4. CASE InstallFlow
    <2>1. flows' \in [Keys -> FlowIds]
        BY <1>4 DEF InstallFlow
    <2>2. chan' \in [Chans -> ChanRecords]
        <3>1. loop.ch \in Chans /\ chan' = [chan EXCEPT ![loop.ch] = [chan[loop.ch] EXCEPT !.recv = "run"]]
            BY <1>4 DEF InstallFlow, LoopInv
        <3> HIDE DEF ChanRecords
        <3> QED
            BY <3>1, RecordUpdates
    <2>3. UNCHANGED assoc /\ loop' = [loop EXCEPT !.pc = "send"]
        BY <1>4 DEF InstallFlow
    <2> QED
        BY <2>1, <2>2, <2>3
<1>5. CASE SendTo
    BY <1>1, <1>5 DEF SendTo
<1>6. CASE CleanupTick
    <2>1. PICK old : Cleanup(old)
        BY <1>6 DEF CleanupTick
    <2>2. flows' \in [Keys -> FlowIds]
        BY <1>1, <2>1 DEF Cleanup
    <2>3. chan' \in [Chans -> ChanRecords]
        <3>1. \A c \in Chans : chan[c] \in ChanRecords
            OBVIOUS
        <3> HIDE DEF ChanRecords
        <3> QED
            BY <2>1, <3>1, RecordUpdates DEF Cleanup
    <2> QED
        BY <1>6, <2>2, <2>3 DEF CleanupTick
<1>7. ASSUME NEW c \in Chans, TimePasses(c) PROVE DTypes'
    BY <1>7 DEF TimePasses
<1>8. ASSUME NEW c \in Chans, ReceiverEnds(c) PROVE DTypes'
    <2>1. chan' = [chan EXCEPT ![c] = [chan[c] EXCEPT !.st = "closed", !.rec = "closed", !.recv = "delete"]]
        BY <1>8 DEF ReceiverEnds
    <2>2. chan[c] \in ChanRecords
        OBVIOUS
    <2>3. chan' \in [Chans -> ChanRecords]
        <3> HIDE DEF ChanRecords
        <3> QED
            BY <2>1, <2>2, RecordUpdates
    <2> QED
        BY <1>8, <2>3 DEF ReceiverEnds
<1>9. ASSUME NEW c \in Chans, DeleteFlow(c) PROVE DTypes'
    <2>1. flows' \in [Keys -> FlowIds]
        BY <1>1, <1>9 DEF DeleteFlow, Deleted
    <2>2. chan' \in [Chans -> ChanRecords]
        BY <1>9 DEF DeleteFlow
    <2> QED
        BY <1>9, <2>1, <2>2 DEF DeleteFlow
<1>10. ASSUME NEW c \in Chans, HandleUDP(c) PROVE DTypes'
    BY <1>10 DEF HandleUDP
<1>11. ASSUME NEW c \in Chans, ChannelEnds(c) PROVE DTypes'
    BY <1>1, <1>11 DEF ChannelEnds
<1>12. CASE ReadFromUDP
    BY <1>12 DEF ReadFromUDP
<1>13. CASE Resolve
    BY <1>13 DEF Resolve
<1>14. CASE TunnelChannel
    <2>1. UNCHANGED flows
        BY <1>14 DEF TunnelChannel
    <2>2. CASE UNCHANGED <<chan, assoc>> /\ loop' = Idle
        BY <1>1, <2>1, <2>2
    <2>4. CASE UNCHANGED <<chan, assoc>> /\ loop' = [loop EXCEPT !.pc = "send", !.ch = assoc.ch]
        BY <2>1, <2>4
    <2>3. ASSUME NEW n \in Chans, NEW r, Opens(n, r), assoc' = [assoc EXCEPT !.ch = n],
                 loop' = [loop EXCEPT !.pc = "send", !.ch = n]
          PROVE  DTypes'
        BY <1>1, <2>1, <2>3 DEF Opens
    <2> QED
        BY <1>14, <2>2, <2>3, <2>4, TunnelChannelEffect, DatagramsAssumption
<1>15. CASE DirectConn
    BY <1>1, <1>15 DEF DirectConn, MayOpen
<1>16. CASE CloseRelay
    <2>1. assoc' \in [open : BOOLEAN, ch : FlowIds, direct : {"none", "open", "closed"}, peer : BOOLEAN]
        BY <1>16 DEF CloseRelay
    <2>2. chan' \in [Chans -> ChanRecords]
        <3>1. CASE assoc.ch # 0
            <4>1. assoc.ch \in Chans /\ chan' = [chan EXCEPT ![assoc.ch].st = "closed"]
                BY <1>16, <3>1, DatagramsAssumption DEF CloseRelay, Chans, FlowIds
            <4> QED
                BY <4>1
        <3> QED
            BY <1>16, <3>1 DEF CloseRelay
    <2> QED
        BY <1>16, <2>1, <2>2 DEF CloseRelay
<1>17. ASSUME NEW q \in Queries, DNSStep(q) \/ \E kind \in {"A", "AAAA", "short"} : ReadQuery(q, kind)
       PROVE  DTypes'
    BY <1>17 DEF DNSStep, HandleDNS, DNSRequestFails, DNSAnswer, DNSFails, ReadQuery
<1>18. CASE UNCHANGED dvars
    BY <1>18 DEF dvars
<1> QED
    BY <1>2, <1>3, <1>4, <1>5, <1>6, <1>7, <1>8, <1>9, <1>10, <1>11, <1>12, <1>13, <1>14,
       <1>15, <1>16, <1>17, <1>18 DEF DNext, TProxyStep, SocksStep

\* The loop holds a key only while the table has no flow for it: nobody else
\* installs one.
LEMMA LoopStep ==
    ASSUME DTypes, LoopInv, [DNext]_dvars, DatagramsAssumption
    PROVE  LoopInv'
<1> USE DEF DTypes, ChanRecords, LoopInv, OpenUDP, NoChan, Closed, Idle
<1>1. Chans \subseteq Nat /\ 0 \notin Chans
    BY DatagramsAssumption DEF Chans
<1>2. ASSUME NEW k \in Keys, Recvmsg(k) PROVE LoopInv'
    BY <1>1, <1>2 DEF Recvmsg
<1>3. CASE OpenFlow
    <2>1. UNCHANGED <<mode, flows, assoc, robbed, cut>> /\ loop.pc = "open"
        BY <1>3 DEF OpenFlow
    <2>2. CASE loop' = Idle /\ chan' = chan
        BY <1>1, <2>1, <2>2
    <2>3. ASSUME NEW n \in Chans, NEW r \in ChanRecords, Opens(n, r), r.key = loop.key, r.recv = "none",
                 loop' = [loop EXCEPT !.pc = "install", !.ch = n]
          PROVE  LoopInv'
        BY <1>1, <2>1, <2>3 DEF Opens
    <2> QED
        BY <1>3, <2>2, <2>3, OpenFlowEffect
<1>4. CASE InstallFlow
    BY <1>1, <1>4 DEF InstallFlow
<1>5. CASE SendTo
    BY <1>1, <1>5 DEF SendTo
<1>6. CASE CleanupTick
    <2>1. CleanedUp
        BY <1>6, CleanupEffect
    <2> QED
        BY <2>1 DEF CleanedUp
<1>7. ASSUME NEW c \in Chans, TimePasses(c) PROVE LoopInv'
    BY <1>1, <1>7 DEF TimePasses
<1>8. ASSUME NEW c \in Chans, ReceiverEnds(c) PROVE LoopInv'
    BY <1>1, <1>8 DEF ReceiverEnds
<1>9. ASSUME NEW c \in Chans, DeleteFlow(c) PROVE LoopInv'
    BY <1>1, <1>9 DEF DeleteFlow, Deleted
<1>10. ASSUME NEW c \in Chans, HandleUDP(c) PROVE LoopInv'
    BY <1>1, <1>10 DEF HandleUDP
<1>11. ASSUME NEW c \in Chans, ChannelEnds(c) PROVE LoopInv'
    BY <1>1, <1>11 DEF ChannelEnds, Recv
<1>12. CASE ReadFromUDP
    BY <1>1, <1>12 DEF ReadFromUDP
<1>13. CASE Resolve
    BY <1>1, <1>13 DEF Resolve
<1>14. CASE TunnelChannel
    <2>1. UNCHANGED <<mode, flows, robbed, cut>> /\ loop.pc = "channel"
        BY <1>14 DEF TunnelChannel
    <2>2. CASE UNCHANGED <<chan, assoc>> /\ loop' = Idle
        BY <1>1, <2>1, <2>2
    <2>4. CASE UNCHANGED <<chan, assoc>> /\ loop' = [loop EXCEPT !.pc = "send", !.ch = assoc.ch]
        BY <2>1, <2>4
    <2>3. ASSUME NEW n \in Chans, NEW r \in ChanRecords, Opens(n, r), assoc.open, assoc.ch = 0,
                 assoc' = [assoc EXCEPT !.ch = n], loop' = [loop EXCEPT !.pc = "send", !.ch = n]
          PROVE  LoopInv'
        BY <1>1, <2>1, <2>3 DEF Opens
    <2> QED
        BY <1>14, <2>2, <2>3, <2>4, TunnelChannelEffect
<1>15. CASE DirectConn
    BY <1>1, <1>15 DEF DirectConn, MayOpen
<1>16. CASE CloseRelay
    BY <1>1, <1>16 DEF CloseRelay
<1>17. ASSUME NEW q \in Queries, DNSStep(q) \/ \E kind \in {"A", "AAAA", "short"} : ReadQuery(q, kind) PROVE LoopInv'
    BY <1>1, <1>17 DEF DNSStep, HandleDNS, DNSRequestFails, DNSAnswer, DNSFails, ReadQuery
<1>18. CASE UNCHANGED dvars
    BY <1>1, <1>18 DEF dvars
<1> QED
    BY <1>2, <1>3, <1>4, <1>5, <1>6, <1>7, <1>8, <1>9, <1>10, <1>11, <1>12, <1>13, <1>14,
       <1>15, <1>16, <1>17, <1>18 DEF DNext, TProxyStep, SocksStep

\* Table entries go only with the flow or to a receiver that robs another's.
LEMMA FlowsStep ==
    ASSUME DTypes, LoopInv, FlowsReachable, [DNext]_dvars, DatagramsAssumption
    PROVE  FlowsReachable'
<1> USE DEF DTypes, ChanRecords, LoopInv, FlowsReachable, OpenUDP, NoChan, Closed, Idle
<1>1. Chans \subseteq Nat /\ 0 \notin Chans
    BY DatagramsAssumption DEF Chans
<1>2. ASSUME NEW k \in Keys, Recvmsg(k) PROVE FlowsReachable'
    BY <1>1, <1>2 DEF Recvmsg
<1>3. CASE OpenFlow
    <2>1. UNCHANGED <<mode, flows, assoc, robbed, cut>> /\ loop.pc = "open"
        BY <1>3 DEF OpenFlow
    <2>2. CASE loop' = Idle /\ chan' = chan
        BY <1>1, <2>1, <2>2
    <2>3. ASSUME NEW n \in Chans, NEW r \in ChanRecords, Opens(n, r), r.key = loop.key, r.recv = "none",
                 loop' = [loop EXCEPT !.pc = "install", !.ch = n]
          PROVE  FlowsReachable'
        BY <1>1, <2>1, <2>3 DEF Opens
    <2> QED
        BY <1>3, <2>2, <2>3, OpenFlowEffect
<1>4. CASE InstallFlow
    BY <1>1, <1>4 DEF InstallFlow
<1>5. CASE SendTo
    BY <1>1, <1>5 DEF SendTo
<1>6. CASE CleanupTick
    <2>1. CleanedUp
        BY <1>6, CleanupEffect
    <2> QED
        BY <1>1, <2>1 DEF CleanedUp
<1>7. ASSUME NEW c \in Chans, TimePasses(c) PROVE FlowsReachable'
    BY <1>1, <1>7 DEF TimePasses
<1>8. ASSUME NEW c \in Chans, ReceiverEnds(c) PROVE FlowsReachable'
    BY <1>1, <1>8 DEF ReceiverEnds
<1>9. ASSUME NEW c \in Chans, DeleteFlow(c) PROVE FlowsReachable'
    BY <1>1, <1>9 DEF DeleteFlow, Deleted
<1>10. ASSUME NEW c \in Chans, HandleUDP(c) PROVE FlowsReachable'
    BY <1>1, <1>10 DEF HandleUDP
<1>11. ASSUME NEW c \in Chans, ChannelEnds(c) PROVE FlowsReachable'
    BY <1>1, <1>11 DEF ChannelEnds, Recv
<1>12. CASE ReadFromUDP
    BY <1>1, <1>12 DEF ReadFromUDP
<1>13. CASE Resolve
    BY <1>1, <1>13 DEF Resolve
<1>14. CASE TunnelChannel
    <2>1. UNCHANGED <<mode, flows, robbed, cut>> /\ loop.pc = "channel"
        BY <1>14 DEF TunnelChannel
    <2>2. CASE UNCHANGED <<chan, assoc>> /\ loop' = Idle
        BY <1>1, <2>1, <2>2
    <2>4. CASE UNCHANGED <<chan, assoc>> /\ loop' = [loop EXCEPT !.pc = "send", !.ch = assoc.ch]
        BY <2>1, <2>4
    <2>3. ASSUME NEW n \in Chans, NEW r \in ChanRecords, Opens(n, r), assoc.open, assoc.ch = 0,
                 assoc' = [assoc EXCEPT !.ch = n], loop' = [loop EXCEPT !.pc = "send", !.ch = n]
          PROVE  FlowsReachable'
        BY <1>1, <2>1, <2>3 DEF Opens
    <2> QED
        BY <1>14, <2>2, <2>3, <2>4, TunnelChannelEffect
<1>15. CASE DirectConn
    BY <1>1, <1>15 DEF DirectConn, MayOpen
<1>16. CASE CloseRelay
    BY <1>1, <1>16 DEF CloseRelay
<1>17. ASSUME NEW q \in Queries, DNSStep(q) \/ \E kind \in {"A", "AAAA", "short"} : ReadQuery(q, kind) PROVE FlowsReachable'
    BY <1>1, <1>17 DEF DNSStep, HandleDNS, DNSRequestFails, DNSAnswer, DNSFails, ReadQuery
<1>18. CASE UNCHANGED dvars
    BY <1>1, <1>18 DEF dvars
<1> QED
    BY <1>2, <1>3, <1>4, <1>5, <1>6, <1>7, <1>8, <1>9, <1>10, <1>11, <1>12, <1>13, <1>14,
       <1>15, <1>16, <1>17, <1>18 DEF DNext, TProxyStep, SocksStep

\* Channels of an association are opened only while it is open and has none.
LEMMA AssocStep ==
    ASSUME DTypes, LoopInv, AssocInv, [DNext]_dvars, DatagramsAssumption
    PROVE  AssocInv'
<1> USE DEF DTypes, ChanRecords, LoopInv, AssocInv, OpenUDP, NoChan, Closed, Idle
<1>1. Chans \subseteq Nat /\ 0 \notin Chans
    BY DatagramsAssumption DEF Chans
<1>2. ASSUME NEW k \in Keys, Recvmsg(k) PROVE AssocInv'
    BY <1>1, <1>2 DEF Recvmsg
<1>3. CASE OpenFlow
    <2>1. UNCHANGED <<mode, flows, assoc, robbed, cut>> /\ loop.pc = "open"
        BY <1>3 DEF OpenFlow
    <2>2. CASE loop' = Idle /\ chan' = chan
        BY <1>1, <2>1, <2>2
    <2>3. ASSUME NEW n \in Chans, NEW r \in ChanRecords, Opens(n, r), r.key = loop.key, r.recv = "none",
                 loop' = [loop EXCEPT !.pc = "install", !.ch = n]
          PROVE  AssocInv'
        BY <1>1, <2>1, <2>3 DEF Opens
    <2> QED
        BY <1>3, <2>2, <2>3, OpenFlowEffect
<1>4. CASE InstallFlow
    BY <1>1, <1>4 DEF InstallFlow
<1>5. CASE SendTo
    BY <1>1, <1>5 DEF SendTo
<1>6. CASE CleanupTick
    <2>1. CleanedUp
        BY <1>6, CleanupEffect
    <2> QED
        BY <1>1, <2>1 DEF CleanedUp
<1>7. ASSUME NEW c \in Chans, TimePasses(c) PROVE AssocInv'
    BY <1>1, <1>7 DEF TimePasses
<1>8. ASSUME NEW c \in Chans, ReceiverEnds(c) PROVE AssocInv'
    BY <1>1, <1>8 DEF ReceiverEnds
<1>9. ASSUME NEW c \in Chans, DeleteFlow(c) PROVE AssocInv'
    BY <1>1, <1>9 DEF DeleteFlow, Deleted
<1>10. ASSUME NEW c \in Chans, HandleUDP(c) PROVE AssocInv'
    BY <1>1, <1>10 DEF HandleUDP
<1>11. ASSUME NEW c \in Chans, ChannelEnds(c) PROVE AssocInv'
    BY <1>1, <1>11 DEF ChannelEnds, Recv
<1>12. CASE ReadFromUDP
    BY <1>1, <1>12 DEF ReadFromUDP
<1>13. CASE Resolve
    BY <1>1, <1>13 DEF Resolve
<1>14. CASE TunnelChannel
    <2>1. UNCHANGED <<mode, flows, robbed, cut>> /\ loop.pc = "channel"
        BY <1>14 DEF TunnelChannel
    <2>2. CASE UNCHANGED <<chan, assoc>> /\ loop' = Idle
        BY <1>1, <2>1, <2>2
    <2>4. CASE UNCHANGED <<chan, assoc>> /\ loop' = [loop EXCEPT !.pc = "send", !.ch = assoc.ch]
        BY <2>1, <2>4
    <2>3. ASSUME NEW n \in Chans, NEW r \in ChanRecords, Opens(n, r), assoc.open, assoc.ch = 0,
                 assoc' = [assoc EXCEPT !.ch = n], loop' = [loop EXCEPT !.pc = "send", !.ch = n]
          PROVE  AssocInv'
        BY <1>1, <2>1, <2>3 DEF Opens
    <2> QED
        BY <1>14, <2>2, <2>3, <2>4, TunnelChannelEffect
<1>15. CASE DirectConn
    BY <1>1, <1>15 DEF DirectConn, MayOpen
<1>16. CASE CloseRelay
    BY <1>1, <1>16 DEF CloseRelay
<1>17. ASSUME NEW q \in Queries, DNSStep(q) \/ \E kind \in {"A", "AAAA", "short"} : ReadQuery(q, kind) PROVE AssocInv'
    BY <1>1, <1>17 DEF DNSStep, HandleDNS, DNSRequestFails, DNSAnswer, DNSFails, ReadQuery
<1>18. CASE UNCHANGED dvars
    BY <1>1, <1>18 DEF dvars
<1> QED
    BY <1>2, <1>3, <1>4, <1>5, <1>6, <1>7, <1>8, <1>9, <1>10, <1>11, <1>12, <1>13, <1>14,
       <1>15, <1>16, <1>17, <1>18 DEF DNext, TProxyStep, SocksStep

\* The invariant of the datagram side.
LEMMA DInvariant == DSpec => []DInv
<1>1. DInit => DInv
    <2>1. ASSUME DInit PROVE DTypes
        <3>1. 0 \in FlowIds
            BY DatagramsAssumption DEF FlowIds
        <3> QED
            BY <2>1, <3>1 DEF DInit, DTypes, ChanRecords, NoChan, Idle
    <2>2. ASSUME DInit PROVE LoopInv /\ FlowsReachable /\ AssocInv
        BY <2>2 DEF DInit, LoopInv, FlowsReachable, AssocInv, NoChan, Idle
    <2> QED
        BY <2>1, <2>2 DEF DInv
<1>2. DInv /\ [DNext]_dvars => DInv'
    BY DTypesStep, LoopStep, FlowsStep, AssocStep, DatagramsAssumption DEF DInv
<1> QED
    BY <1>1, <1>2, PTL DEF DSpec

\* The cleanup of the UDP TPROXY listener can reach every open flow, unless the
\* receiver of an earlier flow of the same key deleted its entry, for any number
\* of keys and channels.
THEOREM FlowsCanBeCleaned == DSpec => []FlowsReachable
<1>1. DInv => FlowsReachable
    BY DEF DInv
<1> QED
    BY <1>1, DInvariant, PTL

\* After the end of a SOCKS5 association none of its channels and sockets is
\* open, except channels the server has ended, and tunnelChannel and directConn
\* open none any more, for any number of channels.
THEOREM RelayLeavesNothing == DSpec => []AssociationClosed
<1>1. DInv => AssociationClosed
    BY DEF DInv, AssocInv, AssociationClosed
<1> QED
    BY <1>1, DInvariant, PTL

(***************************************************************************)
(* WinDivert.  OrigDstRight is not inductive: what the proxy is told comes *)
(* from connTrack, so the entry of a connection that is redirected must be *)
(* its own.  It is from the packet that stores it to the next tick of the  *)
(* cleanup, whatever the entry held before, because no two open            *)
(* connections share a key; and the IPv4 entry is asked for first, which   *)
(* is the right one for a connection that came in over IPv4.               *)
(***************************************************************************)
\* NoConn has an arbitrary destination.
Dsts == Addr \union {NoConn.dst}
Verdicts == {"none", "direct", "reject", "proxy", "dns"}
ConnType == [st : {"none", "open"}, proto : {"tcp", "udp"}, dst : Dsts, dport : Nat,
             sport : SrcPorts \union {0}, via : Verdicts, told : {<<>>} \union (Dsts \X Nat),
             quiet : Nat, broken : BOOLEAN]
EntryKind == [dst : Dsts, dport : Nat, age : Nat]

\* The entry of c is in the table and holds c's destination.
OwnEntry(c) == /\ KeyOf(conn[c]) \in DOMAIN connTrack
               /\ connTrack[KeyOf(conn[c])].dst = conn[c].dst
               /\ connTrack[KeyOf(conn[c])].dport = conn[c].dport

\* What holds of an open connection: one that was redirected since the last
\* tick has its entry, only TCP goes to the proxy, and what the proxy was told
\* is the destination.
Tracked(c) == /\ Captured(conn[c].via) /\ conn[c].quiet = 0 => OwnEntry(c)
              /\ conn[c].via = "proxy" => conn[c].proto = "tcp"
              /\ conn[c].told \in {<<>>, <<conn[c].dst, conn[c].dport>>}

DivertInv ==
    /\ conn \in [Conns -> ConnType]
    /\ \A key \in DOMAIN connTrack : connTrack[key] \in EntryKind
    /\ \A c, d \in Conns : /\ conn[c].st = "open" /\ conn[d].st = "open"
                           /\ KeyOf(conn[c]) = KeyOf(conn[d])
                           => c = d
    /\ \A c \in Conns : conn[c].st = "open" => Tracked(c)

\* No connection is open at the start.
LEMMA DivertInit == WInit => DivertInv
<1> SUFFICES ASSUME WInit PROVE DivertInv
    OBVIOUS
<1>1. NoConn \in ConnType /\ NoConn.st = "none"
    BY DEF NoConn, ConnType, Verdicts, Dsts
<1> QED
    BY <1>1 DEF WInit, DivertInv

\* Only TCP is sent to the proxy.
LEMMA ProxyIsTCP ==
    ASSUME NEW proto, NEW dst, NEW dport
    PROVE  /\ Outbound(proto, dst, dport) \in Verdicts
           /\ Outbound(proto, dst, dport) = "proxy" => proto = "tcp"
BY DEF Outbound, Verdicts

\* A packet of connection c, now r, is redirected or not: c's entry holds its
\* destination if it is, and the entries of other keys stay.
LEMMA StoreOwn ==
    ASSUME NEW r \in ConnType, NEW via,
           \A key \in DOMAIN connTrack : connTrack[key] \in EntryKind
    PROVE  /\ \A key \in DOMAIN Store(r, via) : Store(r, via)[key] \in EntryKind
           /\ Captured(via) => /\ KeyOf(r) \in DOMAIN Store(r, via)
                               /\ Store(r, via)[KeyOf(r)].dst = r.dst
                               /\ Store(r, via)[KeyOf(r)].dport = r.dport
           /\ \A key \in DOMAIN connTrack : key # KeyOf(r) =>
                key \in DOMAIN Store(r, via) /\ Store(r, via)[key] = connTrack[key]
<1>1. [dst |-> r.dst, dport |-> r.dport, age |-> 0] \in EntryKind
    BY DEF ConnType, EntryKind
<1> QED
    BY <1>1 DEF Store, Remembered

\* An application opens a connection from a port of its own.
LEMMA OpenKeeps ==
    ASSUME DivertInv, NEW c \in Conns, NEW t \in Targets, NEW s \in SrcPorts,
           Open(c, t[1], t[2], t[3], s)
    PROVE  DivertInv'
<1> DEFINE via == Outbound(t[1], t[2], t[3])
<1>1. t[1] \in {"tcp", "udp"} /\ t[2] \in Addr /\ t[3] \in Nat
    <2>1. Targets \subseteq {"tcp", "udp"} \X Addr \X Ports
        BY WinDivertAssumption
    <2>2. Ports \subseteq Nat
        BY CaptureAssumption
    <2> QED
        BY <2>1, <2>2
<1>2. via \in Verdicts /\ (via = "proxy" => t[1] = "tcp")
    BY ProxyIsTCP
<1> HIDE DEF via
<1>3. PICK r \in ConnType :
          /\ r = [NoConn EXCEPT !.st = "open", !.proto = t[1], !.dst = t[2], !.dport = t[3],
                                !.sport = s, !.via = via]
          /\ r.st = "open" /\ r.proto = t[1] /\ r.dst = t[2] /\ r.dport = t[3]
          /\ r.via = via /\ r.told = <<>>
    <2>1. PICK p \in {"tcp", "udp"}, a \in Dsts, n \in Nat, v \in Verdicts :
              p = t[1] /\ a = t[2] /\ n = t[3] /\ v = via
        BY <1>1, <1>2 DEF Dsts
    <2>2. NoConn \in ConnType /\ NoConn.told = <<>>
        BY DEF NoConn, ConnType, Verdicts, Dsts
    <2>3. ASSUME NEW q \in ConnType
          PROVE  LET r == [q EXCEPT !.st = "open", !.proto = p, !.dst = a, !.dport = n,
                                    !.sport = s, !.via = v] IN
                 /\ r \in ConnType /\ r.st = "open" /\ r.proto = p /\ r.dst = a
                 /\ r.dport = n /\ r.via = v /\ r.told = q.told
        BY DEF ConnType
    <2>4. PICK q \in ConnType : q = NoConn
        BY <2>2
    <2> DEFINE r == [q EXCEPT !.st = "open", !.proto = p, !.dst = a, !.dport = n,
                              !.sport = s, !.via = v]
    <2>5. /\ r \in ConnType /\ r.st = "open" /\ r.proto = p /\ r.dst = a
          /\ r.dport = n /\ r.via = v /\ r.told = <<>>
        BY <2>2, <2>3, <2>4
    <2>6. r = [NoConn EXCEPT !.st = "open", !.proto = t[1], !.dst = t[2], !.dport = t[3],
                             !.sport = s, !.via = via]
        BY <2>1, <2>4
    <2> HIDE DEF r
    <2> QED
        BY <2>1, <2>5, <2>6
<1>4. /\ \A d \in Conns : conn[d].st = "open" => KeyOf(conn[d]) # KeyOf(r)
      /\ conn' = [conn EXCEPT ![c] = r] /\ connTrack' = Store(r, r.via)
      /\ conn[c].st = "none"
    BY <1>3 DEF Open, via
<1>5. /\ conn' \in [Conns -> ConnType] /\ conn'[c] = r
      /\ \A d \in Conns \ {c} : conn'[d] = conn[d]
    BY <1>3, <1>4 DEF DivertInv
<1>6. /\ \A key \in DOMAIN connTrack' : connTrack'[key] \in EntryKind
      /\ Captured(r.via) => /\ KeyOf(r) \in DOMAIN connTrack'
                            /\ connTrack'[KeyOf(r)].dst = r.dst
                            /\ connTrack'[KeyOf(r)].dport = r.dport
      /\ \A key \in DOMAIN connTrack : key # KeyOf(r) =>
            key \in DOMAIN connTrack' /\ connTrack'[key] = connTrack[key]
    BY <1>4, StoreOwn DEF DivertInv
<1>7. \A d \in Conns : KeyOf(conn[d])' = KeyOf(conn'[d])
    BY DEF KeyOf
<1>8. \A e, d \in Conns : /\ conn'[e].st = "open" /\ conn'[d].st = "open"
                          /\ KeyOf(conn'[e]) = KeyOf(conn'[d])
                          => e = d
    BY <1>4, <1>5 DEF DivertInv
<1>9. ASSUME NEW d \in Conns, conn'[d].st = "open" PROVE Tracked(d)'
    <2>1. CASE d = c
        BY <1>2, <1>3, <1>5, <1>6, <2>1 DEF Tracked, OwnEntry, KeyOf, Key
    <2>2. CASE d # c
        <3>1. conn'[d] = conn[d] /\ KeyOf(conn[d]) # KeyOf(r) /\ Tracked(d)
            BY <1>4, <1>5, <1>9, <2>2 DEF DivertInv
        <3>2. Captured(conn[d].via) /\ conn[d].quiet = 0 => OwnEntry(d)'
            BY <1>6, <3>1 DEF Tracked, OwnEntry, KeyOf
        <3> QED
            BY <3>1, <3>2 DEF Tracked, Captured
    <2> QED
        BY <2>1, <2>2
<1> QED
    BY <1>5, <1>6, <1>8, <1>9 DEF DivertInv, KeyOf, Key

\* A further packet of an application stores its destination again.
LEMMA AppSendsKeeps ==
    ASSUME DivertInv, NEW c \in Conns, AppSends(c)
    PROVE  DivertInv'
<1>1. PICK k \in ConnType, via \in Verdicts :
          /\ k = conn[c] /\ via = Outbound(k.proto, k.dst, k.dport)
          /\ via = "proxy" => k.proto = "tcp"
    BY ProxyIsTCP DEF DivertInv
<1>2. /\ k.st = "open" /\ connTrack' = Store(k, via)
      /\ conn' = [conn EXCEPT ![c] = [k EXCEPT !.quiet = 0, !.via = via]]
    BY <1>1 DEF AppSends, DivertInv
<1>3. ASSUME NEW r \in ConnType
      PROVE  LET s == [r EXCEPT !.quiet = 0, !.via = via] IN
             /\ s \in ConnType /\ s.st = r.st /\ s.proto = r.proto /\ s.dst = r.dst
             /\ s.dport = r.dport /\ s.sport = r.sport /\ s.told = r.told /\ s.via = via
    BY DEF ConnType
<1>4. /\ conn'[c] \in ConnType /\ conn'[c].st = "open" /\ conn'[c].proto = k.proto
      /\ conn'[c].dst = k.dst /\ conn'[c].dport = k.dport /\ conn'[c].sport = k.sport
      /\ conn'[c].told = k.told /\ conn'[c].via = via
    BY <1>2, <1>3 DEF DivertInv
<1>5. \A d \in Conns \ {c} : conn'[d] = conn[d]
    BY <1>2 DEF DivertInv
<1>6. conn' \in [Conns -> ConnType]
    BY <1>2, <1>4, <1>5 DEF DivertInv
<1>7. \A d \in Conns : conn'[d].st = conn[d].st /\ KeyOf(conn'[d]) = KeyOf(conn[d])
    BY <1>1, <1>2, <1>4, <1>5 DEF KeyOf
<1>8. /\ \A key \in DOMAIN connTrack' : connTrack'[key] \in EntryKind
      /\ Captured(via) => /\ KeyOf(k) \in DOMAIN connTrack'
                          /\ connTrack'[KeyOf(k)].dst = k.dst
                          /\ connTrack'[KeyOf(k)].dport = k.dport
      /\ \A key \in DOMAIN connTrack : key # KeyOf(k) =>
            key \in DOMAIN connTrack' /\ connTrack'[key] = connTrack[key]
    BY <1>2, StoreOwn DEF DivertInv
<1>9. \A d \in Conns : conn[d].st = "open" /\ d # c => KeyOf(conn[d]) # KeyOf(k)
    BY <1>1, <1>2 DEF DivertInv
<1>10. ASSUME NEW d \in Conns, conn'[d].st = "open" PROVE Tracked(d)'
    <2>1. CASE d = c
        <3>1. k.told \in {<<>>, <<k.dst, k.dport>>}
            BY <1>1, <1>2 DEF DivertInv, Tracked
        <3>2. KeyOf(conn'[c]) = KeyOf(k)
            BY <1>1, <1>7
        <3> QED
            BY <1>1, <1>4, <1>8, <2>1, <3>1, <3>2 DEF Tracked, OwnEntry
    <2>2. CASE d # c
        <3>1. conn'[d] = conn[d] /\ KeyOf(conn[d]) # KeyOf(k) /\ Tracked(d)
            BY <1>5, <1>9, <1>10, <2>2 DEF DivertInv
        <3>2. Captured(conn[d].via) /\ conn[d].quiet = 0 => OwnEntry(d)'
            BY <1>7, <1>8, <3>1 DEF Tracked, OwnEntry
        <3> QED
            BY <3>1, <3>2 DEF Tracked, Captured
    <2> QED
        BY <2>1, <2>2
<1> QED
    BY <1>6, <1>7, <1>8, <1>10 DEF DivertInv

\* A step that leaves the entries alone and takes nothing back from an open
\* connection.
LEMMA EntriesStay ==
    ASSUME DivertInv, conn' \in [Conns -> ConnType], connTrack' = connTrack,
           \A d \in Conns : conn'[d].st = "open" =>
              /\ conn[d].st = "open" /\ KeyOf(conn'[d]) = KeyOf(conn[d])
              /\ conn'[d].proto = conn[d].proto
              /\ conn'[d].dst = conn[d].dst /\ conn'[d].dport = conn[d].dport
              /\ conn'[d].via = conn[d].via /\ conn'[d].quiet = conn[d].quiet
              /\ conn'[d].told \in {conn[d].told, <<conn[d].dst, conn[d].dport>>}
    PROVE  DivertInv'
<1>1. ASSUME NEW d \in Conns, conn'[d].st = "open" PROVE Tracked(d)'
    BY <1>1 DEF DivertInv, Tracked, OwnEntry, Captured
<1> QED
    BY <1>1 DEF DivertInv

\* The proxy is told the destination of the connection it accepts; it answers;
\* a connection is closed.
LEMMA ProxyKeeps ==
    ASSUME DivertInv, NEW c \in Conns, Accepts(c) \/ ProxySends(c) \/ Close(c)
    PROVE  DivertInv'
<1>0. conn \in [Conns -> ConnType] /\ conn[c] \in ConnType
    BY DEF DivertInv
<1>1. CASE Accepts(c)
    <2>1. PICK k \in ConnType : k = conn[c]
        BY <1>0
    <2>2. /\ k.st = "open" /\ k.via = "proxy" /\ k.quiet = 0 /\ Fam[k.dst] = 4
          /\ connTrack' = connTrack
          /\ conn' = [conn EXCEPT ![c] = [k EXCEPT !.told = QueryOrigDst(k.sport)]]
        BY <1>0, <1>1, <2>1 DEF Accepts
    <2>3. k.proto = "tcp" /\ OwnEntry(c)
        BY <2>1, <2>2 DEF DivertInv, Tracked, Captured
    <2>4. KeyOf(k) = Key("tcp", 4, k.sport)
        BY <2>2, <2>3 DEF KeyOf
    <2>5. QueryOrigDst(k.sport) = <<k.dst, k.dport>>
        <3> DEFINE found == {v \in {4, 6} : Key("tcp", v, k.sport) \in DOMAIN connTrack}
        <3>1. 4 \in found
            BY <2>1, <2>3, <2>4 DEF OwnEntry
        <3>2. Least(found) = 4
            BY <3>1 DEF Least
        <3> QED
            BY <2>1, <2>3, <2>4, <3>1, <3>2 DEF QueryOrigDst, OwnEntry
    <2>6. PICK dest \in {<<>>} \union (Dsts \X Nat) : dest = <<k.dst, k.dport>>
        BY DEF ConnType
    <2>7. ASSUME NEW r \in ConnType
          PROVE  LET s == [r EXCEPT !.told = dest] IN
                 /\ s \in ConnType /\ s.st = r.st /\ s.proto = r.proto /\ s.dst = r.dst
                 /\ s.dport = r.dport /\ s.sport = r.sport /\ s.told = dest /\ s.via = r.via
                 /\ s.quiet = r.quiet
        BY DEF ConnType
    <2>8. conn' = [conn EXCEPT ![c] = [k EXCEPT !.told = dest]]
        BY <2>2, <2>5, <2>6
    <2>9. /\ conn'[c] \in ConnType /\ conn'[c].st = k.st /\ conn'[c].proto = k.proto
          /\ conn'[c].dst = k.dst /\ conn'[c].dport = k.dport /\ conn'[c].sport = k.sport
          /\ conn'[c].via = k.via /\ conn'[c].quiet = k.quiet /\ conn'[c].told = dest
        BY <1>0, <2>7, <2>8
    <2>10. conn' \in [Conns -> ConnType] /\ \A d \in Conns \ {c} : conn'[d] = conn[d]
        BY <1>0, <2>8, <2>9
    <2>11. KeyOf(conn'[c]) = KeyOf(conn[c])
        BY <2>1, <2>9 DEF KeyOf
    <2> QED
        BY <2>1, <2>2, <2>6, <2>9, <2>10, <2>11, EntriesStay
<1>2. CASE ProxySends(c)
    <2>1. PICK b \in BOOLEAN : conn' = [conn EXCEPT ![c] = [conn[c] EXCEPT !.broken = b]]
        BY <1>0, <1>2 DEF ProxySends, ConnType
    <2>2. ASSUME NEW r \in ConnType
          PROVE  LET s == [r EXCEPT !.broken = b] IN
                 /\ s \in ConnType /\ s.st = r.st /\ s.proto = r.proto /\ s.dst = r.dst
                 /\ s.dport = r.dport /\ s.sport = r.sport /\ s.told = r.told /\ s.via = r.via
                 /\ s.quiet = r.quiet
        BY DEF ConnType
    <2>3. /\ conn'[c] \in ConnType /\ conn'[c].st = conn[c].st /\ conn'[c].proto = conn[c].proto
          /\ conn'[c].dst = conn[c].dst /\ conn'[c].dport = conn[c].dport
          /\ conn'[c].sport = conn[c].sport /\ conn'[c].via = conn[c].via
          /\ conn'[c].quiet = conn[c].quiet /\ conn'[c].told = conn[c].told
        BY <1>0, <2>1, <2>2
    <2>4. conn' \in [Conns -> ConnType] /\ \A d \in Conns \ {c} : conn'[d] = conn[d]
        BY <1>0, <2>1, <2>3
    <2>5. KeyOf(conn'[c]) = KeyOf(conn[c])
        BY <2>3 DEF KeyOf
    <2>6. connTrack' = connTrack
        BY <1>2 DEF ProxySends
    <2> QED
        BY <2>3, <2>4, <2>5, <2>6, EntriesStay
<1>3. CASE Close(c)
    <2>1. NoConn \in ConnType /\ NoConn.st = "none"
        BY DEF NoConn, ConnType, Verdicts, Dsts
    <2>2. /\ conn' \in [Conns -> ConnType] /\ conn'[c] = NoConn /\ connTrack' = connTrack
          /\ \A d \in Conns \ {c} : conn'[d] = conn[d]
        BY <1>0, <1>3, <2>1 DEF Close
    <2> QED
        BY <2>1, <2>2, EntriesStay
<1> QED
    BY <1>1, <1>2, <1>3

\* A tick of the cleanup removes old entries; no connection was redirected
\* since the tick.
LEMMA CleanupKeeps ==
    ASSUME DivertInv, CleanupLoop
    PROVE  DivertInv'
<1> DEFINE older == [key \in DOMAIN connTrack |-> [connTrack[key] EXCEPT !.age = @ + 1]]
<1>1. ASSUME NEW e \in EntryKind PROVE [e EXCEPT !.age = @ + 1] \in EntryKind
    BY DEF EntryKind
<1>2. \A key \in DOMAIN older : older[key] \in EntryKind
    BY <1>1 DEF DivertInv
<1>3. connTrack' = Younger(older)
    BY DEF CleanupLoop
<1> HIDE DEF older
<1>4. \A key \in DOMAIN connTrack' : connTrack'[key] \in EntryKind
    BY <1>2, <1>3 DEF Younger
<1>5. ASSUME NEW r \in ConnType
      PROVE  LET s == [r EXCEPT !.quiet = @ + 1] IN
             /\ s \in ConnType /\ s.st = r.st /\ s.proto = r.proto /\ s.dst = r.dst
             /\ s.dport = r.dport /\ s.sport = r.sport /\ s.told = r.told /\ s.via = r.via
             /\ s.quiet # 0
    BY DEF ConnType
<1>6. ASSUME NEW d \in Conns
      PROVE  /\ conn'[d] \in ConnType /\ conn'[d].st = conn[d].st
             /\ conn'[d].proto = conn[d].proto /\ conn'[d].dst = conn[d].dst
             /\ conn'[d].dport = conn[d].dport /\ conn'[d].sport = conn[d].sport
             /\ conn'[d].told = conn[d].told /\ conn'[d].via = conn[d].via
             /\ conn'[d].st = "open" => conn'[d].quiet # 0
    <2>1. conn[d] \in ConnType
        BY DEF DivertInv
    <2>2. CASE conn[d].st = "open"
        <3>1. conn'[d] = [conn[d] EXCEPT !.quiet = @ + 1]
            BY <2>2 DEF CleanupLoop
        <3> QED
            BY <1>5, <2>1, <3>1
    <2>3. CASE conn[d].st # "open"
        <3>1. conn'[d] = conn[d]
            BY <2>3 DEF CleanupLoop
        <3> QED
            BY <2>1, <2>3, <3>1
    <2> QED
        BY <2>2, <2>3
<1>7. conn' \in [Conns -> ConnType]
    BY <1>6 DEF CleanupLoop
<1>8. \A d \in Conns : KeyOf(conn'[d]) = KeyOf(conn[d])
    BY <1>6 DEF KeyOf
<1>9. ASSUME NEW d \in Conns, conn'[d].st = "open" PROVE Tracked(d)'
    BY <1>6, <1>9 DEF DivertInv, Tracked
<1> QED
    BY <1>4, <1>6, <1>7, <1>8, <1>9 DEF DivertInv

\* The proxy dials the destination the application asked for, for any number
\* of connections that share the source ports one after the other or over the
\* two families, and any number of ticks of the cleanup.
THEOREM ProxyDialsRight == WSpec => []OrigDstRight
<1>1. WInit => DivertInv
    BY DivertInit
<1>2. DivertInv /\ [WNext]_wvars => DivertInv'
    <2> SUFFICES ASSUME DivertInv, [WNext]_wvars PROVE DivertInv'
        OBVIOUS
    <2>1. CASE UNCHANGED wvars \/ WRestore
        <3>1. conn' = conn /\ connTrack' = connTrack
            BY <2>1 DEF wvars, WRestore
        <3> QED
            BY <3>1, EntriesStay DEF DivertInv
    <2> QED
        BY <2>1, OpenKeeps, AppSendsKeeps, ProxyKeeps, CleanupKeeps DEF WNext
<1>3. DivertInv => OrigDstRight
    BY DEF DivertInv, Tracked, OrigDstRight
<1> QED
    BY <1>1, <1>2, <1>3, PTL DEF WSpec
=============================================================================
