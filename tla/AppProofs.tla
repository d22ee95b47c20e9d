------------------------------ MODULE AppProofs ------------------------------
(***************************************************************************)
(* Proofs about the applications that run the tunnel: the mobile engine    *)
(* and its forwarders, and the desktop sidecar.                            *)
(*                                                                         *)
(* The native side uses an engine in one of two ways: it calls Stop only   *)
(* when Start has returned, as often as it likes, or it calls Start once   *)
(* and Stop at any time.  The theorems about the engine need one of the    *)
(* two (NativeCalls); the README shows what happens when calls of a second *)
(* Start overlap a Stop.                                                   *)
(***************************************************************************)
EXTENDS MobileEngine, TunForwarder, Sidecar, TLAPS

NativeCalls == ~StopDuringStart \/ MaxStarts <= 1

(***************************************************************************)
(* The invariant.  SessionOwned is not inductive: a session that is        *)
(* published replaces e.tunnel, so there must be none then.  That needs    *)
(* state and e.tunnel to agree, for the guard of Start reads the state,    *)
(* and Start to run without a watcher, until it spawns one.                *)
(***************************************************************************)
EngineStates == {"disconnected", "connecting", "connected", "reconnecting", "error"}
SessionStates == {"unused", "live", "dead", "closed"}
PcType == [start : StartPCs, stop : {"idle", "stopwait"},
           watch : WatchPCs, stats : {"none", "run"}]

EngineTypes ==
    /\ pc \in [Engines -> PcType]
    /\ state \in [Engines -> EngineStates]
    /\ tunnel \in [Engines -> Sessions \cup {None}]
    /\ tunFile \in [Engines -> Files \cup {None}]
    /\ own \in [Engines -> [Builders -> Sessions \cup {None}]]
    /\ sess \in [Engines -> [Sessions -> SessionStates]]
    /\ attached \in [Engines -> [Sessions -> Builders \cup {Nil}]]
    /\ down \in [Engines -> BOOLEAN] /\ starts \in [Engines -> Nat]

Quiet(e) == pc[e].watch = "none" /\ pc[e].stats = "none"

\* Start runs without the goroutines of an earlier one.
Alone(e) ==
    /\ pc[e].start \in {"enter", "dial", "undo", "publish", "spawn"} => Quiet(e)
    /\ ~StopDuringStart => /\ down[e] => Quiet(e) /\ pc[e].start = "idle"
                           /\ pc[e].stop # "idle" => pc[e].start = "idle"
    /\ StopDuringStart => (starts[e] = 0 => Quiet(e) /\ pc[e].start = "idle")

\* There is no tunnel while a session is being made.
Vacant(e) ==
    /\ pc[e].start \in {"dial", "publish"} => tunnel[e] = None
    /\ pc[e].watch \in {"sleep", "dial", "forward", "publish"} => tunnel[e] = None
    /\ state[e] = "connected" <=> tunnel[e] # None
    /\ pc[e].start = "publish" => own[e]["start"] \in Sessions
    /\ pc[e].watch \in {"forward", "publish"} => own[e]["watch"] \in Sessions

\* SessionOwned of one engine.
OwnedBy(e) ==
    \A s \in Sessions :
        sess[e][s] \in {"live", "dead"} =>
            \/ s = tunnel[e]
            \/ pc[e].start = "publish" /\ s = own[e]["start"]
            \/ pc[e].watch \in {"forward", "publish"} /\ s = own[e]["watch"]

\* A tunnel without a forwarder is one that StartWithTUN is about to wire, or
\* that Start refuses to replace.
Wired(e) ==
    /\ ~UseTUN => tunFile[e] = None
    /\ (tunnel[e] # None /\ tunFile[e] # None /\ attached[e][tunnel[e]] = Nil) =>
          \/ pc[e].start \in {"enter", "undo", "spawn", "attach", "abort"}
          \/ pc[e].start = "forward" /\ own[e]["start"] = tunnel[e]
    /\ (pc[e].watch = "publish" /\ tunFile[e] # None) => attached[e][own[e]["watch"]] # Nil

EngineInv(e) == Alone(e) /\ Vacant(e) /\ OwnedBy(e) /\ Wired(e)
MobileInv == EngineTypes /\ \A e \in Engines : EngineInv(e)

-----------------------------------------------------------------------------
(* What the assignments do.                                                *)

\* One entry of a table of tables is assigned.
LEMMA Update2 ==
    ASSUME NEW A, NEW B, NEW C, NEW f \in [A -> [B -> C]], NEW a \in A, NEW b \in B, NEW c \in C
    PROVE  LET g == [f EXCEPT ![a][b] = c] IN
           /\ g \in [A -> [B -> C]] /\ g[a][b] = c
           /\ \A x \in B \ {b} : g[a][x] = f[a][x]
           /\ \A x \in A \ {a} : g[x] = f[x]
OBVIOUS

\* The thread that runs Start, or gives up, moves on.
LEMMA GotoStart ==
    ASSUME pc \in [Engines -> PcType], NEW e \in Engines, NEW l \in StartPCs, Goto(e, "start", l)
    PROVE  /\ pc' \in [Engines -> PcType] /\ pc'[e].start = l
           /\ pc'[e].stop = pc[e].stop /\ pc'[e].watch = pc[e].watch /\ pc'[e].stats = pc[e].stats
           /\ \A d \in Engines \ {e} : pc'[d] = pc[d]
<1>1. ASSUME NEW r \in PcType
      PROVE  LET s == [r EXCEPT !["start"] = l] IN
             /\ s \in PcType /\ s.start = l /\ s.stop = r.stop /\ s.watch = r.watch
             /\ s.stats = r.stats
    BY DEF PcType
<1>2. pc'[e] = [pc[e] EXCEPT !["start"] = l] /\ pc' = [pc EXCEPT ![e] = pc'[e]]
    BY DEF Goto
<1> QED
    BY <1>1, <1>2

\* The thread that runs Stop moves on.
LEMMA GotoStop ==
    ASSUME pc \in [Engines -> PcType], NEW e \in Engines, NEW l \in {"idle", "stopwait"},
           Goto(e, "stop", l)
    PROVE  /\ pc' \in [Engines -> PcType] /\ pc'[e].stop = l
           /\ pc'[e].start = pc[e].start /\ pc'[e].watch = pc[e].watch /\ pc'[e].stats = pc[e].stats
           /\ \A d \in Engines \ {e} : pc'[d] = pc[d]
<1>1. ASSUME NEW r \in PcType
      PROVE  LET s == [r EXCEPT !["stop"] = l] IN
             /\ s \in PcType /\ s.stop = l /\ s.start = r.start /\ s.watch = r.watch
             /\ s.stats = r.stats
    BY DEF PcType
<1>2. pc'[e] = [pc[e] EXCEPT !["stop"] = l] /\ pc' = [pc EXCEPT ![e] = pc'[e]]
    BY DEF Goto
<1> QED
    BY <1>1, <1>2

\* reconnectWatcher moves on.
LEMMA GotoWatch ==
    ASSUME pc \in [Engines -> PcType], NEW e \in Engines, NEW l \in WatchPCs, Goto(e, "watch", l)
    PROVE  /\ pc' \in [Engines -> PcType] /\ pc'[e].watch = l
           /\ pc'[e].start = pc[e].start /\ pc'[e].stop = pc[e].stop /\ pc'[e].stats = pc[e].stats
           /\ \A d \in Engines \ {e} : pc'[d] = pc[d]
<1>1. ASSUME NEW r \in PcType
      PROVE  LET s == [r EXCEPT !["watch"] = l] IN
             /\ s \in PcType /\ s.watch = l /\ s.start = r.start /\ s.stop = r.stop
             /\ s.stats = r.stats
    BY DEF PcType
<1>2. pc'[e] = [pc[e] EXCEPT !["watch"] = l] /\ pc' = [pc EXCEPT ![e] = pc'[e]]
    BY DEF Goto
<1> QED
    BY <1>1, <1>2

\* Closing a session, or none.
LEMMA Closing ==
    ASSUME sess \in [Engines -> [Sessions -> SessionStates]], NEW e \in Engines,
           NEW s \in Sessions \cup {None}, CloseSession(e, s)
    PROVE  /\ sess' \in [Engines -> [Sessions -> SessionStates]]
           /\ \A t \in Sessions : sess'[e][t] = IF t = s THEN "closed" ELSE sess[e][t]
           /\ \A d \in Engines \ {e} : sess'[d] = sess[d]
<1>1. CASE s = None
    BY <1>1, BoundsAssumption DEF CloseSession, None, Sessions
<1>2. CASE s # None
    <2>1. s \in Sessions /\ sess' = [sess EXCEPT ![e][s] = "closed"]
        BY <1>2 DEF CloseSession
    <2>2. "closed" \in SessionStates
        BY DEF SessionStates
    <2> QED
        BY <2>1, <2>2, Update2
<1> QED
    BY <1>1, <1>2

\* A builder's local session variable is assigned.
LEMMA OwnSet ==
    ASSUME own \in [Engines -> [Builders -> Sessions \cup {None}]], NEW e \in Engines,
           NEW p \in Builders, NEW s \in Sessions \cup {None}, own' = [own EXCEPT ![e][p] = s]
    PROVE  /\ own' \in [Engines -> [Builders -> Sessions \cup {None}]] /\ own'[e][p] = s
           /\ \A q \in Builders \ {p} : own'[e][q] = own[e][q]
           /\ \A d \in Engines \ {e} : own'[d] = own[d]
BY Update2

\* Nothing of engine d changes.
Same(d) ==
    /\ pc'[d] = pc[d] /\ state'[d] = state[d] /\ tunnel'[d] = tunnel[d]
    /\ tunFile'[d] = tunFile[d] /\ own'[d] = own[d] /\ sess'[d] = sess[d]
    /\ attached'[d] = attached[d] /\ down'[d] = down[d] /\ starts'[d] = starts[d]

\* A step of one engine leaves the others as they are.
LEMMA OneEngineSteps ==
    ASSUME MobileInv, EngineTypes', NEW e \in Engines, EngineInv(e)',
           \A d \in Engines \ {e} : Same(d)
    PROVE  MobileInv'
<1>1. ASSUME NEW d \in Engines \ {e} PROVE EngineInv(d)'
    BY <1>1 DEF MobileInv, EngineInv, Same, Alone, Vacant, OwnedBy, Wired, Quiet
<1> QED
    BY <1>1 DEF MobileInv

\* At first there are no sessions, and no thread runs.
LEMMA MobileInit == Init => MobileInv
<1> SUFFICES ASSUME Init PROVE MobileInv
    OBVIOUS
<1>1. EngineTypes
    BY DEF Init, EngineTypes, PcType, StartPCs, WatchPCs, EngineStates, SessionStates, Builders
<1>2. ASSUME NEW e \in Engines PROVE EngineInv(e)
    BY <1>2 DEF Init, EngineInv, Alone, Vacant, OwnedBy, Wired, Quiet
<1> QED
    BY <1>1, <1>2 DEF MobileInv

-----------------------------------------------------------------------------
(* Start up to the dialing, and its failures.                              *)

\* Start is called: no goroutine of the engine runs then.
LEMMA StartCallKeeps ==
    ASSUME NativeCalls, MobileInv, NEW e \in Engines, StartCall(e)
    PROVE  MobileInv'
<1> USE DEF MobileInv, EngineTypes
<1>1. EngineInv(e)
    OBVIOUS
<1>2. pc[e].start = "idle" /\ pc[e].stop = "idle" /\ down[e] /\ starts[e] \in Nat
      /\ starts[e] < MaxStarts
    BY DEF StartCall
<1>3. Quiet(e)
    <2>1. MaxStarts <= 1 => starts[e] = 0
        <3>1. PICK n \in Nat : n = starts[e]
            BY <1>2
        <3>2. MaxStarts \in Nat /\ n < MaxStarts
            BY <1>2, <3>1, BoundsAssumption
        <3> HIDE DEF MobileInv, EngineTypes
        <3> QED
            BY <3>1, <3>2
    <2> QED
        BY <1>1, <1>2, <2>1 DEF EngineInv, Alone, NativeCalls
<1>4. PICK n \in Nat : n = starts[e] + 1 /\ n \in Files
    BY <1>2, BoundsAssumption DEF Files
<1>5. "enter" \in StartPCs /\ Goto(e, "start", "enter")
    BY DEF StartPCs, StartCall
<1>6. /\ pc' \in [Engines -> PcType] /\ pc'[e].start = "enter"
      /\ pc'[e].stop = "idle" /\ pc'[e].watch = "none" /\ pc'[e].stats = "none"
      /\ \A d \in Engines \ {e} : pc'[d] = pc[d]
    BY <1>2, <1>3, <1>5, GotoStart DEF Quiet
<1>7. /\ starts' = [starts EXCEPT ![e] = n] /\ down' = [down EXCEPT ![e] = FALSE]
      /\ UNCHANGED <<state, tunnel, sess, attached, own>>
    BY <1>4 DEF StartCall, buildVars
<1>8. \/ UseTUN /\ tunFile' = [tunFile EXCEPT ![e] = n]
      \/ ~UseTUN /\ tunFile' = tunFile
    BY <1>2, <1>4, <1>7 DEF StartCall
<1>9. EngineTypes'
    <2>1. tunFile' \in [Engines -> Files \cup {None}]
        BY <1>4, <1>8
    <2>2. starts' \in [Engines -> Nat] /\ down' \in [Engines -> BOOLEAN]
        BY <1>7
    <2> QED
        BY <1>6, <1>7, <2>1, <2>2
<1>10. \A d \in Engines \ {e} : Same(d)
    BY <1>6, <1>7, <1>8 DEF Same
<1>11. starts'[e] # 0 /\ ~down'[e]
    BY <1>4, <1>7
<1>12. EngineInv(e)'
    <2>1. Alone(e)'
        BY <1>6, <1>11 DEF Alone, Quiet
    <2>2. Vacant(e)'
        BY <1>1, <1>2, <1>3, <1>6, <1>7 DEF EngineInv, Vacant, Quiet
    <2>3. OwnedBy(e)'
        BY <1>1, <1>2, <1>3, <1>6, <1>7 DEF EngineInv, OwnedBy, Quiet
    <2>4. Wired(e)'
        BY <1>1, <1>6, <1>8 DEF EngineInv, Wired
    <2> QED
        BY <2>1, <2>2, <2>3, <2>4 DEF EngineInv
<1> QED
    BY <1>9, <1>10, <1>12, OneEngineSteps

\* Start enters only an engine that is not connected, so one without a tunnel;
\* it is refused otherwise; its dial fails.
LEMMA StartEnters ==
    ASSUME MobileInv, NEW e \in Engines, StartEnter(e) \/ StartRefused(e) \/ StartFail(e)
    PROVE  MobileInv'
<1> USE DEF MobileInv, EngineTypes
<1>1. EngineInv(e)
    OBVIOUS
<1>2. PICK l \in {"dial", "undo"}, was \in EngineStates :
          /\ Goto(e, "start", l) /\ state' = [state EXCEPT ![e] = was]
          /\ was = "connected" <=> state[e] = "connected"
          /\ pc[e].start \in {"enter", "dial"}
          /\ l = "dial" => state[e] # "connected"
    <2>1. CASE StartEnter(e)
        <3>1. "connecting" \in EngineStates
            BY DEF EngineStates
        <3> QED
            BY <2>1, <3>1 DEF StartEnter, MayEnter
    <2>2. CASE StartRefused(e)
        BY <2>2 DEF StartRefused
    <2>3. CASE StartFail(e)
        BY <1>1, <2>3 DEF StartFail, EngineStates, EngineInv, Vacant
    <2> QED
        BY <2>1, <2>2, <2>3
<1>3. UNCHANGED <<tunnel, sess, attached, tunFile, own, down, starts>>
    BY DEF StartEnter, StartRefused, StartFail, buildVars, tunVars, callVars
<1>4. l \in StartPCs
    BY DEF StartPCs
<1>5. /\ pc' \in [Engines -> PcType] /\ pc'[e].start = l
      /\ pc'[e].stop = pc[e].stop /\ pc'[e].watch = pc[e].watch /\ pc'[e].stats = pc[e].stats
      /\ \A d \in Engines \ {e} : pc'[d] = pc[d]
    BY <1>2, <1>4, GotoStart
<1>6. EngineTypes'
    BY <1>2, <1>3, <1>5
<1>7. \A d \in Engines \ {e} : Same(d)
    BY <1>2, <1>3, <1>5 DEF Same
<1>8. state'[e] = was
    BY <1>2
<1>9. EngineInv(e)'
    <2>1. Alone(e)'
        BY <1>1, <1>2, <1>3, <1>5 DEF EngineInv, Alone, Quiet
    <2>2. Vacant(e)'
        BY <1>1, <1>2, <1>3, <1>5, <1>8 DEF EngineInv, Vacant
    <2>3. OwnedBy(e)'
        BY <1>1, <1>2, <1>3, <1>5 DEF EngineInv, OwnedBy
    <2>4. Wired(e)'
        BY <1>1, <1>2, <1>3, <1>5 DEF EngineInv, Wired, Vacant
    <2> QED
        BY <2>1, <2>2, <2>3, <2>4 DEF EngineInv
<1> QED
    BY <1>6, <1>7, <1>9, OneEngineSteps

\* StartWithTUN forgets the TUN file.
LEMMA StartUndoKeeps ==
    ASSUME MobileInv, NEW e \in Engines, StartUndo(e)
    PROVE  MobileInv'
<1> USE DEF MobileInv, EngineTypes
<1>1. EngineInv(e)
    OBVIOUS
<1>2. /\ pc[e].start = "undo" /\ Goto(e, "start", "idle") /\ "idle" \in StartPCs
      /\ UNCHANGED <<state, tunnel, sess, attached, own, starts>>
      /\ down' = [down EXCEPT ![e] = TRUE]
      /\ tunFile' = [tunFile EXCEPT ![e] = IF UseTUN THEN None ELSE @]
    BY DEF StartUndo, Undone, StartPCs, buildVars
<1>3. /\ pc' \in [Engines -> PcType] /\ pc'[e].start = "idle"
      /\ pc'[e].stop = pc[e].stop /\ pc'[e].watch = pc[e].watch /\ pc'[e].stats = pc[e].stats
      /\ \A d \in Engines \ {e} : pc'[d] = pc[d]
    BY <1>2, GotoStart
<1>4. tunFile'[e] = None
    BY <1>1, <1>2 DEF EngineInv, Wired
<1>5. EngineTypes'
    BY <1>2, <1>3
<1>6. \A d \in Engines \ {e} : Same(d)
    BY <1>2, <1>3 DEF Same
<1>7. EngineInv(e)'
    <2>1. Alone(e)'
        BY <1>1, <1>2, <1>3 DEF EngineInv, Alone, Quiet
    <2>2. Vacant(e)'
        BY <1>1, <1>2, <1>3 DEF EngineInv, Vacant
    <2>3. OwnedBy(e)'
        BY <1>1, <1>2, <1>3 DEF EngineInv, OwnedBy
    <2>4. Wired(e)'
        BY <1>4 DEF Wired
    <2> QED
        BY <2>1, <2>2, <2>3, <2>4 DEF EngineInv
<1> QED
    BY <1>5, <1>6, <1>7, OneEngineSteps

-----------------------------------------------------------------------------
(* Sessions: dialed, established, published, wired to the TUN file.        *)

\* A connection is dialed; a session dies.
LEMMA DialKeeps ==
    ASSUME MobileInv, NEW e \in Engines,
           \/ \E p \in Builders : Dial(e, p)
           \/ \E s \in Sessions : SessionDies(e, s)
    PROVE  MobileInv'
<1> USE DEF MobileInv, EngineTypes
<1>1. EngineInv(e)
    OBVIOUS
<1>2. UNCHANGED <<pc, state, tunnel, attached, tunFile, own, down, starts>>
    BY DEF Dial, SessionDies, tunVars, callVars, buildVars
<1>3. /\ sess' \in [Engines -> [Sessions -> SessionStates]]
      /\ \A s \in Sessions : sess'[e][s] \in {"live", "dead"} => sess[e][s] \in {"live", "dead"}
      /\ \A d \in Engines \ {e} : sess'[d] = sess[d]
    <2>1. CASE \E p \in Builders : Dial(e, p)
        BY <2>1 DEF Dial
    <2>2. ASSUME NEW s \in Sessions, SessionDies(e, s)
          PROVE  /\ sess' \in [Engines -> [Sessions -> SessionStates]]
                 /\ \A t \in Sessions :
                      sess'[e][t] \in {"live", "dead"} => sess[e][t] \in {"live", "dead"}
                 /\ \A d \in Engines \ {e} : sess'[d] = sess[d]
        <3>1. sess' = [sess EXCEPT ![e][s] = "dead"] /\ sess[e][s] = "live"
              /\ "dead" \in SessionStates
            BY <2>2 DEF SessionDies, SessionStates
        <3> QED
            BY <3>1, Update2
    <2> QED
        BY <2>1, <2>2
<1>4. EngineTypes'
    BY <1>2, <1>3
<1>5. \A d \in Engines \ {e} : Same(d)
    BY <1>2, <1>3 DEF Same
<1>6. EngineInv(e)'
    BY <1>1, <1>2, <1>3 DEF EngineInv, Alone, Quiet, Vacant, OwnedBy, Wired
<1> QED
    BY <1>4, <1>5, <1>6, OneEngineSteps

\* A session is made: its builder has it.
LEMMA EstablishedKeeps ==
    ASSUME MobileInv, NEW e \in Engines, NEW p \in Builders, NEW s \in Sessions,
           Established(e, p, s)
    PROVE  MobileInv'
<1> USE DEF MobileInv, EngineTypes
<1>1. EngineInv(e)
    OBVIOUS
<1>2. /\ pc[e][p] = "dial" /\ sess' = [sess EXCEPT ![e][s] = "live"]
      /\ own' = [own EXCEPT ![e][p] = s] /\ "live" \in SessionStates
      /\ UNCHANGED <<state, tunnel, tunFile, attached, down, starts>>
    BY DEF Established, tunVars, callVars, SessionStates
<1>3. /\ sess' \in [Engines -> [Sessions -> SessionStates]]
      /\ \A t \in Sessions \ {s} : sess'[e][t] = sess[e][t]
      /\ \A d \in Engines \ {e} : sess'[d] = sess[d]
    BY <1>2, Update2
<1>4. /\ own' \in [Engines -> [Builders -> Sessions \cup {None}]] /\ own'[e][p] = s
      /\ \A q \in Builders \ {p} : own'[e][q] = own[e][q]
      /\ \A d \in Engines \ {e} : own'[d] = own[d]
    BY <1>2, OwnSet
<1>5. CASE p = "start"
    <2>1. /\ pc[e].start = "dial" /\ Goto(e, "start", "publish") /\ "publish" \in StartPCs
        BY <1>2, <1>5 DEF Established, StartPCs
    <2>2. /\ pc' \in [Engines -> PcType] /\ pc'[e].start = "publish"
          /\ pc'[e].stop = pc[e].stop /\ pc'[e].watch = pc[e].watch /\ pc'[e].stats = pc[e].stats
          /\ \A d \in Engines \ {e} : pc'[d] = pc[d]
        BY <2>1, GotoStart
    <2>3. EngineTypes' /\ \A d \in Engines \ {e} : Same(d)
        BY <1>2, <1>3, <1>4, <2>2 DEF Same
    <2>4. own'[e]["start"] = s /\ own'[e]["watch"] = own[e]["watch"]
        BY <1>4, <1>5 DEF Builders
    <2>5. Alone(e)' /\ Vacant(e)'
        BY <1>1, <1>2, <2>1, <2>2, <2>4 DEF EngineInv, Alone, Quiet, Vacant
    <2>6. OwnedBy(e)'
        BY <1>1, <1>2, <1>3, <2>1, <2>2, <2>4 DEF EngineInv, OwnedBy
    <2>7. Wired(e)'
        BY <1>1, <1>2, <2>1, <2>2, <2>4 DEF EngineInv, Wired, Vacant
    <2> QED
        BY <2>3, <2>5, <2>6, <2>7, OneEngineSteps DEF EngineInv
<1>6. CASE p = "watch"
    <2>1. /\ pc[e].watch = "dial" /\ Goto(e, "watch", "forward") /\ "forward" \in WatchPCs
        BY <1>2, <1>6 DEF Established, WatchPCs
    <2>2. /\ pc' \in [Engines -> PcType] /\ pc'[e].watch = "forward"
          /\ pc'[e].stop = pc[e].stop /\ pc'[e].start = pc[e].start /\ pc'[e].stats = pc[e].stats
          /\ \A d \in Engines \ {e} : pc'[d] = pc[d]
        BY <2>1, GotoWatch
    <2>3. EngineTypes' /\ \A d \in Engines \ {e} : Same(d)
        BY <1>2, <1>3, <1>4, <2>2 DEF Same
    <2>4. own'[e]["watch"] = s /\ own'[e]["start"] = own[e]["start"]
        BY <1>4, <1>6 DEF Builders
    <2>5. Alone(e)' /\ Vacant(e)'
        BY <1>1, <1>2, <2>1, <2>2, <2>4 DEF EngineInv, Alone, Quiet, Vacant
    <2>6. OwnedBy(e)'
        BY <1>1, <1>2, <1>3, <2>1, <2>2, <2>4 DEF EngineInv, OwnedBy
    <2>7. Wired(e)'
        BY <1>1, <1>2, <2>1, <2>2, <2>4 DEF EngineInv, Wired, Vacant
    <2> QED
        BY <2>3, <2>5, <2>6, <2>7, OneEngineSteps DEF EngineInv
<1> QED
    BY <1>5, <1>6 DEF Builders

\* Start publishes the session it made; there was no tunnel.
LEMMA StartPublishKeeps ==
    ASSUME MobileInv, NEW e \in Engines, StartPublish(e)
    PROVE  MobileInv'
<1> USE DEF MobileInv, EngineTypes
<1>1. EngineInv(e)
    OBVIOUS
<1>2. PICK s \in Sessions : s = own[e]["start"] /\ pc[e].start = "publish"
    BY <1>1 DEF StartPublish, EngineInv, Vacant
<1>3. /\ tunnel' = [tunnel EXCEPT ![e] = s] /\ state' = [state EXCEPT ![e] = "connected"]
      /\ own' = [own EXCEPT ![e]["start"] = None]
      /\ Goto(e, "start", "spawn")
      /\ UNCHANGED <<sess, tunFile, attached, down, starts>>
    BY <1>2 DEF StartPublish, tunVars, callVars
<1>4. "spawn" \in StartPCs /\ "connected" \in EngineStates /\ "start" \in Builders
      /\ "watch" \in Builders
    BY DEF StartPCs, EngineStates, Builders
<1>5. /\ pc' \in [Engines -> PcType] /\ pc'[e].start = "spawn"
      /\ pc'[e].stop = pc[e].stop /\ pc'[e].watch = pc[e].watch /\ pc'[e].stats = pc[e].stats
      /\ \A d \in Engines \ {e} : pc'[d] = pc[d]
    BY <1>3, <1>4, GotoStart
<1>6. /\ own' \in [Engines -> [Builders -> Sessions \cup {None}]]
      /\ own'[e]["watch"] = own[e]["watch"]
      /\ \A d \in Engines \ {e} : own'[d] = own[d]
    BY <1>3, <1>4, OwnSet
<1>7. EngineTypes'
    BY <1>3, <1>4, <1>5, <1>6
<1>8. \A d \in Engines \ {e} : Same(d)
    BY <1>3, <1>5, <1>6 DEF Same
<1>9. tunnel'[e] = s /\ state'[e] = "connected" /\ s # None
    BY <1>3, BoundsAssumption DEF Sessions, None
<1>10. tunnel[e] = None /\ Quiet(e)
    BY <1>1, <1>2 DEF EngineInv, Vacant, Alone
<1>11. Alone(e)'
    BY <1>1, <1>2, <1>3, <1>5 DEF EngineInv, Alone, Quiet
<1>12. Vacant(e)'
    BY <1>5, <1>9, <1>10 DEF Vacant, Quiet
<1>13. OwnedBy(e)'
    BY <1>1, <1>2, <1>3, <1>5, <1>6, <1>9, <1>10 DEF EngineInv, OwnedBy, None, Sessions
<1>14. Wired(e)'
    BY <1>1, <1>3, <1>5, <1>6, <1>10 DEF EngineInv, Wired, Quiet
<1> QED
    BY <1>7, <1>8, <1>11, <1>12, <1>13, <1>14, OneEngineSteps DEF EngineInv

\* Start spawns the goroutines, and returns without a TUN file to wire.
LEMMA StartSpawnKeeps ==
    ASSUME MobileInv, NEW e \in Engines, StartSpawn(e)
    PROVE  MobileInv'
<1> USE DEF MobileInv, EngineTypes
<1>1. EngineInv(e)
    OBVIOUS
<1>2. PICK l \in StartPCs :
          /\ l = IF UseTUN THEN "attach" ELSE "idle"
          /\ pc[e].start = "spawn"
          /\ pc' = [pc EXCEPT ![e] = [pc[e] EXCEPT !.start = l, !.watch = "watch", !.stats = "run"]]
    BY DEF StartSpawn, StartPCs
<1>3. UNCHANGED <<state, tunnel, sess, attached, tunFile, own, down, starts>>
    BY DEF StartSpawn, buildVars, tunVars, callVars
<1>4. ASSUME NEW r \in PcType
      PROVE  LET s == [r EXCEPT !.start = l, !.watch = "watch", !.stats = "run"] IN
             /\ s \in PcType /\ s.start = l /\ s.watch = "watch" /\ s.stop = r.stop
    BY DEF PcType, WatchPCs
<1>5. /\ pc'[e] \in PcType /\ pc'[e].start = l /\ pc'[e].watch = "watch"
      /\ pc'[e].stop = pc[e].stop /\ \A d \in Engines \ {e} : pc'[d] = pc[d]
    BY <1>2, <1>4
<1>6. pc' \in [Engines -> PcType]
    BY <1>2, <1>5
<1>7. EngineTypes' /\ \A d \in Engines \ {e} : Same(d)
    BY <1>3, <1>5, <1>6 DEF Same
<1>8. l \in {"attach", "idle"} /\ (UseTUN => l = "attach")
    BY <1>2
<1>9. Alone(e)'
    BY <1>1, <1>2, <1>3, <1>5, <1>8 DEF EngineInv, Alone, Quiet
<1>10. Vacant(e)'
    BY <1>1, <1>2, <1>3, <1>5, <1>8 DEF EngineInv, Vacant
<1>11. OwnedBy(e)'
    BY <1>1, <1>2, <1>3, <1>5, <1>8 DEF EngineInv, OwnedBy, Alone, Quiet
<1>12. Wired(e)'
    BY <1>1, <1>2, <1>3, <1>5, <1>8 DEF EngineInv, Wired
<1> QED
    BY <1>7, <1>9, <1>10, <1>11, <1>12, OneEngineSteps DEF EngineInv

\* StartWithTUN reads the tunnel, gives up, or wires it.
LEMMA StartForwardKeeps ==
    ASSUME MobileInv, NEW e \in Engines,
           StartAttach(e) \/ StartForward(e) \/ StartForwardFail(e)
    PROVE  MobileInv'
<1> USE DEF MobileInv, EngineTypes
<1>1. EngineInv(e)
    OBVIOUS
<1>2. PICK l \in {"abort", "forward", "idle"}, s \in Sessions \cup {None} :
          /\ Goto(e, "start", l) /\ own' = [own EXCEPT ![e]["start"] = s]
          /\ pc[e].start \in {"attach", "forward"}
          /\ l = "forward" => s = tunnel[e]
          /\ l = "idle" => StartForward(e)
          /\ l # "idle" => attached' = attached
          /\ UNCHANGED <<state, tunnel, sess, tunFile, down, starts>>
    <2>1. CASE StartAttach(e)
        BY <2>1 DEF StartAttach, tunVars, callVars
    <2>2. CASE StartForward(e)
        BY <2>2 DEF StartForward, tunVars, callVars
    <2>3. CASE StartForwardFail(e)
        BY <2>3 DEF StartForwardFail, tunVars, callVars
    <2> QED
        BY <2>1, <2>2, <2>3
<1>3. l \in StartPCs /\ "start" \in Builders /\ "watch" \in Builders
    BY DEF StartPCs, Builders
<1>4. /\ pc' \in [Engines -> PcType] /\ pc'[e].start = l
      /\ pc'[e].stop = pc[e].stop /\ pc'[e].watch = pc[e].watch /\ pc'[e].stats = pc[e].stats
      /\ \A d \in Engines \ {e} : pc'[d] = pc[d]
    BY <1>2, <1>3, GotoStart
<1>5. /\ own' \in [Engines -> [Builders -> Sessions \cup {None}]]
      /\ own'[e]["start"] = s /\ own'[e]["watch"] = own[e]["watch"]
      /\ \A d \in Engines \ {e} : own'[d] = own[d]
    BY <1>2, <1>3, OwnSet
<1>6. /\ attached' \in [Engines -> [Sessions -> Builders \cup {Nil}]]
      /\ \A t \in Sessions : attached[e][t] # Nil => attached'[e][t] # Nil
      /\ l = "idle" /\ own[e]["start"] \in Sessions => attached'[e][own[e]["start"]] # Nil
      /\ \A d \in Engines \ {e} : attached'[d] = attached[d]
    <2>1. CASE l # "idle"
        BY <1>2, <2>1
    <2>2. CASE l = "idle"
        <3>1. PICK t \in Sessions \cup {None} : t = own[e]["start"]
            BY <1>3
        <3>2. attached' = [attached EXCEPT ![e][t] = "start"]
            BY <1>2, <2>2, <3>1 DEF StartForward, AddForwarder
        <3>3. CASE t \in Sessions
            BY <1>3, <3>1, <3>2, <3>3, Update2 DEF Nil
        <3>4. CASE t \notin Sessions
            <4>1. [attached[e] EXCEPT ![t] = "start"] = attached[e]
                BY <3>4
            <4>2. attached' = attached
                BY <3>2, <4>1
            <4> QED
                BY <3>1, <3>4, <4>2
        <3> QED
            BY <3>3, <3>4
    <2> QED
        BY <2>1, <2>2
<1>7. EngineTypes' /\ \A d \in Engines \ {e} : Same(d)
    BY <1>2, <1>4, <1>5, <1>6 DEF Same
<1>8. Alone(e)'
    BY <1>1, <1>2, <1>4 DEF EngineInv, Alone, Quiet
<1>9. Vacant(e)'
    BY <1>1, <1>2, <1>4, <1>5 DEF EngineInv, Vacant
<1>10. OwnedBy(e)'
    BY <1>1, <1>2, <1>4, <1>5 DEF EngineInv, OwnedBy
<1>11. l = "idle" => pc[e].start = "forward"
    BY <1>2 DEF StartForward
<1>12. Wired(e)'
    <2>1. tunnel[e] \in Sessions \cup {None}
        OBVIOUS
    <2>2. (tunnel[e] # None /\ tunFile[e] # None /\ attached'[e][tunnel[e]] = Nil) =>
              l = "abort" \/ (l = "forward" /\ s = tunnel[e])
        BY <1>1, <1>2, <1>6, <1>11, <2>1 DEF EngineInv, Wired
    <2>3. pc[e].watch = "publish" => own[e]["watch"] \in Sessions
        BY <1>1 DEF EngineInv, Vacant
    <2>4. (pc[e].watch = "publish" /\ tunFile[e] # None) => attached'[e][own[e]["watch"]] # Nil
        BY <1>1, <1>6, <2>3 DEF EngineInv, Wired
    <2> QED
        BY <1>1, <1>2, <1>4, <1>5, <2>2, <2>4 DEF EngineInv, Wired
<1> QED
    BY <1>7, <1>8, <1>9, <1>10, <1>12, OneEngineSteps DEF EngineInv

-----------------------------------------------------------------------------
(* Stop, called by the native side or by a StartWithTUN that gives up.     *)

\* Stop closes the session that is the tunnel, and forgets the TUN file.
LEMMA StopLockKeeps ==
    ASSUME MobileInv, NEW e \in Engines, NEW p \in {"start", "stop"}, StopLock(e, p)
    PROVE  MobileInv'
<1> USE DEF MobileInv, EngineTypes
<1>1. EngineInv(e)
    OBVIOUS
<1>2. /\ CloseSession(e, tunnel[e]) /\ tunnel[e] \in Sessions \cup {None}
      /\ tunnel' = [tunnel EXCEPT ![e] = None] /\ tunFile' = [tunFile EXCEPT ![e] = None]
      /\ state' = [state EXCEPT ![e] = "disconnected"] /\ Goto(e, p, "stopwait")
      /\ UNCHANGED <<attached, own, starts, down>>
    BY DEF StopLock, buildVars
<1>3. /\ p = "start" => pc[e].start = "abort"
      /\ p = "stop" => (StopDuringStart \/ pc[e].start = "idle")
    BY DEF StopLock
<1>4. /\ sess' \in [Engines -> [Sessions -> SessionStates]]
      /\ \A t \in Sessions : sess'[e][t] = IF t = tunnel[e] THEN "closed" ELSE sess[e][t]
      /\ \A d \in Engines \ {e} : sess'[d] = sess[d]
    BY <1>2, Closing
<1>5. "stopwait" \in StartPCs /\ "disconnected" \in EngineStates
    BY DEF StartPCs, EngineStates
<1>6. /\ pc' \in [Engines -> PcType]
      /\ pc'[e].start = IF p = "start" THEN "stopwait" ELSE pc[e].start
      /\ pc'[e].stop = IF p = "stop" THEN "stopwait" ELSE pc[e].stop
      /\ pc'[e].watch = pc[e].watch /\ pc'[e].stats = pc[e].stats
      /\ \A d \in Engines \ {e} : pc'[d] = pc[d]
    <2>1. CASE p = "start"
        BY <1>2, <1>5, <2>1, GotoStart
    <2>2. CASE p = "stop"
        BY <1>2, <2>2, GotoStop
    <2> QED
        BY <2>1, <2>2
<1>7. EngineTypes' /\ \A d \in Engines \ {e} : Same(d)
    BY <1>2, <1>4, <1>5, <1>6 DEF Same
<1>8. tunnel'[e] = None /\ tunFile'[e] = None /\ state'[e] = "disconnected"
    BY <1>2
<1>9. Alone(e)'
    BY <1>1, <1>2, <1>3, <1>6 DEF EngineInv, Alone, Quiet
<1>10. Vacant(e)'
    BY <1>1, <1>2, <1>6, <1>8 DEF EngineInv, Vacant
<1>11. OwnedBy(e)'
    BY <1>1, <1>2, <1>3, <1>4, <1>6 DEF EngineInv, OwnedBy
<1>12. Wired(e)'
    BY <1>8 DEF Wired
<1> QED
    BY <1>7, <1>9, <1>10, <1>11, <1>12, OneEngineSteps DEF EngineInv

\* Stop returns when the goroutines have.
LEMMA StopReturnKeeps ==
    ASSUME MobileInv, NEW e \in Engines, NEW p \in {"start", "stop"}, StopReturn(e, p)
    PROVE  MobileInv'
<1> USE DEF MobileInv, EngineTypes
<1>1. EngineInv(e)
    OBVIOUS
<1>2. /\ Quiet(e) /\ Goto(e, p, "idle") /\ down' = [down EXCEPT ![e] = TRUE]
      /\ p = "start" => pc[e].start = "stopwait"
      /\ p = "stop" => pc[e].stop = "stopwait"
      /\ UNCHANGED <<state, tunnel, tunFile, sess, attached, own, starts>>
    BY DEF StopReturn, buildVars, GoroutinesDone, Quiet
<1>3. "idle" \in StartPCs
    BY DEF StartPCs
<1>4. /\ pc' \in [Engines -> PcType]
      /\ pc'[e].start = IF p = "start" THEN "idle" ELSE pc[e].start
      /\ pc'[e].stop = IF p = "stop" THEN "idle" ELSE pc[e].stop
      /\ pc'[e].watch = pc[e].watch /\ pc'[e].stats = pc[e].stats
      /\ \A d \in Engines \ {e} : pc'[d] = pc[d]
    <2>1. CASE p = "start"
        BY <1>2, <1>3, <2>1, GotoStart
    <2>2. CASE p = "stop"
        BY <1>2, <2>2, GotoStop
    <2> QED
        BY <2>1, <2>2
<1>5. EngineTypes' /\ \A d \in Engines \ {e} : Same(d)
    BY <1>2, <1>4 DEF Same
<1>6. Alone(e)'
    BY <1>1, <1>2, <1>4 DEF EngineInv, Alone, Quiet
<1>7. Vacant(e)'
    BY <1>1, <1>2, <1>4 DEF EngineInv, Vacant
<1>8. OwnedBy(e)'
    BY <1>1, <1>2, <1>4 DEF EngineInv, OwnedBy
<1>9. Wired(e)'
    BY <1>1, <1>2, <1>4 DEF EngineInv, Wired
<1> QED
    BY <1>5, <1>6, <1>7, <1>8, <1>9, OneEngineSteps DEF EngineInv

-----------------------------------------------------------------------------
(* The watcher and the stats loop.                                         *)

\* The watcher moves on and changes no session; the stats loop ends.
LEMMA WatchMoves ==
    ASSUME MobileInv, NEW e \in Engines,
           Watch(e) \/ SessionEnded(e) \/ Cancelled(e) \/ Timer(e) \/ RetryFail(e) \/ StatsExit(e)
    PROVE  MobileInv'
<1> USE DEF MobileInv, EngineTypes
<1>1. EngineInv(e)
    OBVIOUS
<1>2. UNCHANGED <<state, tunnel, tunFile, sess, attached, down, starts>>
    BY DEF Watch, SessionEnded, Cancelled, Timer, RetryFail, StatsExit, tunVars, callVars
<1>3. CASE StatsExit(e)
    <2>1. pc' = [pc EXCEPT ![e] = [pc[e] EXCEPT !.stats = "none"]] /\ own' = own
        BY <1>3 DEF StatsExit, Goto, buildVars
    <2>2. ASSUME NEW r \in PcType
          PROVE  LET s == [r EXCEPT !.stats = "none"] IN
                 /\ s \in PcType /\ s.start = r.start /\ s.watch = r.watch /\ s.stop = r.stop
                 /\ s.stats = "none"
        BY DEF PcType
    <2>3. /\ pc'[e] \in PcType /\ pc'[e].start = pc[e].start /\ pc'[e].watch = pc[e].watch
          /\ pc'[e].stop = pc[e].stop /\ pc'[e].stats = "none"
          /\ \A d \in Engines \ {e} : pc'[d] = pc[d]
        BY <2>1, <2>2
    <2>4. pc' \in [Engines -> PcType]
        BY <2>1, <2>3
    <2>5. EngineTypes' /\ \A d \in Engines \ {e} : Same(d)
        BY <1>2, <2>1, <2>3, <2>4 DEF Same
    <2>6. EngineInv(e)'
        BY <1>1, <1>2, <2>1, <2>3 DEF EngineInv, Alone, Quiet, Vacant, OwnedBy, Wired
    <2> QED
        BY <2>5, <2>6, OneEngineSteps
<1>4. CASE ~StatsExit(e)
    <2>1. PICK l \in {"none", "wait", "clean", "sleep", "dial"} :
              /\ Goto(e, "watch", l)
              /\ pc[e].watch \notin {"none", "forward", "publish"}
              /\ l \in {"sleep", "dial"} => tunnel[e] = None
              /\ own' = own \/ \E s \in Sessions \cup {None} : own' = [own EXCEPT ![e]["watch"] = s]
        <3>1. CASE Watch(e)
            BY <3>1 DEF Watch
        <3>2. CASE SessionEnded(e)
            BY <3>2, BoundsAssumption DEF SessionEnded, None
        <3>3. CASE Cancelled(e) \/ Timer(e) \/ RetryFail(e)
            BY <1>1, <3>3 DEF Cancelled, Timer, RetryFail, Sleep, EngineInv, Vacant, buildVars
        <3> QED
            BY <1>4, <3>1, <3>2, <3>3
    <2>2. l \in WatchPCs /\ "start" \in Builders /\ "watch" \in Builders
        BY DEF WatchPCs, Builders
    <2>3. /\ pc' \in [Engines -> PcType] /\ pc'[e].watch = l
          /\ pc'[e].start = pc[e].start /\ pc'[e].stop = pc[e].stop /\ pc'[e].stats = pc[e].stats
          /\ \A d \in Engines \ {e} : pc'[d] = pc[d]
        BY <2>1, <2>2, GotoWatch
    <2>4. /\ own' \in [Engines -> [Builders -> Sessions \cup {None}]]
          /\ own'[e]["start"] = own[e]["start"]
          /\ \A d \in Engines \ {e} : own'[d] = own[d]
        <3>1. CASE own' = own
            BY <2>2, <3>1
        <3>2. CASE \E s \in Sessions \cup {None} : own' = [own EXCEPT ![e]["watch"] = s]
            <4>1. PICK s \in Sessions \cup {None} : own' = [own EXCEPT ![e]["watch"] = s]
                BY <3>2
            <4>2. "start" # "watch"
                OBVIOUS
            <4> QED
                BY <2>2, <4>1, <4>2, OwnSet
        <3> QED
            BY <2>1, <3>1, <3>2
    <2>5. EngineTypes' /\ \A d \in Engines \ {e} : Same(d)
        BY <1>2, <2>3, <2>4 DEF Same
    <2>6. Alone(e)'
        BY <1>1, <1>2, <2>1, <2>3 DEF EngineInv, Alone, Quiet
    <2>7. Vacant(e)'
        BY <1>1, <1>2, <2>1, <2>3, <2>4 DEF EngineInv, Vacant
    <2>8. OwnedBy(e)'
        BY <1>1, <1>2, <2>1, <2>3, <2>4 DEF EngineInv, OwnedBy
    <2>9. Wired(e)'
        BY <1>1, <1>2, <2>1, <2>3, <2>4 DEF EngineInv, Wired
    <2> QED
        BY <2>5, <2>6, <2>7, <2>8, <2>9, OneEngineSteps DEF EngineInv
<1> QED
    BY <1>3, <1>4

\* The session that ended is closed, or the new one because its forwarder
\* could not be made.
LEMMA WatchCloses ==
    ASSUME MobileInv, NEW e \in Engines, Clean(e) \/ WatchForwardFail(e)
    PROVE  MobileInv'
<1> USE DEF MobileInv, EngineTypes
<1>1. EngineInv(e)
    OBVIOUS
<1>2. "sleep" \in WatchPCs /\ "start" \in Builders /\ "watch" \in Builders
      /\ "reconnecting" \in EngineStates
    BY DEF WatchPCs, Builders, EngineStates
<1>3. PICK s \in Sessions \cup {None} :
          /\ CloseSession(e, s)
          /\ \/ s = tunnel[e] /\ own' = own /\ pc[e].watch = "clean"
             \/ /\ s = own[e]["watch"] /\ tunnel[e] = None /\ pc[e].watch = "forward"
                /\ own' = [own EXCEPT ![e]["watch"] = None]
          /\ tunnel' = [tunnel EXCEPT ![e] = None]
          /\ \/ state' = [state EXCEPT ![e] = "reconnecting"]
             \/ state' = state /\ tunnel[e] = None
          /\ Goto(e, "watch", "sleep")
          /\ UNCHANGED <<tunFile, attached, down, starts>>
    <2>1. CASE Clean(e)
        BY <2>1 DEF Clean, Cleaned, Sleep, buildVars, callVars
    <2>2. CASE WatchForwardFail(e)
        <3>1. tunnel[e] = None /\ pc[e].watch = "forward"
            BY <1>1, <2>2 DEF WatchForwardFail, EngineInv, Vacant
        <3>2. tunnel' = [tunnel EXCEPT ![e] = None]
            BY <2>2, <3>1 DEF WatchForwardFail
        <3>3. own[e]["watch"] \in Sessions \cup {None}
            BY <1>2
        <3> QED
            BY <2>2, <3>1, <3>2, <3>3 DEF WatchForwardFail, Dropped, Sleep, callVars
    <2> QED
        BY <2>1, <2>2
<1>4. /\ sess' \in [Engines -> [Sessions -> SessionStates]]
      /\ \A t \in Sessions : sess'[e][t] = IF t = s THEN "closed" ELSE sess[e][t]
      /\ \A d \in Engines \ {e} : sess'[d] = sess[d]
    BY <1>3, Closing
<1>5. /\ pc' \in [Engines -> PcType] /\ pc'[e].watch = "sleep"
      /\ pc'[e].start = pc[e].start /\ pc'[e].stop = pc[e].stop /\ pc'[e].stats = pc[e].stats
      /\ \A d \in Engines \ {e} : pc'[d] = pc[d]
    BY <1>2, <1>3, GotoWatch
<1>6. /\ own' \in [Engines -> [Builders -> Sessions \cup {None}]]
      /\ own'[e]["start"] = own[e]["start"]
      /\ \A d \in Engines \ {e} : own'[d] = own[d]
    <2>1. CASE own' = own
        BY <1>2, <2>1
    <2>2. CASE own' = [own EXCEPT ![e]["watch"] = None]
        <3>1. None \in Sessions \cup {None} /\ "start" # "watch"
            OBVIOUS
        <3> QED
            BY <1>2, <2>2, <3>1, OwnSet
    <2> QED
        BY <1>3, <2>1, <2>2
<1>7. EngineTypes' /\ \A d \in Engines \ {e} : Same(d)
    <2>1. /\ state' \in [Engines -> EngineStates]
          /\ \A d \in Engines \ {e} : state'[d] = state[d]
        BY <1>2, <1>3
    <2>2. /\ tunnel' \in [Engines -> Sessions \cup {None}]
          /\ \A d \in Engines \ {e} : tunnel'[d] = tunnel[d]
        BY <1>2, <1>3
    <2> QED
        BY <1>2, <1>3, <1>4, <1>5, <1>6, <2>1, <2>2 DEF Same
<1>8. tunnel'[e] = None /\ state'[e] # "connected"
    BY <1>1, <1>3 DEF EngineInv, Vacant
<1>9. Alone(e)'
    BY <1>1, <1>3, <1>5 DEF EngineInv, Alone, Quiet
<1>10. Vacant(e)'
    BY <1>1, <1>5, <1>6, <1>8 DEF EngineInv, Vacant
<1>11. OwnedBy(e)'
    <2>1. ASSUME NEW t \in Sessions, sess'[e][t] \in {"live", "dead"}
          PROVE  /\ t # s /\ sess[e][t] = sess'[e][t]
                 /\ s = tunnel[e] \/ (tunnel[e] = None /\ s = own[e]["watch"])
        BY <1>3, <1>4, <2>1
    <2>2. ASSUME NEW t \in Sessions, sess'[e][t] \in {"live", "dead"}
          PROVE  pc[e].start = "publish" /\ t = own[e]["start"]
        <3>1. t # None
            BY BoundsAssumption DEF Sessions, None
        <3>2. pc[e].watch \in {"forward", "publish"} => s = own[e]["watch"]
            BY <1>3
        <3> QED
            BY <1>1, <2>1, <2>2, <3>1, <3>2 DEF EngineInv, OwnedBy
    <2> QED
        BY <1>5, <1>6, <2>2 DEF OwnedBy
<1>12. Wired(e)'
    BY <1>1, <1>3, <1>5, <1>8 DEF EngineInv, Wired
<1> QED
    BY <1>7, <1>9, <1>10, <1>11, <1>12, OneEngineSteps DEF EngineInv

\* The watcher wires its session to the TUN file, if there is one.
LEMMA WatchForwardKeeps ==
    ASSUME MobileInv, NEW e \in Engines, WatchForward(e)
    PROVE  MobileInv'
<1> USE DEF MobileInv, EngineTypes
<1>1. EngineInv(e)
    OBVIOUS
<1>2. PICK s \in Sessions : s = own[e]["watch"] /\ pc[e].watch = "forward"
    BY <1>1 DEF WatchForward, EngineInv, Vacant
<1>3. /\ Goto(e, "watch", "publish") /\ "publish" \in WatchPCs
      /\ UNCHANGED <<state, tunnel, tunFile, sess, own, down, starts>>
    BY DEF WatchForward, WatchPCs, buildVars, callVars
<1>4. /\ pc' \in [Engines -> PcType] /\ pc'[e].watch = "publish"
      /\ pc'[e].start = pc[e].start /\ pc'[e].stop = pc[e].stop /\ pc'[e].stats = pc[e].stats
      /\ \A d \in Engines \ {e} : pc'[d] = pc[d]
    BY <1>3, GotoWatch
<1>5. /\ attached' \in [Engines -> [Sessions -> Builders \cup {Nil}]]
      /\ tunFile[e] # None => attached'[e][s] # Nil
      /\ \A d \in Engines \ {e} : attached'[d] = attached[d]
    <2>1. "watch" \in Builders \cup {Nil} /\ "watch" # Nil
        BY DEF Builders, Nil
    <2>2. CASE Rewire(e)
        <3>1. attached' = [attached EXCEPT ![e][s] = "watch"]
            BY <1>2, <2>2 DEF WatchForward, AddForwarder
        <3> QED
            BY <2>1, <3>1, Update2
    <2>3. CASE ~Rewire(e)
        BY <2>3 DEF WatchForward, Rewire
    <2> QED
        BY <2>2, <2>3
<1>6. EngineTypes' /\ \A d \in Engines \ {e} : Same(d)
    BY <1>3, <1>4, <1>5 DEF Same
<1>7. tunnel[e] = None
    BY <1>1, <1>2 DEF EngineInv, Vacant
<1>8. Alone(e)' /\ Wired(e)'
    BY <1>1, <1>2, <1>3, <1>4, <1>5, <1>7 DEF EngineInv, Alone, Quiet, Wired
<1>9. Vacant(e)' /\ OwnedBy(e)'
    BY <1>1, <1>2, <1>3, <1>4 DEF EngineInv, Vacant, OwnedBy
<1> QED
    BY <1>6, <1>8, <1>9, OneEngineSteps DEF EngineInv

\* The watcher publishes its session; there was no tunnel.
LEMMA WatchPublishKeeps ==
    ASSUME MobileInv, NEW e \in Engines, WatchPublish(e)
    PROVE  MobileInv'
<1> USE DEF MobileInv, EngineTypes
<1>1. EngineInv(e)
    OBVIOUS
<1>2. PICK s \in Sessions : s = own[e]["watch"] /\ pc[e].watch = "publish"
    BY <1>1 DEF WatchPublish, EngineInv, Vacant
<1>3. /\ tunnel' = [tunnel EXCEPT ![e] = s] /\ state' = [state EXCEPT ![e] = "connected"]
      /\ own' = [own EXCEPT ![e]["watch"] = None]
      /\ Goto(e, "watch", "watch")
      /\ UNCHANGED <<sess, tunFile, attached, down, starts>>
    BY <1>2 DEF WatchPublish, tunVars, callVars
<1>4. "watch" \in WatchPCs /\ "connected" \in EngineStates /\ "start" \in Builders
      /\ "watch" \in Builders
    BY DEF WatchPCs, EngineStates, Builders
<1>5. /\ pc' \in [Engines -> PcType] /\ pc'[e].watch = "watch"
      /\ pc'[e].stop = pc[e].stop /\ pc'[e].start = pc[e].start /\ pc'[e].stats = pc[e].stats
      /\ \A d \in Engines \ {e} : pc'[d] = pc[d]
    BY <1>3, <1>4, GotoWatch
<1>6. /\ own' \in [Engines -> [Builders -> Sessions \cup {None}]]
      /\ own'[e]["start"] = own[e]["start"]
      /\ \A d \in Engines \ {e} : own'[d] = own[d]
    BY <1>3, <1>4, OwnSet
<1>7. EngineTypes' /\ \A d \in Engines \ {e} : Same(d)
    BY <1>3, <1>4, <1>5, <1>6 DEF Same
<1>8. tunnel'[e] = s /\ state'[e] = "connected" /\ s # None
    BY <1>3, BoundsAssumption DEF Sessions, None
<1>9. tunnel[e] = None /\ pc[e].start \notin {"dial", "publish"}
    BY <1>1, <1>2 DEF EngineInv, Vacant, Alone, Quiet
<1>10. Alone(e)'
    BY <1>1, <1>2, <1>3, <1>5 DEF EngineInv, Alone, Quiet
<1>11. Vacant(e)'
    BY <1>5, <1>8, <1>9 DEF Vacant
<1>12. OwnedBy(e)'
    BY <1>1, <1>2, <1>3, <1>5, <1>6, <1>8, <1>9 DEF EngineInv, OwnedBy, None, Sessions
<1>13. Wired(e)'
    BY <1>1, <1>2, <1>3, <1>5, <1>8 DEF EngineInv, Wired
<1> QED
    BY <1>7, <1>10, <1>11, <1>12, <1>13, OneEngineSteps DEF EngineInv

-----------------------------------------------------------------------------
(* The theorems about the engine.                                          *)

\* Every step of the engines keeps the invariant.
LEMMA MobileNext == NativeCalls /\ MobileInv /\ [Next]_vars => MobileInv'
<1> SUFFICES ASSUME NativeCalls, MobileInv, [Next]_vars PROVE MobileInv'
    OBVIOUS
<1>1. CASE UNCHANGED vars
    BY <1>1 DEF vars, tunVars, buildVars, chVars, callVars, MobileInv, EngineTypes, EngineInv,
                Alone, Quiet, Vacant, OwnedBy, Wired
<1>2. ASSUME NEW e \in Engines, StartStep(e) PROVE MobileInv'
    BY <1>2, StartEnters, StartUndoKeeps, StartPublishKeeps, StartSpawnKeeps, StartForwardKeeps,
       DialKeeps, EstablishedKeeps, StopLockKeeps DEF StartStep, Builders
<1>3. ASSUME NEW e \in Engines, WatchStep(e) PROVE MobileInv'
    BY <1>3, WatchMoves, WatchCloses, WatchForwardKeeps, WatchPublishKeeps, DialKeeps,
       EstablishedKeeps DEF WatchStep, Builders
<1>4. ASSUME NEW e \in Engines,
             \/ StartCall(e) \/ StopLock(e, "stop") \/ StopStep(e) \/ StatsExit(e)
             \/ \E s \in Sessions : SessionDies(e, s)
      PROVE  MobileInv'
    BY <1>4, StartCallKeeps, StopLockKeeps, StopReturnKeeps, WatchMoves, DialKeeps DEF StopStep
<1>5. ASSUME NEW e \in Engines, NotifyNetworkChange(e) PROVE MobileInv'
    <2>1. tunnel[e] \in Sessions
        BY <1>5 DEF NotifyNetworkChange, MobileInv, EngineTypes
    <2> QED
        BY <1>4, <1>5, <2>1 DEF NotifyNetworkChange
<1> QED
    BY <1>1, <1>2, <1>3, <1>4, <1>5 DEF Next

\* No session is leaked, however often the engine is started, stopped and
\* reconnected, for any number of engines.
THEOREM NoSessionLeaks == NativeCalls => (Spec => []SessionOwned)
<1> SUFFICES ASSUME NativeCalls PROVE Spec => []SessionOwned
    OBVIOUS
<1>1. MobileInv /\ [Next]_vars => MobileInv'
    BY MobileNext
<1>2. MobileInv => SessionOwned
    BY DEF MobileInv, EngineInv, OwnedBy, SessionOwned
<1> QED
    BY <1>1, <1>2, MobileInit, PTL DEF Spec

\* A connected engine with a TUN file forwards its packets through the
\* tunnel it has, also after reconnects and failed starts.
THEOREM TunnelIsWired == NativeCalls => (Spec => []Forwarding)
<1> SUFFICES ASSUME NativeCalls PROVE Spec => []Forwarding
    OBVIOUS
<1>1. MobileInv /\ [Next]_vars => MobileInv'
    BY MobileNext
<1>2. MobileInv => Forwarding
    BY DEF MobileInv, EngineInv, Wired, Vacant, Forwarding
<1> QED
    BY <1>1, <1>2, MobileInit, PTL DEF Spec

\* Start spawns its goroutines beside no others, and the state that is
\* reported to the platform is "connected" exactly when there is a tunnel.
THEOREM OneWatcher == NativeCalls => (Spec => SpawnOnce /\ []StateMatchesTunnel)
<1> SUFFICES ASSUME NativeCalls PROVE Spec => SpawnOnce /\ []StateMatchesTunnel
    OBVIOUS
<1>1. MobileInv /\ [Next]_vars => MobileInv'
    BY MobileNext
<1>2. MobileInv => StateMatchesTunnel
    BY DEF MobileInv, EngineInv, Vacant, StateMatchesTunnel
<1>3. MobileInv => (\A e \in Engines : pc[e].start = "spawn" /\ pc'[e].start # "spawn" =>
                        pc[e].watch = "none" /\ pc[e].stats = "none")
    BY DEF MobileInv, EngineInv, Alone, Quiet
<1> QED
    BY <1>1, <1>2, <1>3, MobileInit, PTL DEF Spec, SpawnOnce

-----------------------------------------------------------------------------
(***************************************************************************)
(* The forwarders of one TUN file.  Without a second forwarder beside an   *)
(* open one, a deadline in the past belongs to the one that is closing.    *)
(***************************************************************************)
FwdType == [st : {"none", "open", "closing", "closed"}, reader : {"none", "read", "done"},
            writer : {"none", "read", "done"}, out : {0, 1}]

ForwarderInv ==
    /\ fwd \in [Fwds -> FwdType]
    /\ \A f, g \in Fwds : ~Over(f) /\ ~Over(g) => f = g
    /\ deadline \in {"none", "past"}
    /\ deadline = "past" => \E f \in Fwds : fwd[f].st = "closing"
    /\ \A f \in Fwds : fwd[f].st = "open" => fwd[f].reader = "read"
    /\ ~tunOpen => \A f \in Fwds : Over(f)

\* A forwarder's loops and handlers leave the life of every forwarder as it is.
LEMMA LoopsKeep ==
    ASSUME ForwarderInv, NEW f \in Fwds, NEW r \in FwdType, fwd' = [fwd EXCEPT ![f] = r],
           r.st = fwd[f].st, r.st = "open" => r.reader = fwd[f].reader,
           UNCHANGED <<deadline, tunOpen>>
    PROVE  ForwarderInv'
<1>1. fwd' \in [Fwds -> FwdType] /\ fwd'[f] = r /\ \A g \in Fwds \ {f} : fwd'[g] = fwd[g]
    BY DEF ForwarderInv
<1>2. \A g \in Fwds : fwd'[g].st = fwd[g].st /\ (fwd[g].st = "open" => fwd'[g].reader = fwd[g].reader)
    BY <1>1
<1> QED
    BY <1>1, <1>2 DEF ForwarderInv, Over

\* A forwarder is made, starts to close or has closed.
LEMMA LivesKeep ==
    ASSUME ~Beside, ForwarderInv, NEW f \in Fwds,
           NewForwarder(f) \/ Close(f) \/ CloseReturns(f)
    PROVE  ForwarderInv'
<1> USE DEF ForwarderInv
<1>1. CASE NewForwarder(f)
    <2> DEFINE r == [st |-> "open", reader |-> "read", writer |-> "read", out |-> 0]
    <2>1. r \in FwdType /\ r.st = "open" /\ r.reader = "read"
        BY DEF FwdType
    <2>2. fwd' = [fwd EXCEPT ![f] = r] /\ tunOpen /\ UNCHANGED <<deadline, tunOpen>>
          /\ \A g \in Fwds : Over(g)
        BY <1>1 DEF NewForwarder
    <2> HIDE DEF r
    <2>3. fwd' \in [Fwds -> FwdType] /\ fwd'[f] = r /\ \A g \in Fwds \ {f} : fwd'[g] = fwd[g]
        BY <2>1, <2>2
    <2>4. deadline # "past"
        BY <2>2 DEF Over
    <2> QED
        BY <2>1, <2>2, <2>3, <2>4 DEF Over
<1>2. CASE Close(f)
    <2>1. ASSUME NEW q \in FwdType
          PROVE  LET s == [q EXCEPT !.st = "closing", !.out = 0] IN s \in FwdType /\ s.st = "closing"
        BY DEF FwdType
    <2>2. fwd'[f] = [fwd[f] EXCEPT !.st = "closing", !.out = 0] /\ fwd' = [fwd EXCEPT ![f] = fwd'[f]]
          /\ deadline' = "past" /\ tunOpen' = tunOpen /\ ~Over(f)
        BY <1>2 DEF Close, PastDeadline, Over
    <2>3. fwd'[f] \in FwdType /\ fwd'[f].st = "closing"
        <3>1. PICK q \in FwdType : q = fwd[f]
            OBVIOUS
        <3> QED
            BY <2>1, <2>2, <3>1
    <2>4. fwd' \in [Fwds -> FwdType] /\ \A g \in Fwds \ {f} : fwd'[g] = fwd[g]
        BY <2>2, <2>3
    <2>5. \A g \in Fwds \ {f} : Over(g) /\ Over(g)'
        BY <2>2, <2>4 DEF Over
    <2> QED
        BY <2>2, <2>3, <2>4, <2>5 DEF Over
<1>3. CASE CloseReturns(f)
    <2>1. ASSUME NEW q \in FwdType
          PROVE  LET s == [q EXCEPT !.st = "closed"] IN s \in FwdType /\ s.st = "closed"
        BY DEF FwdType
    <2>2. fwd'[f] = [fwd[f] EXCEPT !.st = "closed"] /\ fwd' = [fwd EXCEPT ![f] = fwd'[f]]
          /\ deadline' = "none" /\ tunOpen' = tunOpen
        BY <1>3 DEF CloseReturns, RestoredDeadline
    <2>3. fwd' \in [Fwds -> FwdType] /\ fwd'[f].st = "closed"
          /\ \A g \in Fwds \ {f} : fwd'[g] = fwd[g]
        BY <2>1, <2>2
    <2>4. \A g \in Fwds \ {f} : Over(g)' <=> Over(g)
        BY <2>3 DEF Over
    <2>5. Over(f)'
        BY <2>3 DEF Over
    <2>6. \A g, h \in Fwds : ~Over(g)' /\ ~Over(h)' => g = h
        BY <2>4, <2>5
    <2>7. \A g \in Fwds : fwd'[g].st = "open" => fwd'[g].reader = "read"
        BY <2>3
    <2> QED
        BY <2>2, <2>3, <2>4, <2>5, <2>6, <2>7
<1> QED
    BY <1>1, <1>2, <1>3

\* Every step of the forwarders keeps the invariant: what one of them does to
\* its own loops, and the engine's closing of the file.
LEMMA ForwarderNext == ~Beside /\ ForwarderInv /\ [UNext]_uvars => ForwarderInv'
<1> SUFFICES ASSUME ~Beside, ForwarderInv, [UNext]_uvars PROVE ForwarderInv'
    OBVIOUS
<1>1. CASE UNCHANGED uvars
    BY <1>1 DEF uvars, ForwarderInv, Over
<1>2. CASE EngineStops
    BY <1>2 DEF EngineStops, ForwarderInv, Over
<1>3. ASSUME NEW f \in Fwds, UNCHANGED <<deadline, tunOpen>>,
             fwd' = fwd \/ (fwd[f].st = "open" /\ fwd' = [fwd EXCEPT ![f].out = 1])
      PROVE  ForwarderInv'
    <2>1. CASE fwd' = fwd
        BY <1>3, <2>1 DEF ForwarderInv, Over
    <2>2. CASE fwd[f].st = "open" /\ fwd' = [fwd EXCEPT ![f].out = 1]
        <3>1. ASSUME NEW q \in FwdType
              PROVE  LET s == [q EXCEPT !.out = 1] IN
                     s \in FwdType /\ s.st = q.st /\ s.reader = q.reader
            BY DEF FwdType
        <3>2. PICK r \in FwdType : r = [fwd[f] EXCEPT !.out = 1]
            BY <3>1 DEF ForwarderInv
        <3>3. r.st = fwd[f].st /\ r.reader = fwd[f].reader /\ fwd' = [fwd EXCEPT ![f] = r]
            BY <2>2, <3>1, <3>2 DEF ForwarderInv
        <3> QED
            BY <1>3, <3>3, LoopsKeep
    <2> QED
        BY <1>3, <2>1, <2>2
<1>4. ASSUME NEW f \in Fwds, ReadEnds(f) \/ WriteToTUN(f) \/ WriteEnds(f) PROVE ForwarderInv'
    <2>1. ASSUME NEW q \in FwdType
          PROVE  /\ LET s == [q EXCEPT !.reader = "done"] IN s \in FwdType /\ s.st = q.st
                 /\ LET s == [q EXCEPT !.out = 0] IN
                    s \in FwdType /\ s.st = q.st /\ s.reader = q.reader
                 /\ LET s == [q EXCEPT !.writer = "done"] IN
                    s \in FwdType /\ s.st = q.st /\ s.reader = q.reader
        BY DEF FwdType
    <2>2. ReadEnds(f) => fwd[f].st # "open"
        BY DEF ReadEnds, ForwarderInv, Over
    <2>3. PICK q \in FwdType : q = fwd[f]
        BY DEF ForwarderInv
    <2>4. PICK r \in FwdType :
              /\ fwd' = [fwd EXCEPT ![f] = r]
              /\ r.st = q.st
              /\ q.st = "open" => r.reader = q.reader
        <3>1. CASE ReadEnds(f)
            BY <2>1, <2>2, <2>3, <3>1 DEF ReadEnds
        <3>2. CASE WriteToTUN(f)
            BY <2>1, <2>3, <3>2 DEF WriteToTUN
        <3>3. CASE WriteEnds(f)
            BY <2>1, <2>3, <3>3 DEF WriteEnds
        <3> QED
            BY <1>4, <3>1, <3>2, <3>3
    <2>5. UNCHANGED <<deadline, tunOpen>>
        BY <1>4 DEF ReadEnds, WriteToTUN, WriteEnds
    <2>6. r.st = fwd[f].st /\ (r.st = "open" => r.reader = fwd[f].reader)
        BY <2>3, <2>4
    <2> QED
        BY <2>4, <2>5, <2>6, LoopsKeep
<1>5. ASSUME NEW f \in Fwds, NEW k \in Kinds,
             ReadFromTUN(f, k) \/ Conn(f) \/ CopyUp(f) \/ CopyDown(f) \/ DownEnds(f)
               \/ CloseTCP(f) \/ Flow(f) \/ FlowIdle(f)
      PROVE  ForwarderInv'
    <2>1. /\ UNCHANGED <<deadline, tunOpen>>
          /\ fwd' = fwd \/ (fwd[f].st = "open" /\ fwd' = [fwd EXCEPT ![f].out = 1])
        BY <1>5 DEF ReadFromTUN, Conn, OpenTCP, UpEnds, CopyUp, CopyDown, DownEnds, CloseTCP,
                    Flow, FlowRead, FlowAnswer, FlowClose, FlowIdle, Wrote
    <2> QED
        BY <1>3, <2>1
<1>6. ASSUME NEW f \in Fwds, Conn(f) \/ CopyUp(f) \/ CopyDown(f) \/ DownEnds(f)
               \/ CloseTCP(f) \/ Flow(f) \/ FlowIdle(f)
      PROVE  ForwarderInv'
    <2>1. "tcp" \in Kinds
        BY DEF Kinds
    <2> QED
        BY <1>5, <1>6, <2>1
<1> QED
    BY <1>1, <1>2, <1>4, <1>5, <1>6, LivesKeep DEF UNext, Loops

\* The deadline that gets one forwarder's reader out of its blocking read never
\* ends the reader of the next, however many sessions use the TUN file.
THEOREM ReaderIsAlive == ~Beside => (USpec => []ReaderLives)
<1> SUFFICES ASSUME ~Beside PROVE USpec => []ReaderLives
    OBVIOUS
<1>1. UInit => ForwarderInv
    BY DEF UInit, ForwarderInv, FwdType, NoFwd, Over
<1>2. ForwarderInv /\ [UNext]_uvars => ForwarderInv'
    BY ForwarderNext
<1>3. ForwarderInv => ReaderLives
    BY DEF ForwarderInv, ReaderLives, Over
<1> QED
    BY <1>1, <1>2, <1>3, PTL DEF USpec

(***************************************************************************)
(* The desktop sidecar: the tunnels that an application leaves behind.     *)
(* With the helper the argument is short: a living tunnel has a watchdog,  *)
(* and every socket is closed when the application is gone.  Without it    *)
(* the PID file must name the stored child.  It is written before the      *)
(* child is stored and removed after the child was taken, so what has to   *)
(* be excluded is a second connect between these steps, and a disconnect   *)
(* that removes the file under a connect at work: it would have taken a    *)
(* child, and there is none while a connect works.                         *)
(***************************************************************************)
CommandType == [op : {"none", "connect", "disconnect", "exit"},
                pc : {"idle", "cancel", "check", "start", "pid", "store", "status",
                      "forget", "stream", "child", "wait", "done"},
                tun : Callers]
AppStateType == [child : Callers, stream : Callers, status : Statuses,
                 port : Callers, last : BOOLEAN, token : Callers]
ProcessType == [proc : {"none", "run", "up", "term", "gone"},
                said : Nat, heard : Nat, rules : BOOLEAN]

SidecarTypes ==
    /\ path \in {"child", "helper"} /\ app \in {"up", "down"}
    /\ st \in AppStateType /\ calls \in [Callers -> CommandType]
    /\ tun \in [Tunnels -> ProcessType]
    /\ dog \in [Tunnels -> {"off", "watch", "kill"}]
    /\ orphans \in [Tunnels -> {"no", "kept", "loose"}]

\* A connect between its check and the storing of its handle.
Works(c) == calls[c].pc \in {"start", "pid", "store"}

\* Connects do not overlap, and none works while a child is stored or awaited.
OneConnect ==
    path = "child" /\ "two" \notin races =>
        /\ \A c, d \in Callers : Works(c) /\ Works(d) => c = d
        /\ \A c \in Callers : Works(c) => st.child = Absent /\ calls[0].pc # "wait"
        /\ calls[0].pc = "wait" => st.child = Absent
        /\ \A c \in Callers : calls[c].pc = "store" => pidFile = calls[c].tun
        /\ \A t \in Tunnels : st.child = t /\ Alive(t) => pidFile = t

PathOK ==
    /\ path = "child" => \A t \in Tunnels : dog[t] = "off"
    /\ path = "helper" => /\ st.child = Absent
                          /\ \A t \in Tunnels : Alive(t) => dog[t] # "off"
    /\ app = "down" => st.child = Absent /\ \A c \in Callers : calls[c] = NoCommand
    /\ \A c \in Callers : Works(c) => calls[c].op = "connect"
    /\ \A t \in Tunnels : tun[t].proc = "none" => orphans[t] = "no"

OrphanOK(t) ==
    orphans[t] = "kept" /\ Alive(t) =>
        IF path = "child" THEN app = "down" /\ pidFile = t ELSE t \in shut

OrphanInv ==
    /\ SidecarTypes /\ OneConnect /\ PathOK
    /\ \A t \in Tunnels : OrphanOK(t)

\* What most steps do: no tunnel starts, no connect begins to work, no child
\* is stored and the PID file stays.
LEMMA QuietKeeps ==
    ASSUME OrphanInv, SidecarTypes', path' = path, app' = app, pidFile' = pidFile,
           dog' = dog, orphans' = orphans, shut \subseteq shut', races \subseteq races',
           st'.child \in {st.child, Absent},
           app = "down" => calls' = calls /\ st' = st,
           \A c \in Callers : calls'[c] = calls[c] \/ ~Works(c)',
           calls'[0].pc = "wait" => calls[0].pc = "wait",
           \A t \in Tunnels : /\ Alive(t)' => Alive(t)
                              /\ tun'[t].proc = "none" => tun[t].proc = "none"
    PROVE  OrphanInv'
<1>1. OneConnect'
    <2>1. Absent \notin Tunnels
        BY DEF Absent, Tunnels
    <2> QED
        BY <2>1 DEF OrphanInv, OneConnect, Works
<1>2. PathOK'
    BY DEF OrphanInv, PathOK, Works, SidecarTypes, AppStateType, Absent, Callers
<1>3. \A t \in Tunnels : OrphanOK(t)'
    BY DEF OrphanInv, OrphanOK
<1> QED
    BY <1>1, <1>2, <1>3 DEF OrphanInv

\* Nothing runs at first.
LEMMA OrphanInit == SInit => OrphanInv
<1> SUFFICES ASSUME SInit PROVE OrphanInv
    OBVIOUS
<1> USE Bounds
<1>1. 0 \in Callers /\ calls[0] = NoCommand /\ \A c \in Callers : calls[c] = NoCommand
    BY DEF SInit, Callers
<1>2. SidecarTypes
    BY DEF SInit, SidecarTypes, AppStateType, CommandType, ProcessType, NewState, NoCommand,
           Statuses, Active, Callers, Absent
<1>3. OneConnect /\ PathOK
    BY <1>1 DEF SInit, OneConnect, PathOK, Works, Alive, NoCommand, NewState
<1>4. \A t \in Tunnels : OrphanOK(t)
    BY DEF SInit, OrphanOK
<1> QED
    BY <1>2, <1>3, <1>4 DEF OrphanInv

\* A command moves on; a tunnel is started.
LEMMA CommandMoves ==
    ASSUME SidecarTypes, NEW c \in Callers, NEW p, NEW u \in Callers,
           p \in {"idle", "cancel", "check", "start", "pid", "store", "status",
                  "forget", "stream", "child", "wait", "done"}
    PROVE  /\ [calls EXCEPT ![c].pc = p] \in [Callers -> CommandType]
           /\ [calls EXCEPT ![c].pc = p, ![c].tun = u] \in [Callers -> CommandType]
    BY DEF SidecarTypes, CommandType

\* A process that moves keeps its type.
LEMMA ProcessMoves ==
    ASSUME SidecarTypes, NEW t \in Tunnels, NEW p \in {"none", "run", "up", "term", "gone"}
    PROVE  [tun EXCEPT ![t].proc = p] \in [Tunnels -> ProcessType]
    BY DEF SidecarTypes, ProcessType

\* A connect that fails.
LEMMA FailedKeeps ==
    ASSUME OrphanInv, NEW c \in Callers, ConnectFailed(c), app = "up",
           UNCHANGED <<path, app, pidFile, tun, shut, dog, orphans>>, races \subseteq races'
    PROVE  OrphanInv'
<1>1. 0 \in Callers /\ NoCommand \in CommandType
    BY Bounds DEF Callers, NoCommand, CommandType, Absent
<1>2. st' \in AppStateType /\ st'.child = st.child
    BY DEF ConnectFailed, OrphanInv, SidecarTypes, AppStateType
<1>3. calls' = [calls EXCEPT ![c] = NoCommand]
    BY DEF ConnectFailed, CallOver
<1>4. /\ calls' \in [Callers -> CommandType]
      /\ \A d \in Callers : calls'[d] = calls[d] \/ calls'[d] = NoCommand
    BY <1>1, <1>3 DEF OrphanInv, SidecarTypes
<1>5. SidecarTypes'
    BY <1>2, <1>4 DEF OrphanInv, SidecarTypes
<1> QED
    BY <1>1, <1>2, <1>4, <1>5, QuietKeeps DEF NoCommand, Works, Alive

\* The check lets one connect through, unless another is under way.
LEMMA CheckKeeps ==
    ASSUME OrphanInv, NEW c \in Callers, ConnectCheck(c)
    PROVE  OrphanInv'
<1> USE DEF ConnectCheck, At, GoTo
<1>0. 0 \in Callers
    BY Bounds DEF Callers
<1>1. CASE st.child # Absent \/ st.stream # Absent
    <2>1. races \subseteq races'
        BY DEF Race
    <2> QED
        BY <1>0, <1>1, <2>1, FailedKeeps
<1>2. CASE ~(st.child # Absent \/ st.stream # Absent)
    <2>1. /\ SidecarTypes' /\ st' = st /\ app' = app /\ app = "up"
          /\ calls' = [calls EXCEPT ![c].pc = "start"]
        BY <1>2 DEF OrphanInv, SidecarTypes, CommandType
    <2>2. /\ calls'[c].pc = "start" /\ calls'[c].op = "connect"
          /\ \A d \in Callers \ {c} : calls'[d] = calls[d]
        BY <2>1 DEF OrphanInv, SidecarTypes, CommandType
    <2>3. calls[0].pc # "wait" /\ calls'[0].pc # "wait"
        BY <1>0, <2>2 DEF ChildLocked
    <2>4. \A d \in Callers : Works(d) => calls[d].op = "connect"
        BY DEF OrphanInv, PathOK
    <2>5. "two" \notin races' => /\ "two" \notin races
                                 /\ \A d \in Callers \ {c} : ~Works(d)
        BY <2>4 DEF Race
    <2>6. OneConnect'
        BY <1>2, <2>1, <2>2, <2>3, <2>5 DEF OrphanInv, OneConnect, Works, Alive
    <2>7. PathOK'
        BY <2>1, <2>2 DEF OrphanInv, PathOK, Works, Alive
    <2>8. \A t \in Tunnels : OrphanOK(t)'
        BY <2>1 DEF OrphanInv, OrphanOK, Alive
    <2> QED
        BY <2>1, <2>6, <2>7, <2>8 DEF OrphanInv
<1> QED
    BY <1>1, <1>2

\* ConnectHelper: the daemon starts the tunnel, its watchdog begins to look.
LEMMA HelperKeeps ==
    ASSUME OrphanInv, NEW c \in Callers, ConnectHelper(c)
    PROVE  OrphanInv'
<1> USE DEF ConnectHelper, At
<1>0. 0 \in Callers /\ path = "helper" /\ path' = path /\ app' = app /\ app = "up"
    BY Bounds DEF Callers
<1>1. CASE ConnectFailed(c) /\ UNCHANGED <<tun, dog>>
    <2>1. races \subseteq races'
        BY DEF Race
    <2> QED
        BY <1>0, <1>1, <2>1, FailedKeeps
<1>2. ASSUME NEW t \in Fresh, Started(t), dog' = [dog EXCEPT ![t] = "watch"],
             calls' = [calls EXCEPT ![c].pc = "store", ![c].tun = t], UNCHANGED st
      PROVE  OrphanInv'
    <2>0. t \in Tunnels /\ tun[t].proc = "none" /\ t \in Callers
        BY Bounds DEF Fresh, Tunnels, Callers
    <2>1. SidecarTypes'
        BY <1>0, <1>2, <2>0, CommandMoves, ProcessMoves DEF OrphanInv, SidecarTypes, Started
    <2>2. /\ calls'[c].op = "connect"
          /\ \A d \in Callers \ {c} : calls'[d] = calls[d]
        BY <1>2 DEF OrphanInv, SidecarTypes, CommandType
    <2>3. /\ tun'[t].proc = "run" /\ dog'[t] = "watch"
          /\ \A u \in Tunnels \ {t} : tun'[u] = tun[u] /\ dog'[u] = dog[u]
        BY <1>2, <2>0 DEF OrphanInv, SidecarTypes, ProcessType, Started
    <2>4. OneConnect'
        BY <1>0 DEF OneConnect
    <2>5. PathOK'
        <3>1. \A u \in Tunnels : Alive(u)' => dog'[u] # "off"
            BY <1>0, <2>3 DEF OrphanInv, PathOK, Alive
        <3>2. \A d \in Callers : Works(d)' => calls'[d].op = "connect"
            BY <2>2 DEF OrphanInv, PathOK, Works
        <3>3. \A u \in Tunnels : tun'[u].proc = "none" => orphans'[u] = "no"
            BY <2>3 DEF OrphanInv, PathOK
        <3> HIDE DEF ConnectHelper
        <3>4. st' = st
            BY <1>2
        <3> QED
            BY <1>0, <3>1, <3>2, <3>3, <3>4 DEF OrphanInv, PathOK
    <2>6. \A u \in Tunnels : OrphanOK(u)'
        BY <1>0, <2>0, <2>3 DEF OrphanInv, PathOK, OrphanOK, Alive
    <2> QED
        BY <2>1, <2>4, <2>5, <2>6 DEF OrphanInv
<1> QED
    BY <1>1, <1>2

\* The process starts while no child is stored.
LEMMA SpawnKeeps ==
    ASSUME OrphanInv, NEW c \in Callers, ConnectSpawn(c)
    PROVE  OrphanInv'
<1> USE DEF ConnectSpawn, At
<1>0. 0 \in Callers /\ path = "child" /\ path' = path /\ app' = app /\ app = "up"
    BY Bounds DEF Callers
<1>1. CASE ConnectFailed(c) /\ UNCHANGED tun
    <2>1. races \subseteq races'
        BY DEF Race
    <2> QED
        BY <1>0, <1>1, <2>1, FailedKeeps
<1>2. ASSUME NEW t \in Fresh, tun' = [tun EXCEPT ![t].proc = "run"],
             calls' = [calls EXCEPT ![c].pc = "pid", ![c].tun = t], UNCHANGED st
      PROVE  OrphanInv'
    <2>0. t \in Tunnels /\ tun[t].proc = "none" /\ t \in Callers
        BY Bounds DEF Fresh, Tunnels, Callers
    <2>1. SidecarTypes'
        BY <1>0, <1>2, <2>0, CommandMoves, ProcessMoves DEF OrphanInv, SidecarTypes
    <2>2. /\ calls'[c].op = "connect" /\ calls'[c].pc = "pid" /\ Works(c)
          /\ \A d \in Callers \ {c} : calls'[d] = calls[d]
        BY <1>2 DEF OrphanInv, SidecarTypes, CommandType, Works
    <2>3. \A u \in Tunnels \ {t} : tun'[u] = tun[u]
        BY <1>2, <2>0 DEF OrphanInv, SidecarTypes, ProcessType
    <2>4. tun'[t].proc = "run" /\ orphans[t] = "no"
        BY <1>2, <2>0 DEF OrphanInv, SidecarTypes, ProcessType, PathOK
    <2>5. "two" \notin races' => "two" \notin races
        BY DEF Race
    <2>6. ASSUME "two" \notin races'
          PROVE  /\ st'.child = Absent /\ calls'[0].pc # "wait"
                 /\ \A d \in Callers : Works(d)' => Works(d)
                 /\ \A d \in Callers : calls'[d].pc = "store" =>
                                           calls'[d] = calls[d]
        <3>1. "two" \notin races /\ st.child = Absent /\ calls[0].pc # "wait"
            BY <1>0, <2>2, <2>5, <2>6 DEF OrphanInv, OneConnect
        <3> QED
            BY <1>0, <1>2, <2>2, <3>1 DEF Works
    <2>7. OneConnect'
        <3>1. Absent \notin Tunnels
            BY DEF Absent, Tunnels
        <3>2. pidFile' = pidFile
            OBVIOUS
        <3> HIDE DEF ConnectSpawn
        <3> QED
            BY <1>0, <2>5, <2>6, <3>1, <3>2 DEF OrphanInv, OneConnect
    <2>8. PathOK'
        <3>1. \A d \in Callers : Works(d)' => calls'[d].op = "connect"
            BY <2>2 DEF OrphanInv, PathOK, Works
        <3>2. \A u \in Tunnels : tun'[u].proc = "none" => orphans'[u] = "no"
            BY <2>3, <2>4 DEF OrphanInv, PathOK
        <3>3. \A u \in Tunnels : dog'[u] = "off"
            BY <1>0 DEF OrphanInv, PathOK
        <3> HIDE DEF ConnectSpawn
        <3> QED
            BY <1>0, <3>1, <3>2, <3>3 DEF OrphanInv, PathOK
    <2>9. \A u \in Tunnels : OrphanOK(u)'
        BY <1>0, <2>3, <2>4 DEF OrphanInv, OrphanOK, Alive
    <2> QED
        BY <2>1, <2>7, <2>8, <2>9 DEF OrphanInv
<1> QED
    BY <1>1, <1>2

\* ConnectPid: the file names the tunnel of the one connect that is starting.
LEMMA PidKeeps ==
    ASSUME OrphanInv, NEW c \in Callers, ConnectPid(c)
    PROVE  OrphanInv'
<1> USE DEF ConnectPid, At, GoTo
<1>1. SidecarTypes' /\ Works(c) /\ app = "up" /\ 0 \in Callers
    BY Bounds DEF OrphanInv, SidecarTypes, CommandType, Works, Callers
<1>2. /\ calls'[c].op = "connect" /\ calls'[c].pc = "store" /\ calls'[c].tun = calls[c].tun
      /\ \A d \in Callers \ {c} : calls'[d] = calls[d]
    BY DEF OrphanInv, SidecarTypes, CommandType
<1>3. OneConnect'
    BY <1>1, <1>2, Bounds DEF OrphanInv, OneConnect, Works, Alive, Absent, Tunnels
<1>4. PathOK'
    BY <1>1, <1>2 DEF OrphanInv, PathOK, Works, Alive
<1>5. \A t \in Tunnels : OrphanOK(t)'
    BY <1>1 DEF OrphanInv, OrphanOK, Alive
<1> QED
    BY <1>1, <1>3, <1>4, <1>5 DEF OrphanInv

\* ConnectStore: the stored child is the one the PID file names.
LEMMA StoreKeeps ==
    ASSUME OrphanInv, NEW c \in Callers, ConnectStore(c)
    PROVE  OrphanInv'
<1> USE DEF ConnectStore, At, GoTo
<1>1. SidecarTypes' /\ Works(c) /\ app = "up" /\ 0 \in Callers
    <2>1. 0 \in Callers /\ calls[c].tun \in Callers
        BY Bounds DEF OrphanInv, SidecarTypes, CommandType, Callers
    <2>2. st' \in AppStateType
        BY <2>1 DEF OrphanInv, SidecarTypes, AppStateType
    <2> QED
        BY <2>1, <2>2, CommandMoves DEF OrphanInv, SidecarTypes, Works
<1>2. /\ calls'[c].op = "connect" /\ calls'[c].pc = "status"
      /\ \A d \in Callers \ {c} : calls'[d] = calls[d]
    BY DEF OrphanInv, SidecarTypes, CommandType
<1>3. /\ path = "helper" => st'.child = st.child
      /\ path = "child" => st'.child = calls[c].tun /\ calls[0].pc # "wait"
    BY DEF OrphanInv, SidecarTypes, AppStateType, ChildLocked
<1>4. OneConnect'
    BY <1>1, <1>2, <1>3 DEF OrphanInv, OneConnect, Works, Alive
<1>5. PathOK'
    BY <1>1, <1>2, <1>3 DEF OrphanInv, PathOK, Works, Alive, SidecarTypes
<1>6. \A t \in Tunnels : OrphanOK(t)'
    BY <1>1 DEF OrphanInv, OrphanOK, Alive
<1> QED
    BY <1>1, <1>4, <1>5, <1>6 DEF OrphanInv

\* StopChild: the child leaves the state and is waited for.
LEMMA StopChildKeeps ==
    ASSUME OrphanInv, NEW op \in {"disconnect", "exit"}, StopChild(op)
    PROVE  OrphanInv'
<1> USE DEF StopChild, At, GoTo
<1>0. 0 \in Callers /\ app = "up"
    BY Bounds DEF Callers
<1>1. CASE st.child = Absent
    <2>1. SidecarTypes'
        BY <1>1 DEF OrphanInv, SidecarTypes, CommandType
    <2>2. calls'[0].pc = "done" /\ \A d \in Callers \ {0} : calls'[d] = calls[d]
        BY <1>0, <1>1 DEF OrphanInv, SidecarTypes, CommandType
    <2> QED
        BY <1>0, <1>1, <2>1, <2>2, QuietKeeps DEF Works, Alive
<1>2. CASE st.child # Absent
    <2>0. st.child \in Tunnels
        BY <1>2 DEF OrphanInv, SidecarTypes, AppStateType, Callers, Tunnels, Absent
    <2>1. SidecarTypes'
        <3>1. st' \in AppStateType /\ st.child \in Callers
            BY <1>0, <1>2 DEF OrphanInv, SidecarTypes, AppStateType, Absent
        <3>2. tun' \in [Tunnels -> ProcessType]
            BY <1>2, <2>0 DEF OrphanInv, SidecarTypes, ProcessType
        <3>3. calls' \in [Callers -> CommandType]
            <4> DEFINE k == [calls[0] EXCEPT !.pc = "wait", !.tun = st.child]
            <4>1. k \in CommandType
                BY <1>0, <3>1 DEF OrphanInv, SidecarTypes, CommandType
            <4>2. calls' = [calls EXCEPT ![0] = k]
                BY <1>0, <1>2 DEF OrphanInv, SidecarTypes
            <4> QED
                BY <1>0, <4>1, <4>2 DEF OrphanInv, SidecarTypes
        <3> QED
            BY <3>1, <3>2, <3>3 DEF OrphanInv, SidecarTypes
    <2>2. /\ calls'[0].pc = "wait" /\ st'.child = Absent
          /\ \A d \in Callers \ {0} : calls'[d] = calls[d]
        BY <1>0, <1>2 DEF OrphanInv, SidecarTypes, CommandType, AppStateType
    <2>3. /\ path = "child"
          /\ "two" \notin races => \A d \in Callers : ~Works(d)
        BY <1>2 DEF OrphanInv, OneConnect, PathOK, SidecarTypes
    <2>4. \A t \in Tunnels : t # Absent /\ (tun'[t].proc = "none" => tun[t].proc = "none")
        <3>1. Absent \notin Tunnels
            BY DEF Absent, Tunnels
        <3>2. ASSUME NEW t \in Tunnels, tun'[t].proc = "none" PROVE tun[t].proc = "none"
            BY <1>2, <2>0, <3>2 DEF OrphanInv, SidecarTypes, ProcessType
        <3> QED
            BY <3>1, <3>2
    <2>5. OneConnect'
        BY <2>2, <2>3, <2>4 DEF OneConnect, Works
    <2>6. PathOK'
        BY <1>0, <2>2, <2>3, <2>4 DEF OrphanInv, PathOK, Works
    <2>7. \A t \in Tunnels : OrphanOK(t)'
        <3> SUFFICES ASSUME NEW t \in Tunnels PROVE OrphanOK(t)'
            OBVIOUS
        <3>1. CASE t = st.child /\ tun[t].proc = "none"
            BY <3>1, <1>2 DEF OrphanInv, PathOK, OrphanOK
        <3>2. CASE ~(t = st.child /\ tun[t].proc = "none")
            <4>1. Alive(t)' => Alive(t)
                BY <3>2, <1>2, <2>0 DEF OrphanInv, SidecarTypes, ProcessType, Alive
            <4> QED
                BY <4>1, <1>2 DEF OrphanInv, OrphanOK
        <3> QED
            BY <3>1, <3>2
    <2> QED
        BY <2>1, <2>5, <2>6, <2>7 DEF OrphanInv
<1> QED
    BY <1>1, <1>2

\* The PID file goes when no child is stored and no connect works.
LEMMA ChildStoppedKeeps ==
    ASSUME OrphanInv, NEW op \in {"disconnect", "exit"}, ChildStopped(op)
    PROVE  OrphanInv'
<1> USE DEF ChildStopped, At, GoTo
<1>1. SidecarTypes' /\ app = "up" /\ 0 \in Callers
    <2>1. 0 \in Callers
        BY Bounds DEF Callers
    <2>2. tun' \in [Tunnels -> ProcessType]
        BY DEF OrphanInv, SidecarTypes, ProcessType
    <2> QED
        BY <2>1, <2>2, CommandMoves DEF OrphanInv, SidecarTypes
<1>2. calls'[0].pc = "done" /\ \A d \in Callers \ {0} : calls'[d] = calls[d]
    BY <1>1 DEF OrphanInv, SidecarTypes, CommandType
<1>3. \A t \in Tunnels : /\ Alive(t)' => Alive(t)
                         /\ tun'[t].proc = "none" => tun[t].proc = "none"
    BY DEF OrphanInv, SidecarTypes, ProcessType, Alive
<1>4. OneConnect'
    BY <1>1, <1>2, Bounds DEF OrphanInv, OneConnect, Works, Absent, Tunnels
<1>5. PathOK'
    BY <1>1, <1>2, <1>3 DEF OrphanInv, PathOK, Works
<1>6. \A t \in Tunnels : OrphanOK(t)'
    BY <1>1, <1>3 DEF OrphanInv, OrphanOK
<1> QED
    BY <1>1, <1>4, <1>5, <1>6 DEF OrphanInv

\* WatchdogTerm and WatchdogKill: the watchdog stops only when the tunnel has.
LEMMA WatchdogKeeps ==
    ASSUME OrphanInv, NEW t \in Tunnels, WatchdogTerm(t) \/ WatchdogKill(t)
    PROVE  OrphanInv'
<1> USE DEF WatchdogTerm, WatchdogKill
<1>1. \E p \in {"term", "gone"} : tun' = [tun EXCEPT ![t].proc = p]
    BY DEF OrphanInv, SidecarTypes, ProcessType
<1>2. \E d \in {"off", "kill"} : dog' = [dog EXCEPT ![t] = d]
    OBVIOUS
<1>3. SidecarTypes'
    <2>1. tun' \in [Tunnels -> ProcessType]
        <3> HIDE DEF WatchdogTerm, WatchdogKill
        <3> QED
            BY <1>1 DEF OrphanInv, SidecarTypes, ProcessType
    <2>2. dog' \in [Tunnels -> {"off", "watch", "kill"}]
        BY <1>2 DEF OrphanInv, SidecarTypes
    <2> QED
        BY <2>1, <2>2 DEF OrphanInv, SidecarTypes
<1>4. path = "helper" /\ path' = path /\ app' = app /\ st' = st /\ calls' = calls
    BY DEF OrphanInv, SidecarTypes, PathOK
<1>5. \A u \in Tunnels : /\ tun'[u].proc = "none" => tun[u].proc = "none"
                         /\ Alive(u)' => dog'[u] # "off"
    BY <1>4 DEF OrphanInv, SidecarTypes, ProcessType, PathOK, Alive
<1>6. \A u \in Tunnels : Alive(u)' => Alive(u) \/ orphans[u] = "no"
    BY <1>4 DEF OrphanInv, SidecarTypes, ProcessType, PathOK, Alive
<1>7. OneConnect'
    BY <1>4 DEF OneConnect
<1>8. PathOK'
    BY <1>4, <1>5 DEF OrphanInv, PathOK, Works
<1>9. \A u \in Tunnels : OrphanOK(u)'
    BY <1>4, <1>6 DEF OrphanInv, OrphanOK
<1> QED
    BY <1>3, <1>7, <1>8, <1>9 DEF OrphanInv

\* The end of the application: what it had stored is found by the next one.
LEMMA GoneKeeps ==
    ASSUME OrphanInv, AppGone, app = "up"
    PROVE  OrphanInv'
<1> USE DEF AppGone
<1>1. SidecarTypes'
    <2>1. NewState \in AppStateType /\ NoCommand \in CommandType
        BY Bounds DEF NewState, NoCommand, AppStateType, CommandType, Statuses, Callers, Absent
    <2>2. orphans' \in [Tunnels -> {"no", "kept", "loose"}]
        BY DEF OrphanInv, SidecarTypes
    <2> QED
        BY <2>1, <2>2 DEF OrphanInv, SidecarTypes
<1>2. \A c \in Callers : calls'[c] = NoCommand /\ ~Works(c)'
    BY DEF NoCommand, Works
<1>3. 0 \in Callers /\ Absent \notin Tunnels /\ st'.child = Absent
    BY Bounds DEF Callers, Absent, Tunnels, NewState
<1>4. OneConnect'
    <2>1. calls'[0].pc # "wait" /\ \A c \in Callers : calls'[c].pc # "store"
        BY <1>2, <1>3 DEF NoCommand
    <2> QED
        BY <1>2, <1>3, <2>1 DEF OneConnect
<1>5. \A t \in Tunnels : ~Alive(t) => orphans'[t] = orphans[t]
    OBVIOUS
<1>6. PathOK'
    <2>1. \A t \in Tunnels : tun[t].proc = "none" => ~Alive(t)
        BY DEF Alive
    <2>2. \A t \in Tunnels : tun'[t].proc = "none" => orphans'[t] = "no"
        BY <1>5, <2>1 DEF OrphanInv, PathOK
    <2>3. \A t \in Tunnels : dog'[t] = dog[t] /\ (Alive(t)' <=> Alive(t))
        BY DEF Alive
    <2> QED
        BY <1>2, <1>3, <2>2, <2>3 DEF OrphanInv, PathOK
<1>7. ASSUME NEW t \in Tunnels, orphans'[t] = "kept", Alive(t)' PROVE OrphanOK(t)'
    <2>1. Alive(t) /\ tun[t].proc # "none"
        BY <1>7 DEF Alive
    <2>2. CASE path = "helper"
        BY <2>1, <2>2 DEF OrphanOK
    <2>3. CASE path = "child"
        <3>1. st.child = t /\ "two" \notin races
            BY <1>7, <2>1, <2>3
        <3>2. pidFile = t
            BY <2>1, <2>3, <3>1 DEF OrphanInv, OneConnect
        <3> QED
            BY <2>3, <3>2 DEF OrphanOK
    <2> QED
        BY <2>2, <2>3 DEF OrphanInv, SidecarTypes
<1>8. \A t \in Tunnels : OrphanOK(t)'
    BY <1>7 DEF OrphanOK
<1> QED
    BY <1>1, <1>4, <1>6, <1>8 DEF OrphanInv

\* The next start: the tunnel that the PID file names is gone.
LEMMA RestartKeeps ==
    ASSUME OrphanInv, Restart
    PROVE  OrphanInv'
<1> USE DEF Restart
<1>1. tun' = tun \/ (pidFile \in Tunnels /\ tun' = [tun EXCEPT ![pidFile].proc = "gone"])
    <2>1. CASE pidFile \in Tunnels
        BY <2>1
    <2>2. CASE pidFile \notin Tunnels
        BY <2>2 DEF OrphanInv, SidecarTypes
    <2> QED
        BY <2>1, <2>2
<1>2. SidecarTypes'
    BY <1>1, ProcessMoves DEF OrphanInv, SidecarTypes
<1>3. \A t \in Tunnels : /\ Alive(t)' => Alive(t)
                         /\ tun'[t].proc = "none" => tun[t].proc = "none"
    BY <1>1 DEF OrphanInv, SidecarTypes, ProcessType, Alive
<1>4. path' = path /\ app = "down" /\ app' = "up" /\ calls' = calls /\ st' = st
    OBVIOUS
<1>5. /\ st.child = Absent /\ 0 \in Callers /\ Absent \notin Tunnels
      /\ \A c \in Callers : ~Works(c) /\ calls[c].pc \notin {"wait", "store"}
    BY <1>4, Bounds DEF OrphanInv, PathOK, NoCommand, Works, Callers, Absent, Tunnels
<1>6. OneConnect'
    BY <1>4, <1>5 DEF OneConnect, Works
<1>7. PathOK'
    BY <1>3, <1>4 DEF OrphanInv, PathOK, Works
<1>8. ASSUME NEW t \in Tunnels, orphans[t] = "kept", Alive(t)' PROVE OrphanOK(t)'
    <2>1. CASE path = "child"
        <3>1. pidFile = t /\ Alive(t) /\ pidFile # Absent
            BY <1>3, <1>5, <1>8, <2>1 DEF OrphanInv, OrphanOK
        <3>2. tun' = [tun EXCEPT ![t].proc = "gone"]
            BY <3>1
        <3>3. ~Alive(t)'
            BY <3>2 DEF OrphanInv, SidecarTypes, ProcessType, Alive
        <3> QED
            BY <1>8, <3>3
    <2>2. CASE path = "helper"
        BY <1>3, <1>4, <1>8, <2>2 DEF OrphanInv, OrphanOK
    <2> QED
        BY <2>1, <2>2 DEF OrphanInv, SidecarTypes
<1>9. \A t \in Tunnels : OrphanOK(t)'
    BY <1>8 DEF OrphanOK
<1> QED
    BY <1>2, <1>6, <1>7, <1>9 DEF OrphanInv

\* The other steps of a command, and the commands the user gives.
LEMMA OtherCommandKeeps ==
    ASSUME OrphanInv,
           \/ \E c \in Callers : ConnectCancel(c) \/ ConnectStatus(c)
           \/ DisconnectCancel \/ DisconnectForget \/ DisconnectDone
           \/ \E op \in {"disconnect", "exit"} : CloseStream(op)
           \/ User
    PROVE  OrphanInv'
<1>0. 0 \in Callers /\ NoCommand \in CommandType
    BY Bounds DEF Callers, NoCommand, CommandType, Absent
<1>1. PICK c \in Callers, k \in CommandType :
         /\ calls' = [calls EXCEPT ![c] = k]
         /\ k.pc \notin {"start", "pid", "store", "wait"}
    <2>1. ASSUME NEW c \in Callers, NEW line \in {"check", "forget", "stream", "child"},
                 calls' = [calls EXCEPT ![c].pc = line]
          PROVE  \E d \in Callers, k \in CommandType :
                    /\ calls' = [calls EXCEPT ![d] = k]
                    /\ k.pc \notin {"start", "pid", "store", "wait"}
        <3>1. [calls[c] EXCEPT !.pc = line] \in CommandType
            BY <2>1 DEF OrphanInv, SidecarTypes, CommandType
        <3>2. [calls[c] EXCEPT !.pc = line].pc = line
            BY <2>1 DEF OrphanInv, SidecarTypes, CommandType
        <3> QED
            BY <2>1, <3>1, <3>2
    <2>2. ASSUME NEW c \in Callers, CallOver(c)
          PROVE  \E d \in Callers, k \in CommandType :
                    /\ calls' = [calls EXCEPT ![d] = k]
                    /\ k.pc \notin {"start", "pid", "store", "wait"}
        BY <1>0, <2>2 DEF CallOver, NoCommand
    <2>3. CASE User
        <3>1. ASSUME NEW op \in {"connect", "disconnect", "exit"},
                     NEW line \in {"cancel", "stream"}
              PROVE  [op |-> op, pc |-> line, tun |-> Absent] \in CommandType
            BY <1>0, <3>1 DEF CommandType, Absent
        <3> QED
            BY <1>0, <2>3, <3>1 DEF User, UserConnect, UserDisconnect, Quit, Call
    <2> QED
        BY <1>0, <2>1, <2>2, <2>3
        DEF ConnectCancel, ConnectStatus, DisconnectCancel, DisconnectForget, DisconnectDone,
            CloseStream, GoTo
<1>2. /\ UNCHANGED <<path, app, pidFile, tun, dog, orphans>>
      /\ app = "up" /\ shut \subseteq shut' /\ races \subseteq races'
    BY DEF ConnectCancel, ConnectStatus, DisconnectCancel, DisconnectForget, DisconnectDone,
           CloseStream, User, UserConnect, UserDisconnect, Quit, Call, Race, At
<1>3. st' \in AppStateType /\ st'.child = st.child
    <2>1. CASE TakeToken
        BY <1>0, <2>1 DEF TakeToken, OrphanInv, SidecarTypes, AppStateType, Absent
    <2>2. CASE DisconnectForget \/ DisconnectDone \/ \E d \in Callers : ConnectStatus(d)
        BY <1>0, <2>2
        DEF DisconnectForget, DisconnectDone, ConnectStatus, OrphanInv, SidecarTypes,
            AppStateType, Statuses, Active, Absent
    <2>3. ASSUME NEW op \in {"disconnect", "exit"}, CloseStream(op)
          PROVE  st' \in AppStateType /\ st'.child = st.child
        BY <1>0, <2>3
        DEF CloseStream, OrphanInv, SidecarTypes, AppStateType, Statuses, Active, Absent
    <2>4. CASE User
        BY <2>4 DEF User, UserConnect, UserDisconnect, Quit, Call, OrphanInv, SidecarTypes
    <2> QED
        BY <2>1, <2>2, <2>3, <2>4 DEF ConnectCancel, DisconnectCancel
<1>4. SidecarTypes'
    BY <1>1, <1>2, <1>3 DEF OrphanInv, SidecarTypes
<1>5. \A d \in Callers : calls'[d] = calls[d] \/ (~Works(d)' /\ calls'[d].pc # "wait")
    BY <1>1 DEF OrphanInv, SidecarTypes, Works
<1> QED
    BY <1>0, <1>2, <1>3, <1>4, <1>5, QuietKeeps DEF Alive

\* The threads: readers and reconnect threads.
LEMMA ThreadKeeps ==
    ASSUME OrphanInv, NEW t \in Tunnels, Reader(t) \/ Reconnect(t)
    PROVE  OrphanInv'
<1>0. t \in Callers /\ 0 \in Callers /\ t # 0
    BY Bounds DEF Callers, Tunnels
<1>1. /\ UNCHANGED <<path, app, pidFile, dog, orphans, shut>>
      /\ app = "up" /\ races \subseteq races'
    BY DEF Reader, ReadPort, KeepProfile, ReadConnected, HelperEof, ChildEof, Reaped, ClearPort,
           LookStatus, LookProfile, ExitedUnexpectedly, SpawnReconnect, Reconnect, ReconnectLooks,
           ReconnectTells, ReconnectNow, Race
<1>2. st' \in AppStateType /\ st'.child \in {st.child, Absent}
    <2>1. CASE Reader(t)
        <3>1. \/ \E p \in {t, Absent} : st' = [st EXCEPT !.port = p]
              \/ \E x \in {"connected", "error"} : st' = [st EXCEPT !.status = x]
              \/ \E x \in {st.child, Absent}, y \in {st.stream, Absent} :
                    st' = [st EXCEPT !.child = x, !.stream = y]
              \/ st' = [st EXCEPT !.last = TRUE] \/ st' = [st EXCEPT !.token = t] \/ st' = st
            <4>1. HelperEof(t) => st' = [st EXCEPT !.child = st.child, !.stream = Absent]
                BY DEF HelperEof, OrphanInv, SidecarTypes, AppStateType
            <4>2. ChildEof(t) => st' = [st EXCEPT !.child = Absent, !.stream = st.stream]
                BY DEF ChildEof, OrphanInv, SidecarTypes, AppStateType
            <4> QED
                BY <2>1, <4>1, <4>2
                DEF Reader, ReadPort, KeepProfile, ReadConnected, Reaped, ClearPort, LookStatus,
                    LookProfile, ExitedUnexpectedly, SpawnReconnect
        <3>2. Absent \in Callers /\ Absent \notin Tunnels
            BY <1>0 DEF Absent, Tunnels
        <3>3. ASSUME NEW x \in {st.child, Absent}, NEW y \in {st.stream, Absent},
                     st' = [st EXCEPT !.child = x, !.stream = y]
              PROVE  st' \in AppStateType /\ st'.child \in {st.child, Absent}
            BY <3>2, <3>3 DEF OrphanInv, SidecarTypes, AppStateType
        <3>4. ASSUME NEW x \in {"connected", "error"}, st' = [st EXCEPT !.status = x]
              PROVE  st' \in AppStateType /\ st'.child = st.child
            BY <3>4 DEF OrphanInv, SidecarTypes, AppStateType, Statuses, Active
        <3>5. ASSUME NEW p \in Callers,
                     st' = [st EXCEPT !.port = p] \/ st' = [st EXCEPT !.token = p]
              PROVE  st' \in AppStateType /\ st'.child = st.child
            BY <3>5 DEF OrphanInv, SidecarTypes, AppStateType
        <3>6. ASSUME st' = [st EXCEPT !.last = TRUE] \/ st' = st
              PROVE  st' \in AppStateType /\ st'.child = st.child
            BY <3>6 DEF OrphanInv, SidecarTypes, AppStateType
        <3> QED
            BY <1>0, <3>1, <3>2, <3>3, <3>4, <3>5, <3>6
    <2>2. CASE Reconnect(t)
        BY <1>0, <2>2
        DEF Reconnect, ReconnectLooks, ReconnectTells, ReconnectNow, OrphanInv, SidecarTypes,
            AppStateType, Statuses, Active, Absent
    <2> QED
        BY <2>1, <2>2
<1>3. /\ tun' \in [Tunnels -> ProcessType]
      /\ \A u \in Tunnels : tun'[u].proc = tun[u].proc
    <2>1. CASE tun' = tun
        BY <2>1 DEF OrphanInv, SidecarTypes
    <2>2. CASE ReadPort(t)
        <3> DEFINE k == [tun[t] EXCEPT !.heard = 1, !.rules = TRUE]
        <3>1. k \in ProcessType /\ k.proc = tun[t].proc
            BY DEF OrphanInv, SidecarTypes, ProcessType
        <3>2. tun' = [tun EXCEPT ![t] = k]
            BY <2>2 DEF ReadPort, OrphanInv, SidecarTypes
        <3> QED
            BY <3>1, <3>2 DEF OrphanInv, SidecarTypes
    <2>3. CASE ReadConnected(t)
        BY <2>3 DEF ReadConnected, OrphanInv, SidecarTypes, ProcessType
    <2> QED
        BY <2>1, <2>2, <2>3
        DEF Reader, KeepProfile, HelperEof, ChildEof, Reaped, ClearPort, LookStatus, LookProfile,
            ExitedUnexpectedly, SpawnReconnect, Reconnect, ReconnectLooks, ReconnectTells,
            ReconnectNow
<1>4. /\ calls' \in [Callers -> CommandType]
      /\ \A c \in Callers : calls'[c] = calls[c] \/ (~Works(c)' /\ calls'[c].pc # "wait")
    <2>1. CASE calls' = calls
        BY <2>1 DEF OrphanInv, SidecarTypes
    <2>2. CASE ReconnectNow(t)
        <3>1. [op |-> "connect", pc |-> "cancel", tun |-> Absent] \in CommandType
            BY <1>0 DEF CommandType, Absent
        <3> QED
            BY <1>0, <2>2, <3>1 DEF ReconnectNow, OrphanInv, SidecarTypes, Works
    <2> QED
        BY <2>1, <2>2
        DEF Reader, ReadPort, KeepProfile, ReadConnected, HelperEof, ChildEof, Reaped, ClearPort,
            LookStatus, LookProfile, ExitedUnexpectedly, SpawnReconnect, Reconnect, ReconnectLooks,
            ReconnectTells
<1>5. SidecarTypes'
    BY <1>1, <1>2, <1>3, <1>4 DEF OrphanInv, SidecarTypes
<1> QED
    BY <1>0, <1>1, <1>2, <1>3, <1>4, <1>5, QuietKeeps DEF Alive

\* The tunnel speaks, or ends.
LEMMA TunnelKeeps ==
    ASSUME OrphanInv, NEW t \in Tunnels, Says(t) \/ Ends(t)
    PROVE  OrphanInv'
<1>1. /\ UNCHANGED <<path, app, pidFile, dog, orphans, shut, st, calls>>
      /\ races \subseteq races'
    BY DEF Says, Ends, Race
<1>2. /\ tun' \in [Tunnels -> ProcessType]
      /\ \A u \in Tunnels : /\ Alive(u)' => Alive(u)
                            /\ tun'[u].proc = "none" => tun[u].proc = "none"
    BY DEF Says, Ends, Alive, OrphanInv, SidecarTypes, ProcessType
<1>3. SidecarTypes'
    BY <1>1, <1>2 DEF OrphanInv, SidecarTypes
<1> QED
    BY <1>1, <1>2, <1>3, QuietKeeps

\* Every step of the application, the tunnels, the helper and the user.
LEMMA OrphanNext == OrphanInv /\ [SNext]_svars => OrphanInv'
<1> SUFFICES ASSUME OrphanInv, [SNext]_svars PROVE OrphanInv'
    OBVIOUS
<1>1. CASE UNCHANGED svars
    BY <1>1, QuietKeeps DEF svars, OrphanInv, SidecarTypes, Alive
<1>2. ASSUME NEW c \in Callers, Connect(c) PROVE OrphanInv'
    BY <1>2, CheckKeeps, HelperKeeps, SpawnKeeps, PidKeeps, StoreKeeps, OtherCommandKeeps
    DEF Connect
<1>3. CASE Stop
    BY <1>3, StopChildKeeps, ChildStoppedKeeps, GoneKeeps, OtherCommandKeeps
    DEF Stop, ExitDone, At
<1>4. CASE User
    BY <1>4, OtherCommandKeeps
<1>5. CASE Crash \/ Restart
    BY <1>5, GoneKeeps, RestartKeeps DEF Crash
<1>6. ASSUME NEW t \in Tunnels,
             \/ Reader(t) \/ Reconnect(t)
             \/ Says(t) \/ Ends(t) \/ WatchdogTerm(t) \/ WatchdogKill(t)
      PROVE  OrphanInv'
    BY <1>6, ThreadKeeps, TunnelKeeps, WatchdogKeeps
<1> QED
    BY <1>1, <1>2, <1>3, <1>4, <1>5, <1>6 DEF SNext

(***************************************************************************)
(* A tunnel that the application had stored when it ended, by a crash at   *)
(* any step or in good order, does not run on unnoticed (sidecar.rs,       *)
(* connect, disconnect and kill_stale_tunnel; the helper's watchdog):      *)
(* whatever the number of tunnels, commands, failures and restarts.        *)
(***************************************************************************)
THEOREM OrphansHold == SSpec => []OrphansFound
<1>1. OrphanInv => OrphansFound
    <2> SUFFICES ASSUME OrphanInv, NEW t \in Tunnels, orphans[t] = "kept", Alive(t)
                 PROVE  OrphanFound(t)
        BY DEF OrphansFound
    <2>1. CASE path = "child"
        BY <2>1 DEF OrphanInv, OrphanOK, OrphanFound
    <2>2. CASE path = "helper"
        BY <2>2 DEF OrphanInv, OrphanOK, PathOK, OrphanFound
    <2> QED
        BY <2>1, <2>2 DEF OrphanInv, SidecarTypes
<1> QED
    BY <1>1, OrphanInit, OrphanNext, PTL DEF SSpec
=============================================================================
