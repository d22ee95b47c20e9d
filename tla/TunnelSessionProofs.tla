------------------------ MODULE TunnelSessionProofs ------------------------
(***************************************************************************)
(* Proofs about the terminal UI's tunnel session: whose engine runs, what  *)
(* is left on the host when no loop is, and the settings of the interfaces *)
(* once an engine has given them back.                                     *)
(*                                                                         *)
(* Every action changes the record of at most one loop and of at most one  *)
(* engine.  The lemmas of the first part say, action by action, which      *)
(* fields change and how; the invariants then argue with fields alone.     *)
(***************************************************************************)
EXTENDS TunnelSession, IPv6Lock, TLAPS

Todos   == {<<>>, <<"release">>, <<"finish">>, <<"release", "finish">>,
            <<"finish", "release">>}
Results == {"none", "nil", "error", "drop"}
Servers == {"host", "tunnel"}
UIPCs   == {"idle", "settle", "quitsettle", "apply", "quit", "exited", "timedout"}
Statuses == ActiveStatuses \union SettledStatuses

LoopType == [pc : LoopSteps, gen : Nat, e : 0 .. MaxEngines,
             last : 0 .. MaxEngines, ever : BOOLEAN, rules : Nat,
             todo : Todos, final : SettledStatuses]
RunType  == [phase : Phases, ok : BOOLEAN, result : Results, stop : BOOLEAN,
             kept : BOOLEAN, rules : Nat, prevDNS : Servers]
UIType   == [pc : UIPCs, e : 0 .. MaxEngines, disconnects : Nat]

\* The types, without the bounds that TypeOK puts on the counters.
Types ==
  /\ status \in Statuses
  /\ gen \in Nat /\ closed \subseteq Loops /\ stopCh \in 0 .. MaxConnects
  /\ eng \in 0 .. MaxEngines /\ rules \in Nat
  /\ loop \in [Loops -> LoopType]
  /\ run \in [Engines -> RunType]
  /\ ui \in UIType

\* The types of the host's state.
HostTypes ==
  fw \in [Engines -> Kinds] /\ ipv6 \in BOOLEAN /\ dns \in Servers

---------------------------------------------------------------------------
(* What a step changes                                                     *)

\* A step of loop l: its own record, apart from its generation.
LoopOnly(l) ==
  /\ loop' \in [Loops -> LoopType]
  /\ \A k \in Loops : k # l => loop'[k] = loop[k]
  /\ loop'[l].gen = loop[l].gen
  /\ UNCHANGED <<gen, stopCh, closed, rules, ui>>

\* A step that changes the record of engine e.
RunOnly(e) ==
  /\ run' \in [Engines -> RunType]
  /\ \A f \in Engines : f # e => run'[f] = run[f]

\* The constants of the program counters and the like are of their types.
LEMMA Words ==
  /\ \A s \in {"none", "start", "adopt", "apply", "select", "wait", "stopping",
               "ended", "decide", "countdown", "exit", "done"} : s \in LoopSteps
  /\ \A s \in {"none", "new", "connecting", "cleaned", "up", "dropping",
               "reinstall", "returned"} : s \in Phases
  /\ \A s \in {"disconnected", "error"} : s \in SettledStatuses
  /\ \A s \in {"connecting", "connected", "reconnecting"} : s \in ActiveStatuses
  /\ \A s \in {"none", "nil", "error", "drop"} : s \in Results
  /\ \A s \in {"host", "tunnel"} : s \in Servers
BY DEF LoopSteps, Phases, SettledStatuses, ActiveStatuses, Results, Servers

\* Init is of the types.
LEMMA TypesInit == Init => Types /\ HostTypes
<1> SUFFICES ASSUME Init PROVE Types /\ HostTypes
  OBVIOUS
<1>1. NewLoop \in LoopType
  <2>1. <<>> \in Todos /\ 0 \in 0 .. MaxEngines
    BY SessionAssumption DEF Todos
  <2> QED BY <2>1, Words DEF NewLoop, LoopType
<1>2. NewEngine \in RunType
  BY Words DEF NewEngine, RunType
<1>3. loop \in [Loops -> LoopType] /\ run \in [Engines -> RunType]
  BY <1>1, <1>2 DEF Init
<1>4. fw \in [Engines -> Kinds] /\ ipv6 \in BOOLEAN /\ dns \in Servers
  BY Words DEF Init, Kinds
<1>5. ui \in UIType
  BY SessionAssumption DEF Init, UIType, UIPCs
<1>6. status \in Statuses /\ gen \in Nat /\ closed \subseteq Loops
      /\ stopCh \in 0 .. MaxConnects /\ eng \in 0 .. MaxEngines /\ rules \in Nat
  BY SessionAssumption DEF Init, Statuses, SettledStatuses
<1> QED BY <1>3, <1>4, <1>5, <1>6 DEF Types, HostTypes

\* Goto changes a loop's program counter and nothing else of it.
LEMMA GotoDoes ==
  ASSUME loop \in [Loops -> LoopType], NEW l \in Loops, NEW p \in LoopSteps,
         Goto(l, p), UNCHANGED <<gen, stopCh, closed, rules, ui>>
  PROVE  /\ LoopOnly(l) /\ loop'[l].pc = p
         /\ loop'[l].e = loop[l].e /\ loop'[l].last = loop[l].last
         /\ loop'[l].todo = loop[l].todo
<1>1. loop' = [loop EXCEPT ![l].pc = p]
  BY DEF Goto
<1>2. /\ loop' \in [Loops -> LoopType] /\ \A k \in Loops : k # l => loop'[k] = loop[k]
      /\ loop'[l].gen = loop[l].gen /\ loop'[l].pc = p
      /\ loop'[l].e = loop[l].e /\ loop'[l].last = loop[l].last
      /\ loop'[l].todo = loop[l].todo
  BY <1>1 DEF LoopType
<1> QED BY <1>2 DEF LoopOnly

\* Exit sets what a loop has left to do.
LEMMA ExitDoes ==
  ASSUME loop \in [Loops -> LoopType], NEW l \in Loops, NEW t \in Todos,
         NEW s \in SettledStatuses,
         Exit(l, t, s), UNCHANGED <<gen, stopCh, closed, rules, ui>>
  PROVE  /\ LoopOnly(l) /\ loop'[l].pc = "exit"
         /\ loop'[l].e = loop[l].e /\ loop'[l].last = loop[l].last
         /\ loop'[l].todo = t
<1>0. "exit" \in LoopSteps
  BY Words
<1>1. loop' = [loop EXCEPT ![l].pc = "exit", ![l].todo = t, ![l].final = s]
  BY DEF Exit
<1>2. loop' \in [Loops -> LoopType]
  <2>1. loop'[l] = [loop[l] EXCEPT !.pc = "exit", !.todo = t, !.final = s] /\ loop[l] \in LoopType
    BY <1>0, <1>1
  <2>2. loop'[l] \in LoopType
    BY <1>0, <1>1, <2>1 DEF LoopType
  <2> QED BY <1>0, <1>1, <2>2
<1>3. /\ \A k \in Loops : k # l => loop'[k] = loop[k]
      /\ loop'[l].gen = loop[l].gen /\ loop'[l].pc = "exit"
      /\ loop'[l].e = loop[l].e /\ loop'[l].last = loop[l].last
      /\ loop'[l].todo = t
  BY <1>1 DEF LoopType
<1> QED BY <1>2, <1>3 DEF LoopOnly

\* StartFails: the loop ends, or it waits to try again.
LEMMA StartFailsDoes ==
  ASSUME Types, NEW l \in Loops, StartFails(l)
  PROVE  /\ LoopOnly(l) /\ UNCHANGED <<eng, run, host>>
         /\ loop[l].pc = "start" /\ loop'[l].pc \in {"exit", "countdown"}
         /\ loop'[l].e = loop[l].e /\ loop'[l].last = loop[l].last
         /\ loop'[l].pc = "exit" => loop'[l].todo = <<"release", "finish">>
         /\ status' = status \/ status' \in ActiveStatuses
<1>0. loop \in [Loops -> LoopType] /\ loop[l].pc = "start" /\ UNCHANGED <<eng, run, host>>
      /\ UNCHANGED <<gen, stopCh, closed, rules, ui>>
  BY DEF Types, StartFails, At
<1>1. CASE Exit(l, <<"release", "finish">>, "error") /\ UNCHANGED status
  <2>1. "error" \in SettledStatuses /\ <<"release", "finish">> \in Todos
    BY Words DEF Todos
  <2>2. /\ LoopOnly(l) /\ loop'[l].pc = "exit"
        /\ loop'[l].e = loop[l].e /\ loop'[l].last = loop[l].last
        /\ loop'[l].todo = <<"release", "finish">>
    BY <1>0, <1>1, <2>1, ExitDoes
  <2> QED BY <1>0, <1>1, <2>2
<1>2. CASE status' = Updated(l, "reconnecting") /\ Goto(l, "countdown")
  <2>1. "countdown" \in LoopSteps
    BY Words
  <2>2. /\ LoopOnly(l) /\ loop'[l].pc = "countdown"
        /\ loop'[l].e = loop[l].e /\ loop'[l].last = loop[l].last
    BY <1>0, <1>2, <2>1, GotoDoes
  <2>3. status' = status \/ status' \in ActiveStatuses
    BY <1>2 DEF Updated, ActiveStatuses
  <2> QED BY <1>0, <2>2, <2>3
<1> QED BY <1>1, <1>2 DEF StartFails

\* StartEngine: the loop has a new engine.
LEMMA StartEngineDoes ==
  ASSUME Types, NEW l \in Loops, NEW e \in Engines, StartEngine(l, e)
  PROVE  /\ LoopOnly(l) /\ RunOnly(e) /\ UNCHANGED <<status, eng, host>>
         /\ loop[l].pc = "start" /\ loop'[l].pc = "adopt"
         /\ loop'[l].e = e /\ loop'[l].last = loop[l].last
         /\ run[e].phase = "none" /\ run'[e].phase = "new"
         /\ run'[e].ok = run[e].ok /\ run'[e].kept = run[e].kept
         /\ run'[e].result = run[e].result
<1>0. /\ loop \in [Loops -> LoopType] /\ run \in [Engines -> RunType]
      /\ loop[l].pc = "start" /\ UNCHANGED <<status, eng, host>>
      /\ UNCHANGED <<gen, stopCh, closed, rules, ui>> /\ run[e].phase = "none"
      /\ loop' = [loop EXCEPT ![l].pc = "adopt", ![l].e = e]
      /\ run' = [run EXCEPT ![e].phase = "new"]
  BY DEF Types, StartEngine, At, In, session
<1>1. "adopt" \in LoopSteps /\ "new" \in Phases /\ e \in 0 .. MaxEngines
  BY Words, SessionAssumption DEF Engines
<1>2. /\ loop' \in [Loops -> LoopType] /\ \A k \in Loops : k # l => loop'[k] = loop[k]
      /\ loop'[l].gen = loop[l].gen /\ loop'[l].pc = "adopt"
      /\ loop'[l].e = e /\ loop'[l].last = loop[l].last
  BY <1>0, <1>1, ZenonT(60) DEF LoopType
<1>3. /\ run' \in [Engines -> RunType] /\ \A f \in Engines : f # e => run'[f] = run[f]
      /\ run'[e].phase = "new" /\ run'[e].ok = run[e].ok /\ run'[e].kept = run[e].kept
      /\ run'[e].result = run[e].result
  BY <1>0, <1>1 DEF RunType
<1> QED BY <1>0, <1>2, <1>3 DEF LoopOnly, RunOnly

\* Adopt by a stale loop: the engine is dropped and the loop ends.
LEMMA AdoptStaleDoes ==
  ASSUME Types, NEW l \in Loops, NEW e \in Engines, e = loop[l].e,
         Adopt(l), Stale(l)
  PROVE  /\ LoopOnly(l) /\ RunOnly(e) /\ UNCHANGED <<status, eng, host>>
         /\ loop[l].pc = "adopt" /\ loop'[l].pc = "exit"
         /\ loop'[l].todo = <<"release">>
         /\ loop'[l].e = loop[l].e /\ loop'[l].last = loop[l].last
         /\ run'[e].phase = "returned"
         /\ run'[e].ok = run[e].ok /\ run'[e].kept = run[e].kept
         /\ run'[e].result = run[e].result
<1>0. /\ loop \in [Loops -> LoopType] /\ run \in [Engines -> RunType]
      /\ loop[l].pc = "adopt" /\ UNCHANGED <<status, eng, host>>
      /\ UNCHANGED <<gen, stopCh, closed, rules, ui>>
      /\ Exit(l, <<"release">>, "disconnected")
      /\ run' = [run EXCEPT ![loop[l].e].phase = "returned"]
  BY DEF Types, Adopt, At
<1>1. "disconnected" \in SettledStatuses /\ <<"release">> \in Todos /\ "returned" \in Phases
  BY Words DEF Todos
<1>2. /\ LoopOnly(l) /\ loop'[l].pc = "exit"
      /\ loop'[l].e = loop[l].e /\ loop'[l].last = loop[l].last
      /\ loop'[l].todo = <<"release">>
  BY <1>0, <1>1, ExitDoes
<1>3. /\ run' \in [Engines -> RunType] /\ \A f \in Engines : f # e => run'[f] = run[f]
      /\ run'[e].phase = "returned" /\ run'[e].ok = run[e].ok /\ run'[e].kept = run[e].kept
      /\ run'[e].result = run[e].result
  BY <1>0, <1>1 DEF RunType
<1> QED BY <1>0, <1>2, <1>3 DEF RunOnly

\* Adopt by the current loop: its engine becomes the session's.
LEMMA AdoptCurrentDoes ==
  ASSUME Types, NEW l \in Loops, Adopt(l), ~Stale(l)
  PROVE  /\ LoopOnly(l) /\ UNCHANGED <<status, run, host>>
         /\ loop[l].pc = "adopt" /\ loop'[l].pc = "apply"
         /\ loop'[l].e = loop[l].e /\ loop'[l].last = loop[l].last
         /\ eng' = loop[l].e
<1>0. /\ loop \in [Loops -> LoopType]
      /\ loop[l].pc = "adopt" /\ UNCHANGED <<status, run, host>>
      /\ UNCHANGED <<gen, stopCh, closed, rules, ui>> /\ eng' = loop[l].e
      /\ loop' = [loop EXCEPT ![l].pc = "apply", ![l].rules = rules] /\ rules \in Nat
  BY DEF Types, Adopt, At
<1>1. "apply" \in LoopSteps
  BY Words
<1>2. /\ loop' \in [Loops -> LoopType] /\ \A k \in Loops : k # l => loop'[k] = loop[k]
      /\ loop'[l].gen = loop[l].gen /\ loop'[l].pc = "apply"
      /\ loop'[l].e = loop[l].e /\ loop'[l].last = loop[l].last
  BY <1>0, <1>1, ZenonT(60) DEF LoopType
<1> QED BY <1>0, <1>2 DEF LoopOnly

\* ApplyAndRun: the engine enters Run.
LEMMA ApplyAndRunDoes ==
  ASSUME Types, NEW l \in Loops, NEW e \in Engines, e = loop[l].e,
         ApplyAndRun(l)
  PROVE  /\ LoopOnly(l) /\ RunOnly(e) /\ UNCHANGED <<status, eng, host>>
         /\ loop[l].pc = "apply" /\ loop'[l].pc = "select"
         /\ loop'[l].e = loop[l].e /\ loop'[l].last = loop[l].last
         /\ run'[e].phase = "connecting"
         /\ run'[e].ok = run[e].ok /\ run'[e].kept = run[e].kept
         /\ run'[e].result = run[e].result
<1>0. /\ loop \in [Loops -> LoopType] /\ run \in [Engines -> RunType]
      /\ loop[l].pc = "apply" /\ UNCHANGED <<status, eng, host>>
      /\ UNCHANGED <<gen, stopCh, closed, rules, ui>> /\ Goto(l, "select")
      /\ run' = [run EXCEPT ![e].rules = loop[l].rules, ![e].phase = "connecting"]
  BY DEF Types, ApplyAndRun, At, session
<1>1. "select" \in LoopSteps /\ "connecting" \in Phases /\ loop[l].rules \in Nat
  BY <1>0, Words DEF LoopType
<1>2. /\ LoopOnly(l) /\ loop'[l].pc = "select"
      /\ loop'[l].e = loop[l].e /\ loop'[l].last = loop[l].last
  BY <1>0, <1>1, GotoDoes
<1>3. /\ run' \in [Engines -> RunType] /\ \A f \in Engines : f # e => run'[f] = run[f]
      /\ run'[e].phase = "connecting" /\ run'[e].ok = run[e].ok /\ run'[e].kept = run[e].kept
      /\ run'[e].result = run[e].result
  BY <1>0, <1>1 DEF RunType
<1> QED BY <1>0, <1>2, <1>3 DEF RunOnly

\* SelectReady: the first select is over; once the engine is ready, the one
\* before it has nothing left to restore.
LEMMA SelectReadyDoes ==
  ASSUME Types, NEW l \in Loops, SelectReady(l)
  PROVE  /\ LoopOnly(l) /\ UNCHANGED <<eng, run, host>>
         /\ loop[l].pc = "select" /\ loop'[l].pc = "wait"
         /\ loop'[l].e = loop[l].e
         /\ \/ loop'[l].last = loop[l].last
            \/ loop'[l].last = 0 /\ run[loop[l].e].ok
         /\ status' = status \/ status' \in ActiveStatuses
<1>0. /\ loop \in [Loops -> LoopType]
      /\ loop[l].pc = "select" /\ UNCHANGED <<eng, run, host>>
      /\ UNCHANGED <<gen, stopCh, closed, rules, ui>>
      /\ "wait" \in LoopSteps /\ 0 \in 0 .. MaxEngines
  BY Words, SessionAssumption DEF Types, SelectReady, At
<1>1. CASE run[loop[l].e].ok
  <2>1. loop' = [loop EXCEPT ![l].pc = "wait", ![l].last = 0, ![l].ever = TRUE]
    BY <1>1 DEF SelectReady
  <2>2. loop' \in [Loops -> LoopType]
    <3>1. loop'[l] = [loop[l] EXCEPT !.pc = "wait", !.last = 0, !.ever = TRUE] /\ loop[l] \in LoopType
      BY <1>0, <2>1
    <3>2. loop'[l] \in LoopType
      BY <1>0, <2>1, <3>1 DEF LoopType
    <3> QED BY <1>0, <2>1, <3>2
  <2>3. /\ \A k \in Loops : k # l => loop'[k] = loop[k]
        /\ loop'[l].gen = loop[l].gen /\ loop'[l].pc = "wait"
        /\ loop'[l].e = loop[l].e /\ loop'[l].last = 0
    BY <1>0, <2>1 DEF LoopType
  <2>4. status' = status \/ status' \in ActiveStatuses
    BY <1>1 DEF SelectReady, Updated, ActiveStatuses
  <2> QED BY <1>0, <1>1, <2>2, <2>3, <2>4 DEF LoopOnly
<1>2. CASE ~run[loop[l].e].ok
  <2>1. Goto(l, "wait") /\ status' = status
    BY <1>2 DEF SelectReady
  <2>2. LoopOnly(l) /\ loop'[l].pc = "wait"
        /\ loop'[l].e = loop[l].e /\ loop'[l].last = loop[l].last
    BY <1>0, <2>1, GotoDoes
  <2> QED BY <1>0, <2>1, <2>2
<1> QED BY <1>1, <1>2

\* SelectStop: the first select saw the stop channel.
LEMMA SelectStopDoes ==
  ASSUME Types, NEW l \in Loops, SelectStop(l)
  PROVE  /\ LoopOnly(l) /\ UNCHANGED <<status, eng, run, host>>
         /\ loop[l].pc = "select" /\ loop'[l].pc = "wait"
         /\ loop'[l].e = loop[l].e /\ loop'[l].last = loop[l].last
<1>0. /\ loop \in [Loops -> LoopType] /\ "wait" \in LoopSteps
      /\ loop[l].pc = "select" /\ UNCHANGED <<status, eng, run, host>>
      /\ UNCHANGED <<gen, stopCh, closed, rules, ui>> /\ Goto(l, "wait")
  BY Words DEF Types, SelectStop, At, session
<1> QED BY <1>0, GotoDoes

\* ReceiveDone: the loop has Run's result.
LEMMA ReceiveDoneDoes ==
  ASSUME Types, NEW l \in Loops, ReceiveDone(l)
  PROVE  /\ LoopOnly(l) /\ UNCHANGED <<status, eng, run, host>>
         /\ loop[l].pc \in {"select", "wait", "stopping"} /\ loop'[l].pc = "ended"
         /\ run[loop[l].e].phase = "returned"
         /\ loop'[l].e = loop[l].e /\ loop'[l].last = loop[l].last
<1>0. /\ loop \in [Loops -> LoopType] /\ "ended" \in LoopSteps
      /\ loop[l].pc \in {"select", "wait", "stopping"}
      /\ run[loop[l].e].phase = "returned"
      /\ UNCHANGED <<status, eng, run, host>>
      /\ UNCHANGED <<gen, stopCh, closed, rules, ui>> /\ Goto(l, "ended")
  BY Words DEF Types, ReceiveDone, At, session
<1> QED BY <1>0, GotoDoes

\* WaitStop: the loop closes the engine's stop channel.
LEMMA WaitStopDoes ==
  ASSUME Types, NEW l \in Loops, NEW e \in Engines, e = loop[l].e, WaitStop(l)
  PROVE  /\ LoopOnly(l) /\ RunOnly(e) /\ UNCHANGED <<status, eng, host>>
         /\ loop[l].pc = "wait" /\ loop'[l].pc = "stopping"
         /\ loop'[l].e = loop[l].e /\ loop'[l].last = loop[l].last
         /\ run'[e].phase = run[e].phase /\ run'[e].result = run[e].result
         /\ run'[e].ok = run[e].ok /\ run'[e].kept = run[e].kept
<1>0. /\ loop \in [Loops -> LoopType] /\ run \in [Engines -> RunType]
      /\ "stopping" \in LoopSteps /\ loop[l].pc = "wait"
      /\ UNCHANGED <<status, eng, host>>
      /\ UNCHANGED <<gen, stopCh, closed, rules, ui>> /\ Goto(l, "stopping")
      /\ run' = [run EXCEPT ![e].stop = TRUE]
  BY Words DEF Types, WaitStop, At, session
<1>1. /\ run' \in [Engines -> RunType] /\ \A f \in Engines : f # e => run'[f] = run[f]
      /\ run'[e].phase = run[e].phase /\ run'[e].result = run[e].result
      /\ run'[e].ok = run[e].ok /\ run'[e].kept = run[e].kept
  <2>1. run' \in [Engines -> RunType]
    <3>1. run'[e] = [run[e] EXCEPT !.stop = TRUE] /\ run[e] \in RunType
      BY <1>0
    <3>2. run'[e] \in RunType
      BY <1>0, <3>1 DEF RunType
    <3> QED BY <1>0, <3>2
  <2>2. /\ \A f \in Engines : f # e => run'[f] = run[f]
        /\ run'[e].phase = run[e].phase /\ run'[e].result = run[e].result
        /\ run'[e].ok = run[e].ok /\ run'[e].kept = run[e].kept
    BY <1>0 DEF RunType
  <2> QED BY <2>1, <2>2
<1>2. LoopOnly(l) /\ loop'[l].pc = "stopping"
      /\ loop'[l].e = loop[l].e /\ loop'[l].last = loop[l].last
  BY <1>0, GotoDoes
<1> QED BY <1>0, <1>1, <1>2 DEF RunOnly

\* CloseEngine: the session lets go of the engine.
LEMMA CloseEngineDoes ==
  ASSUME Types, NEW l \in Loops, CloseEngine(l)
  PROVE  /\ LoopOnly(l) /\ UNCHANGED <<status, run, host>>
         /\ loop[l].pc = "ended" /\ loop'[l].pc = "decide"
         /\ loop'[l].e = loop[l].e /\ loop'[l].last = loop[l].last
         /\ eng' = IF eng = loop[l].e THEN 0 ELSE eng
<1>0. /\ loop \in [Loops -> LoopType] /\ "decide" \in LoopSteps
      /\ loop[l].pc = "ended" /\ UNCHANGED <<status, run, host>>
      /\ UNCHANGED <<gen, stopCh, closed, rules, ui>> /\ Goto(l, "decide")
      /\ eng' = IF eng = loop[l].e THEN 0 ELSE eng
  BY Words DEF Types, CloseEngine, At
<1>1. LoopOnly(l) /\ loop'[l].pc = "decide"
      /\ loop'[l].e = loop[l].e /\ loop'[l].last = loop[l].last
  BY <1>0, GotoDoes
<1> QED BY <1>0, <1>1

\* Decide: an engine that kept its rules becomes lastEng.
LEMMA DecideDoes ==
  ASSUME Types, NEW l \in Loops, Decide(l)
  PROVE  /\ LoopOnly(l) /\ UNCHANGED <<eng, run, host>>
         /\ loop[l].pc = "decide" /\ loop'[l].pc \in {"countdown", "exit"}
         /\ loop'[l].e = loop[l].e
         /\ loop'[l].last = IF run[loop[l].e].result = "drop" THEN loop[l].e
                                                              ELSE loop[l].last
         /\ loop'[l].pc = "exit" => loop'[l].todo = <<"release", "finish">>
         /\ status' = status \/ status' \in ActiveStatuses
<1> DEFINE me == loop[l]
           last == IF run[me.e].result = "drop" THEN me.e ELSE me.last
           pc   == IF l \notin closed /\ me.ever THEN "countdown" ELSE "exit"
           left == IF pc = "exit" THEN <<"release", "finish">> ELSE <<>>
           final == IF l \in closed THEN "disconnected" ELSE "error"
<1>0. /\ loop \in [Loops -> LoopType] /\ loop[l].pc = "decide"
      /\ UNCHANGED <<eng, run, host>> /\ UNCHANGED <<gen, stopCh, closed, rules, ui>>
  BY DEF Types, Decide, At
<1>t. loop \in [Loops -> LoopType]
  BY DEF Types
<1>1. loop' = [loop EXCEPT ![l].pc = pc, ![l].last = last, ![l].todo = left, ![l].final = final]
  BY DEF Decide
<1>2. pc \in LoopSteps /\ final \in SettledStatuses /\ left \in Todos
  BY DEF LoopSteps, SettledStatuses, Todos
<1>3. last \in 0 .. MaxEngines
  BY <1>0 DEF LoopType
<1>4. status' = status \/ status' \in ActiveStatuses
  BY DEF Decide, Updated, ActiveStatuses
<1>5. pc \in {"countdown", "exit"} /\ (pc = "exit" => left = <<"release", "finish">>)
  OBVIOUS
<1>6. PICK p \in LoopSteps, s \in SettledStatuses, t \in Todos, x \in 0 .. MaxEngines :
        p = pc /\ s = final /\ t = left /\ x = last
  BY <1>2, <1>3
<1>7. loop' = [loop EXCEPT ![l].pc = p, ![l].last = x, ![l].todo = t, ![l].final = s]
  BY <1>1, <1>6
<1>9. x = IF run[loop[l].e].result = "drop" THEN loop[l].e ELSE loop[l].last
  BY <1>6
<1> HIDE DEF pc, last, left, final, me
<1>8. /\ loop' \in [Loops -> LoopType] /\ \A k \in Loops : k # l => loop'[k] = loop[k]
      /\ loop'[l].gen = loop[l].gen /\ loop'[l].pc = p
      /\ loop'[l].e = loop[l].e /\ loop'[l].last = x /\ loop'[l].todo = t
  <2> DEFINE r == [loop[l] EXCEPT !.pc = p, !.last = x, !.todo = t, !.final = s]
  <2>1. loop[l] \in LoopType
    BY <1>t
  <2>2. r \in LoopType /\ r.gen = loop[l].gen /\ r.pc = p /\ r.e = loop[l].e
        /\ r.last = x /\ r.todo = t
    BY <2>1 DEF LoopType
  <2>3. loop' = [loop EXCEPT ![l] = r]
    BY <1>7
  <2> HIDE DEF r
  <2> QED BY <1>t, <2>2, <2>3
<1>10. p \in {"countdown", "exit"} /\ (p = "exit" => t = <<"release", "finish">>)
  BY <1>5, <1>6
<1> QED BY <1>0, <1>4, <1>8, <1>9, <1>10 DEF LoopOnly

\* CountdownStop: the loop ends, finish before release.
LEMMA CountdownStopDoes ==
  ASSUME Types, NEW l \in Loops, CountdownStop(l)
  PROVE  /\ LoopOnly(l) /\ UNCHANGED <<status, eng, run, host>>
         /\ loop[l].pc = "countdown" /\ loop'[l].pc = "exit"
         /\ loop'[l].e = loop[l].e /\ loop'[l].last = loop[l].last
         /\ loop'[l].todo = <<"finish", "release">>
<1>0. /\ loop \in [Loops -> LoopType] /\ loop[l].pc = "countdown"
      /\ UNCHANGED <<status, eng, run, host>>
      /\ UNCHANGED <<gen, stopCh, closed, rules, ui>>
      /\ Exit(l, <<"finish", "release">>, "disconnected")
  BY DEF Types, CountdownStop, At, session
<1>1. "disconnected" \in SettledStatuses /\ <<"finish", "release">> \in Todos
  BY Words DEF Todos
<1> QED BY <1>0, <1>1, ExitDoes

\* CountdownEnd: the loop starts over.
LEMMA CountdownEndDoes ==
  ASSUME Types, NEW l \in Loops, CountdownEnd(l)
  PROVE  /\ LoopOnly(l) /\ UNCHANGED <<eng, run, host>>
         /\ loop[l].pc = "countdown" /\ loop'[l].pc = "start"
         /\ loop'[l].e = loop[l].e /\ loop'[l].last = loop[l].last
         /\ status' = status \/ status' \in ActiveStatuses
<1>0. /\ loop \in [Loops -> LoopType] /\ loop[l].pc = "countdown"
      /\ UNCHANGED <<eng, run, host>> /\ UNCHANGED <<gen, stopCh, closed, rules, ui>>
      /\ Goto(l, "start") /\ "start" \in LoopSteps
  BY Words DEF Types, CountdownEnd, At
<1>1. status' = status \/ status' \in ActiveStatuses
  BY DEF CountdownEnd, Updated, ActiveStatuses
<1> QED BY <1>0, <1>1, GotoDoes

\* The rest of what a loop has left to do is of its type.
LEMMA TailTodo ==
  ASSUME NEW t \in Todos, t # <<>>
  PROVE  Tail(t) \in Todos
<1>1. /\ Tail(<<"release">>) = <<>> /\ Tail(<<"finish">>) = <<>>
      /\ Tail(<<"release", "finish">>) = <<"finish">>
      /\ Tail(<<"finish", "release">>) = <<"release">>
  OBVIOUS
<1> QED BY <1>1, Zenon DEF Todos

\* Release: lastEng is forgotten; what it kept is restored.
LEMMA ReleaseDoes ==
  ASSUME Types, NEW l \in Loops, Release(l)
  PROVE  /\ LoopOnly(l) /\ UNCHANGED <<status, eng>>
         /\ loop[l].pc = "exit" /\ loop'[l].pc = "exit"
         /\ loop'[l].e = loop[l].e /\ loop'[l].last = 0
         /\ loop[l].todo # <<>> /\ loop'[l].todo = Tail(loop[l].todo)
<1>0. /\ loop \in [Loops -> LoopType] /\ loop[l].pc = "exit" /\ UNCHANGED <<status, eng>>
      /\ UNCHANGED <<gen, stopCh, closed, rules, ui>> /\ loop[l].todo # <<>>
      /\ loop' = [loop EXCEPT ![l].todo = Tail(@), ![l].last = 0]
  BY DEF Types, Release, At, session
<1>t. loop \in [Loops -> LoopType]
  BY DEF Types
<1>1. PICK t \in Todos : t = Tail(loop[l].todo)
  <2>1. loop[l].todo \in Todos
    BY <1>0 DEF LoopType
  <2> QED BY <1>0, <2>1, TailTodo
<1>2. loop' = [loop EXCEPT ![l].todo = t, ![l].last = 0] /\ 0 \in 0 .. MaxEngines
  BY <1>0, <1>1, SessionAssumption
<1>3. /\ loop' \in [Loops -> LoopType] /\ \A k \in Loops : k # l => loop'[k] = loop[k]
      /\ loop'[l].gen = loop[l].gen /\ loop'[l].pc = loop[l].pc
      /\ loop'[l].e = loop[l].e /\ loop'[l].last = 0 /\ loop'[l].todo = t
  BY <1>t, <1>2 DEF LoopType
<1> QED BY <1>0, <1>1, <1>3 DEF LoopOnly

\* What Release does to the host and to the engine that kept its rules.
LEMMA ReleaseRestores ==
  ASSUME Types, NEW l \in Loops, Release(l)
  PROVE  \/ /\ UNCHANGED <<host, run>>
            /\ loop[l].last # 0 => ~run[loop[l].last].kept
         \/ /\ loop[l].last \in Engines /\ RunOnly(loop[l].last)
            /\ RestoreHost(loop[l].last)
            /\ run'[loop[l].last].kept = FALSE
            /\ run'[loop[l].last].phase = run[loop[l].last].phase
            /\ run'[loop[l].last].result = run[loop[l].last].result
            /\ run'[loop[l].last].ok = run[loop[l].last].ok
<1>0. /\ loop \in [Loops -> LoopType] /\ run \in [Engines -> RunType]
  BY DEF Types
<1>1. PICK e \in 0 .. MaxEngines : e = loop[l].last
  BY <1>0 DEF LoopType
<1>2. CASE e # 0 /\ run[e].kept
  <2>1. RestoreHost(e) /\ run' = [run EXCEPT ![e].kept = FALSE]
    BY <1>1, <1>2 DEF Release
  <2>2. e \in Engines
    BY <1>2, SessionAssumption DEF Engines
  <2>3. /\ run' \in [Engines -> RunType] /\ \A f \in Engines : f # e => run'[f] = run[f]
        /\ run'[e].phase = run[e].phase /\ run'[e].result = run[e].result
        /\ run'[e].ok = run[e].ok /\ run'[e].kept = FALSE
    BY <1>0, <2>1, <2>2 DEF RunType
  <2> QED BY <1>1, <2>1, <2>2, <2>3 DEF RunOnly
<1>3. CASE ~(e # 0 /\ run[e].kept)
  BY <1>1, <1>3 DEF Release
<1> QED BY <1>2, <1>3

\* Finish: the loop settles the session's status.
LEMMA FinishDoes ==
  ASSUME Types, NEW l \in Loops, Finish(l)
  PROVE  /\ LoopOnly(l) /\ UNCHANGED <<eng, run, host>>
         /\ loop[l].pc = "exit" /\ loop'[l].pc = "exit"
         /\ loop'[l].e = loop[l].e /\ loop'[l].last = loop[l].last
         /\ loop[l].todo # <<>> /\ Head(loop[l].todo) = "finish"
         /\ loop'[l].todo = Tail(loop[l].todo)
         /\ status' = IF Stale(l) /\ stopCh # 0 THEN status ELSE loop[l].final
         /\ status' \in Statuses
<1>0. /\ loop \in [Loops -> LoopType] /\ loop[l].pc = "exit" /\ UNCHANGED <<eng, run, host>>
      /\ UNCHANGED <<gen, stopCh, closed, rules, ui>> /\ loop[l].todo # <<>>
      /\ Head(loop[l].todo) = "finish" /\ loop' = [loop EXCEPT ![l].todo = Tail(@)]
  BY DEF Types, Finish, At
<1>t. loop \in [Loops -> LoopType]
  BY DEF Types
<1>1. PICK t \in Todos : t = Tail(loop[l].todo)
  <2>1. loop[l].todo \in Todos
    BY <1>0 DEF LoopType
  <2> QED BY <1>0, <2>1, TailTodo
<1>2. loop' = [loop EXCEPT ![l].todo = t]
  BY <1>0, <1>1
<1>3. /\ loop' \in [Loops -> LoopType] /\ \A k \in Loops : k # l => loop'[k] = loop[k]
      /\ loop'[l].gen = loop[l].gen /\ loop'[l].pc = loop[l].pc
      /\ loop'[l].e = loop[l].e /\ loop'[l].last = loop[l].last /\ loop'[l].todo = t
  BY <1>t, <1>2 DEF LoopType
<1>4. status' = IF Stale(l) /\ stopCh # 0 THEN status ELSE loop[l].final
  BY DEF Finish, Finished
<1>5. loop[l].final \in SettledStatuses
  BY <1>0 DEF LoopType
<1>6. status' \in Statuses
  BY <1>4, <1>5 DEF Types, Statuses
<1> QED BY <1>0, <1>1, <1>3, <1>4, <1>6 DEF LoopOnly

\* LoopReturns: the loop is over.
LEMMA LoopReturnsDoes ==
  ASSUME Types, NEW l \in Loops, LoopReturns(l)
  PROVE  /\ LoopOnly(l) /\ UNCHANGED <<status, eng, run, host>>
         /\ loop[l].pc = "exit" /\ loop[l].todo = <<>> /\ loop'[l].pc = "done"
         /\ loop'[l].e = loop[l].e /\ loop'[l].last = loop[l].last
<1>0. /\ loop \in [Loops -> LoopType] /\ loop[l].pc = "exit" /\ loop[l].todo = <<>>
      /\ UNCHANGED <<status, eng, run, host>>
      /\ UNCHANGED <<gen, stopCh, closed, rules, ui>>
      /\ Goto(l, "done") /\ "done" \in LoopSteps
  BY Words DEF Types, LoopReturns, At, session
<1> QED BY <1>0, GotoDoes

\* Connect: a loop of a new generation, which stopCh stops.
LEMMA ConnectDoes ==
  ASSUME Types, NEW l \in Loops, Connect(l)
  PROVE  /\ loop' \in [Loops -> LoopType]
         /\ \A k \in Loops : k # l => loop'[k] = loop[k]
         /\ loop[l].pc = "none" /\ loop'[l].pc = "start"
         /\ \A k \in 1 .. (l - 1) : loop[k].pc # "none"
         /\ loop'[l].gen = gen + 1 /\ gen' = gen + 1 /\ stopCh' = l
         /\ loop'[l].e = loop[l].e /\ loop'[l].last = loop[l].last
         /\ ~Active /\ ui.pc = "idle" /\ status' = "connecting"
         /\ UNCHANGED <<closed, eng, rules, run, host, ui>>
<1>0. /\ loop \in [Loops -> LoopType] /\ loop[l].pc = "none" /\ gen \in Nat
      /\ \A k \in 1 .. (l - 1) : loop[k].pc # "none"
      /\ loop' = [loop EXCEPT ![l].pc = "start", ![l].gen = gen + 1]
      /\ gen' = gen + 1 /\ stopCh' = l
      /\ ~Active /\ ui.pc = "idle" /\ status' = "connecting"
      /\ UNCHANGED <<closed, eng, rules, run, host, ui>>
  BY DEF Types, Connect
<1>1. "start" \in LoopSteps /\ gen + 1 \in Nat
  BY <1>0, Words
<1>2. /\ loop' \in [Loops -> LoopType] /\ \A k \in Loops : k # l => loop'[k] = loop[k]
      /\ loop'[l].gen = gen + 1 /\ loop'[l].pc = "start"
      /\ loop'[l].e = loop[l].e /\ loop'[l].last = loop[l].last
  BY <1>0, <1>1, ZenonT(60) DEF LoopType
<1> QED BY <1>0, <1>2

\* Disconnect, and Quit while the session is active: the stop channel is
\* closed and the generation moves on.
Stops ==
  /\ closed' = closed \union ({stopCh} \ {0}) /\ stopCh' = 0 /\ gen' = gen + 1
  /\ Prompt => OlderEnded
  /\ UNCHANGED <<status, eng, rules, loop, run, host>>
  /\ ui.pc = "idle" /\ ui'.pc \in {"idle", "settle", "quitsettle", "quit"}
  /\ ui'.pc \in {"settle", "quitsettle"} => eng = 0

\* The other steps of the UI leave the session's loops and channels alone.
UIOnly ==
  /\ UNCHANGED <<gen, stopCh, closed, eng, loop, host>>
  /\ ui'.pc \in {"settle", "quitsettle", "quit"} => ui.pc \in {"settle", "quitsettle"}
  /\ ui'.pc \notin {"settle", "quitsettle"}
  /\ ui'.pc = "apply" => ui'.e # 0
  /\ \/ status' = status
     \/ ui.pc \in {"settle", "quitsettle"} /\ status' \in SettledStatuses
  /\ run' \in [Engines -> RunType]
  /\ \A e \in Engines :
       /\ run'[e].phase = run[e].phase /\ run'[e].ok = run[e].ok
       /\ run'[e].kept = run[e].kept /\ run'[e].result = run[e].result

\* Disconnect stops.
LEMMA DisconnectDoes == ASSUME Types, Disconnect PROVE Stops /\ ui' \in UIType
<1>0. ui \in UIType
  BY DEF Types
<1>1. PICK p \in UIPCs, d \in Nat : p = AfterStop("idle") /\ d = ui.disconnects + 1
  BY <1>0 DEF AfterStop, UIPCs, UIType
<1>2. ui' = [ui EXCEPT !.pc = p, !.disconnects = d]
  BY <1>1 DEF Disconnect
<1>3. ui' \in UIType /\ ui'.pc = p
  BY <1>0, <1>2 DEF UIType
<1>4. p \in {"idle", "settle", "quitsettle", "quit"}
      /\ (p \in {"settle", "quitsettle"} => eng = 0)
  BY <1>1 DEF AfterStop
<1> QED BY <1>3, <1>4 DEF Disconnect, CloseStop, Stops

\* Quit stops an active session and leaves a settled one alone.
LEMMA QuitDoes == ASSUME Types, Quit PROVE (Stops \/ UIOnly) /\ ui' \in UIType
<1>0. ui \in UIType /\ run \in [Engines -> RunType]
  BY DEF Types
<1>1. CASE Active
  <2>1. PICK p \in UIPCs : p = IF eng = 0 THEN "quitsettle" ELSE "quit"
    BY DEF UIPCs
  <2>2. ui' = [ui EXCEPT !.pc = p]
    BY <1>1, <2>1 DEF Quit
  <2>3. ui' \in UIType /\ ui'.pc = p
    BY <1>0, <2>2 DEF UIType
  <2>4. p \in {"idle", "settle", "quitsettle", "quit"}
        /\ (p \in {"settle", "quitsettle"} => eng = 0)
    BY <2>1
  <2> QED BY <1>1, <2>3, <2>4 DEF Quit, CloseStop, Stops
<1>2. CASE ~Active
  <2>1. ui' = [ui EXCEPT !.pc = "exited"] /\ "exited" \in UIPCs
    BY <1>2 DEF Quit, UIPCs
  <2>2. ui' \in UIType /\ ui'.pc = "exited"
    BY <1>0, <2>1 DEF UIType
  <2> QED BY <1>0, <1>2, <2>2 DEF Quit, UIOnly
<1> QED BY <1>1, <1>2

\* Settle.
LEMMA SettleDoes == ASSUME Types, Settle PROVE UIOnly /\ ui' \in UIType /\ rules' = rules
<1>0. ui \in UIType /\ run \in [Engines -> RunType]
  BY DEF Types
<1>1. PICK p \in UIPCs : p = IF ui.pc = "settle" THEN "idle" ELSE "quit"
  BY DEF UIPCs
<1>2. ui' = [ui EXCEPT !.pc = p]
  BY <1>0, <1>1 DEF Settle, UIType
<1>3. ui' \in UIType /\ ui'.pc = p
  BY <1>0, <1>2 DEF UIType
<1>4. status' = status \/ status' \in SettledStatuses
  BY DEF Settle, SettledStatuses
<1>5. p \notin {"settle", "quitsettle", "apply"}
  BY <1>1
<1> QED BY <1>0, <1>3, <1>4, <1>5 DEF Settle, UIOnly

\* SetRules and ApplyRules touch rules only.
LEMMA RulesDo ==
  ASSUME Types, SetRules \/ (ApplyRules /\ ui.e \in Engines)
  PROVE  UIOnly /\ ui' \in UIType /\ rules' \in Nat
<1>0. ui \in UIType /\ run \in [Engines -> RunType] /\ rules \in Nat /\ eng \in 0 .. MaxEngines
  BY DEF Types
<1>1. CASE SetRules
  <2>1. PICK p \in UIPCs : p = IF eng = 0 THEN "idle" ELSE "apply"
    BY DEF UIPCs
  <2>2. ui' = [ui EXCEPT !.pc = p, !.e = eng]
    BY <1>1, <2>1 DEF SetRules
  <2>3. ui' \in UIType /\ ui'.pc = p /\ ui'.e = eng
    BY <1>0, <2>2 DEF UIType
  <2>4. p \notin {"settle", "quitsettle", "quit"} /\ (p = "apply" => eng # 0)
    BY <2>1
  <2> QED BY <1>0, <1>1, <2>3, <2>4 DEF SetRules, UIOnly
<1>2. CASE ApplyRules /\ ui.e \in Engines
  <2>1. ui' = [ui EXCEPT !.pc = "idle", !.e = 0] /\ "idle" \in UIPCs /\ 0 \in 0 .. MaxEngines
    BY <1>2, SessionAssumption DEF ApplyRules, UIPCs
  <2>2. ui' \in UIType /\ ui'.pc = "idle"
    BY <1>0, <2>1 DEF UIType
  <2>3. PICK e \in Engines : e = ui.e
    BY <1>2
  <2>4. run' = [run EXCEPT ![e].rules = rules]
    BY <1>2, <2>3 DEF ApplyRules
  <2>5. run' \in [Engines -> RunType] /\ \A f \in Engines :
          /\ run'[f].phase = run[f].phase /\ run'[f].ok = run[f].ok
          /\ run'[f].kept = run[f].kept /\ run'[f].result = run[f].result
    BY <1>0, <2>4 DEF RunType
  <2> QED BY <1>0, <1>2, <2>2, <2>5 DEF ApplyRules, UIOnly, session, host
<1> QED BY <1>1, <1>2

\* The process ends.
LEMMA LeavesDo ==
  ASSUME Types, QuitReturns \/ QuitDeadline
  PROVE  UIOnly /\ ui' \in UIType /\ rules' = rules
<1>0. ui \in UIType /\ run \in [Engines -> RunType]
  BY DEF Types
<1>1. PICK p \in UIPCs : p \in {"exited", "timedout"} /\ ui' = [ui EXCEPT !.pc = p]
  BY DEF QuitReturns, QuitDeadline, UIPCs
<1>2. ui' \in UIType /\ ui'.pc = p
  BY <1>0, <1>1 DEF UIType
<1>3. p \notin {"settle", "quitsettle", "quit", "apply"}
  BY <1>1
<1> QED BY <1>0, <1>2, <1>3 DEF QuitReturns, QuitDeadline, UIOnly, session, host

\* An engine that returns.
LEMMA ReturnedDoes ==
  ASSUME run \in [Engines -> RunType], NEW e \in Engines, NEW r \in Results,
         Returned(e, r)
  PROVE  /\ RunOnly(e) /\ run'[e].phase = "returned" /\ run'[e].result = r
         /\ run'[e].ok = run[e].ok /\ run'[e].kept = run[e].kept
<1>1. run' = [run EXCEPT ![e].phase = "returned", ![e].result = r] /\ "returned" \in Phases
  BY Words DEF Returned
<1>2. /\ run' \in [Engines -> RunType] /\ \A f \in Engines : f # e => run'[f] = run[f]
      /\ run'[e].phase = "returned" /\ run'[e].result = r
      /\ run'[e].ok = run[e].ok /\ run'[e].kept = run[e].kept
  BY <1>1 DEF RunType
<1> QED BY <1>2 DEF RunOnly

\* Clean: stale rules and IPv6 state are gone.
LEMMA CleanDoes ==
  ASSUME Types, NEW e \in Engines, Clean(e)
  PROVE  /\ RunOnly(e) /\ run[e].phase = "connecting" /\ run'[e].phase = "cleaned"
         /\ run'[e].ok = run[e].ok /\ run'[e].kept = run[e].kept
         /\ run'[e].result = run[e].result
<1>1. /\ run \in [Engines -> RunType] /\ "cleaned" \in Phases
      /\ run' = [run EXCEPT ![e].phase = "cleaned"] /\ run[e].phase = "connecting"
  BY Words DEF Types, Clean, In
<1>2. /\ run' \in [Engines -> RunType] /\ \A f \in Engines : f # e => run'[f] = run[f]
      /\ run'[e].phase = "cleaned" /\ run'[e].ok = run[e].ok /\ run'[e].kept = run[e].kept
      /\ run'[e].result = run[e].result
  BY <1>1 DEF RunType
<1> QED BY <1>1, <1>2 DEF RunOnly

\* SetupDone: the engine is up.
LEMMA SetupDoneDoes ==
  ASSUME Types, HostTypes, NEW e \in Engines, SetupDone(e)
  PROVE  /\ RunOnly(e) /\ run[e].phase = "cleaned" /\ run'[e].phase = "up"
         /\ run'[e].ok = TRUE /\ run'[e].kept = run[e].kept
         /\ run'[e].result = run[e].result
<1>1. /\ run \in [Engines -> RunType] /\ "up" \in Phases /\ dns \in Servers
      /\ run' = [run EXCEPT ![e].phase = "up", ![e].ok = TRUE, ![e].prevDNS = dns]
      /\ run[e].phase = "cleaned"
  BY Words DEF Types, HostTypes, SetupDone, In
<1>2. run' \in [Engines -> RunType]
  <2>1. run'[e] = [run[e] EXCEPT !.phase = "up", !.ok = TRUE, !.prevDNS = dns] /\ run[e] \in RunType
    BY <1>1
  <2>2. run'[e] \in RunType
    BY <1>1, <2>1 DEF RunType
  <2> QED BY <1>1, <2>2
<1>3. /\ \A f \in Engines : f # e => run'[f] = run[f]
      /\ run'[e].phase = "up" /\ run'[e].ok = TRUE /\ run'[e].kept = run[e].kept
      /\ run'[e].result = run[e].result
  BY <1>1 DEF RunType
<1> QED BY <1>1, <1>2, <1>3 DEF RunOnly

\* Drop: the engine is on its way to a reconnect.
LEMMA DropDoes ==
  ASSUME Types, NEW e \in Engines, Drop(e)
  PROVE  /\ RunOnly(e) /\ run[e].phase = "up" /\ run'[e].phase = "dropping"
         /\ run'[e].ok = run[e].ok /\ run'[e].kept = run[e].kept
         /\ run'[e].result = run[e].result
<1>1. /\ run \in [Engines -> RunType] /\ "dropping" \in Phases
      /\ run' = [run EXCEPT ![e].phase = "dropping"] /\ run[e].phase = "up"
  BY Words DEF Types, Drop, In
<1>2. /\ run' \in [Engines -> RunType] /\ \A f \in Engines : f # e => run'[f] = run[f]
      /\ run'[e].phase = "dropping" /\ run'[e].ok = run[e].ok /\ run'[e].kept = run[e].kept
      /\ run'[e].result = run[e].result
  BY <1>1 DEF RunType
<1> QED BY <1>1, <1>2 DEF RunOnly

\* KeepRules: one more command, or the rules are left for the session.
LEMMA KeepRulesDoes ==
  ASSUME Types, NEW e \in Engines, KeepRules(e)
  PROVE  /\ RunOnly(e) /\ run[e].phase \in {"dropping", "reinstall"}
         /\ run'[e].ok = run[e].ok
         /\ \/ /\ run'[e].phase = "reinstall" /\ run'[e].kept = run[e].kept
               /\ run'[e].result = run[e].result
            \/ /\ run'[e].phase = "returned" /\ run'[e].kept = TRUE
               /\ run'[e].result = "drop"
<1>1. /\ run \in [Engines -> RunType] /\ "reinstall" \in Phases /\ "returned" \in Phases
      /\ "drop" \in Results /\ run[e].phase \in {"dropping", "reinstall"}
  BY Words DEF Types, KeepRules
<1>2. CASE RemovesFirst(e)
  <2>1. run' = [run EXCEPT ![e].phase = "reinstall"]
    BY <1>2 DEF KeepRules
  <2>2. /\ run' \in [Engines -> RunType] /\ \A f \in Engines : f # e => run'[f] = run[f]
        /\ run'[e].phase = "reinstall" /\ run'[e].ok = run[e].ok /\ run'[e].kept = run[e].kept
        /\ run'[e].result = run[e].result
    BY <1>1, <2>1 DEF RunType
  <2> QED BY <1>1, <2>2 DEF RunOnly
<1>3. CASE ~RemovesFirst(e)
  <2>1. run' = [run EXCEPT ![e].phase = "returned", ![e].result = "drop", ![e].kept = TRUE]
    BY <1>3 DEF KeepRules, Kept
  <2>2. run' \in [Engines -> RunType]
    <3>1. run'[e] = [run[e] EXCEPT !.phase = "returned", !.result = "drop", !.kept = TRUE] /\ run[e] \in RunType
      BY <1>1, <2>1
    <3>2. run'[e] \in RunType
      BY <1>1, <2>1, <3>1 DEF RunType
    <3> QED BY <1>1, <2>1, <3>2
  <2>3. /\ \A f \in Engines : f # e => run'[f] = run[f]
        /\ run'[e].phase = "returned" /\ run'[e].ok = run[e].ok /\ run'[e].kept = TRUE
        /\ run'[e].result = "drop"
    BY <1>1, <2>1 DEF RunType
  <2> QED BY <1>1, <2>2, <2>3 DEF RunOnly
<1> QED BY <1>2, <1>3

\* A step of an engine inside Run.
RunMove(e) ==
  /\ RunOnly(e) /\ UNCHANGED <<session, loop, ui>>
  /\ Running(e) /\ run'[e].phase \notin {"none", "new"}

\* The steps of Engine.Run are steps of an engine inside Run.
LEMMA RunMoves ==
  ASSUME Types, HostTypes, NEW e \in Engines,
         DialStep(e) \/ RunStep(e) \/ ProxyEnds(e) \/ Drop(e)
  PROVE  RunMove(e)
<1>0. run \in [Engines -> RunType] /\ "error" \in Results /\ "nil" \in Results
  BY Words DEF Types
<1>1. CASE ConnectFails(e) \/ ValidationFails(e) \/ SetupFails(e) \/ RunStops(e) \/ ProxyEnds(e)
  <2>1. RunOnly(e) /\ run'[e].phase = "returned"
    BY <1>0, <1>1, ReturnedDoes DEF ConnectFails, ValidationFails, SetupFails, RunStops, ProxyEnds
  <2> QED BY <1>1, <2>1 DEF RunMove, Running, In, ConnectFails, ValidationFails,
          SetupFails, RunStops, ProxyEnds
<1>2. CASE Clean(e)
  BY <1>2, CleanDoes DEF RunMove, Running, Clean
<1>3. CASE SetupDone(e)
  BY <1>3, SetupDoneDoes DEF RunMove, Running, SetupDone
<1>4. CASE Drop(e)
  BY <1>4, DropDoes DEF RunMove, Running, Drop
<1>5. CASE KeepRules(e)
  BY <1>5, KeepRulesDoes DEF RunMove, Running, KeepRules
<1> QED BY <1>1, <1>2, <1>3, <1>4, <1>5 DEF DialStep, RunStep

---------------------------------------------------------------------------
(* Who runs an engine                                                      *)

Started(l) == loop[l].pc # "none"
Over(l)    == loop[l].pc \in {"exit", "done"}

\* The loop has made its engine the session's and not yet let go of it.
Holds(l) == loop[l].pc \in {"apply", "select", "wait", "stopping", "ended"}

\* The loop has an engine that it has not decided about.
Drives(l) == Holds(l) \/ loop[l].pc \in {"adopt", "decide"}

\* The loop waits for Run to return.
Waits(l) == loop[l].pc \in {"select", "wait", "stopping"}

\* The generations say which loop is the current one: the one stopCh stops.
Generations ==
  \A l \in Loops :
    /\ loop[l].gen <= gen
    /\ Started(l) => (loop[l].gen = gen <=> stopCh = l)
    /\ ~Started(l) => stopCh # l /\ l \notin closed

\* No stop channel is closed twice; a loop nobody can stop is on its way out.
Stoppable ==
  /\ stopCh \notin closed
  /\ \A l \in Loops : Started(l) /\ l \notin closed /\ stopCh # l => Over(l)

\* A settled status is of a loop that is on its way out, or of none.
Settles ==
  /\ status \in SettledStatuses /\ stopCh # 0 => Over(stopCh)
  /\ ui.pc \in {"settle", "quitsettle", "quit"} => stopCh = 0
  /\ ui.pc = "apply" => ui.e # 0

\* Every loop has its own engine, new until the loop has started Run.
OwnEngines ==
  \A l \in Loops :
    /\ loop[l].e # 0 => run[loop[l].e].phase # "none"
    /\ \A k \in Loops : k # l /\ loop[k].e = loop[l].e => loop[l].e = 0
    /\ Drives(l) => loop[l].e # 0
    /\ loop[l].pc \in {"adopt", "apply"} => run[loop[l].e].phase = "new"

\* Some loop waits for every engine inside Run.
Awaited ==
  \A e \in Engines : Running(e) => \E l \in Loops : loop[l].e = e /\ Waits(l)

\* The engine of a loop that was not stopped is the session's.
SessionHas == \A l \in Loops : Holds(l) /\ l \notin closed => eng = loop[l].e

OwnInv ==
  Types /\ HostTypes /\ Generations /\ Stoppable /\ Settles /\ OwnEngines
    /\ Awaited /\ SessionHas

---------------------------------------------------------------------------
(* The ownership invariant is preserved                                    *)

\* What every step of a loop that was started has in common.
LoopMove(l) ==
  /\ LoopOnly(l) /\ Started(l) /\ loop[l].pc # "done" /\ loop'[l].pc # "none"
  /\ Over(l) => loop'[l].pc \in {"exit", "done"}
  /\ \/ status' = status
     \/ status' \in ActiveStatuses
     \/ /\ loop[l].pc = "exit" /\ loop'[l].pc = "exit" /\ status' \in Statuses
        /\ status' = IF Stale(l) /\ stopCh # 0 THEN status ELSE loop[l].final

\* A step of a loop that takes, starts or gives up no engine.
Quiet(l) ==
  /\ eng' = eng /\ loop'[l].e = loop[l].e
  /\ run' \in [Engines -> RunType]
  /\ \A e \in Engines : run'[e].phase = run[e].phase
  /\ loop'[l].pc \notin {"adopt", "apply"}
  /\ loop'[l].pc \in {"select", "wait", "stopping", "ended"} => Waits(l)
  /\ loop'[l].pc = "decide" => Drives(l)
  /\ Waits(l) => \/ loop'[l].pc \in {"select", "wait", "stopping"}
                 \/ run[loop[l].e].phase = "returned"

\* A loop's engine is an engine.
LEMMA EngineOf ==
  ASSUME Types, NEW l \in Loops, loop[l].e # 0
  PROVE  loop[l].e \in Engines
<1>1. loop[l].e \in 0 .. MaxEngines
  BY DEF Types, LoopType
<1> QED BY <1>1, SessionAssumption DEF Engines

\* The steps of a loop: quiet ones, and those that move its engine on.
LEMMA LoopMoves ==
  ASSUME Types, OwnEngines, NEW l \in Loops, LoopStep(l)
  PROVE  /\ LoopMove(l)
         /\ \/ Quiet(l)
            \/ \E e \in Engines : StartEngine(l, e)
            \/ Adopt(l) \/ ApplyAndRun(l) \/ CloseEngine(l)
<1>0. run \in [Engines -> RunType]
  BY DEF Types
<1>1. CASE StartFails(l)
  BY <1>0, <1>1, StartFailsDoes DEF LoopMove, Quiet, Started, Over, Waits, Drives, Holds
<1>2. CASE \E e \in Engines : StartEngine(l, e)
  BY <1>2, StartEngineDoes DEF LoopMove, Started, Over
<1>3. CASE Adopt(l)
  <2>1. loop[l].pc = "adopt"
    BY <1>3 DEF Adopt, At
  <2>2. CASE Stale(l)
    <3>1. PICK e \in Engines : e = loop[l].e
      BY <2>1, EngineOf DEF OwnEngines, Drives
    <3> QED BY <1>3, <2>2, <3>1, AdoptStaleDoes DEF LoopMove, Started, Over
  <2>3. CASE ~Stale(l)
    BY <1>3, <2>3, AdoptCurrentDoes DEF LoopMove, Started, Over
  <2> QED BY <2>2, <2>3
<1>4. CASE ApplyAndRun(l)
  <2>1. loop[l].pc = "apply"
    BY <1>4 DEF ApplyAndRun, At
  <2>2. PICK e \in Engines : e = loop[l].e
    BY <2>1, EngineOf DEF OwnEngines, Drives, Holds
  <2> QED BY <1>4, <2>2, ApplyAndRunDoes DEF LoopMove, Started, Over
<1>5. CASE SelectReady(l)
  BY <1>0, <1>5, SelectReadyDoes DEF LoopMove, Quiet, Started, Over, Waits, Drives, Holds
<1>6. CASE SelectStop(l)
  BY <1>0, <1>6, SelectStopDoes DEF LoopMove, Quiet, Started, Over, Waits, Drives, Holds
<1>7. CASE ReceiveDone(l)
  BY <1>0, <1>7, ReceiveDoneDoes DEF LoopMove, Quiet, Started, Over, Waits, Drives, Holds
<1>8. CASE WaitStop(l)
  <2>1. loop[l].pc = "wait"
    BY <1>8 DEF WaitStop, At
  <2>2. PICK e \in Engines : e = loop[l].e
    BY <2>1, EngineOf DEF OwnEngines, Drives, Holds
  <2>3. /\ LoopOnly(l) /\ RunOnly(e) /\ UNCHANGED <<status, eng, host>>
        /\ loop'[l].pc = "stopping" /\ loop'[l].e = loop[l].e
        /\ run'[e].phase = run[e].phase
    BY <1>8, <2>2, WaitStopDoes
  <2> QED BY <2>1, <2>3 DEF LoopMove, Quiet, RunOnly, Started, Over, Waits, Drives, Holds
<1>9. CASE CloseEngine(l)
  BY <1>9, CloseEngineDoes DEF LoopMove, Started, Over
<1>10. CASE Decide(l)
  BY <1>0, <1>10, DecideDoes DEF LoopMove, Quiet, Started, Over, Waits, Drives, Holds
<1>11. CASE CountdownStop(l)
  BY <1>0, <1>11, CountdownStopDoes DEF LoopMove, Quiet, Started, Over, Waits, Drives, Holds
<1>12. CASE CountdownEnd(l)
  BY <1>0, <1>12, CountdownEndDoes DEF LoopMove, Quiet, Started, Over, Waits, Drives, Holds
<1>13. CASE Release(l)
  <2>1. /\ LoopOnly(l) /\ UNCHANGED <<status, eng>> /\ loop'[l].e = loop[l].e
        /\ loop[l].pc = "exit" /\ loop'[l].pc = "exit"
    BY <1>13, ReleaseDoes
  <2>2. run' \in [Engines -> RunType] /\ \A e \in Engines : run'[e].phase = run[e].phase
    BY <1>0, <1>13, ReleaseRestores DEF RunOnly
  <2> QED BY <2>1, <2>2 DEF LoopMove, Quiet, Started, Over, Waits, Drives, Holds
<1>14. CASE Finish(l)
  BY <1>0, <1>14, FinishDoes DEF LoopMove, Quiet, Started, Over, Waits, Drives, Holds
<1>15. CASE LoopReturns(l)
  BY <1>0, <1>15, LoopReturnsDoes DEF LoopMove, Quiet, Started, Over, Waits, Drives, Holds
<1> QED BY <1>1, <1>2, <1>3, <1>4, <1>5, <1>6, <1>7, <1>8, <1>9, <1>10, <1>11, <1>12,
        <1>13, <1>14, <1>15 DEF LoopStep

\* The current loop is the one that is not stale.
LEMMA CurrentLoop ==
  ASSUME Generations, NEW l \in Loops, Started(l)
  PROVE  Stale(l) <=> stopCh # l
BY DEF Generations, Stale

\* A step of a loop keeps what relates generations, channels and status.
LEMMA LoopKeepsGenerations ==
  ASSUME Types, Generations, Stoppable, Settles, NEW l \in Loops, LoopMove(l)
  PROVE  Generations' /\ Stoppable' /\ Settles'
<1>0. /\ \A k \in Loops : k # l => loop'[k] = loop[k]
      /\ loop'[l].gen = loop[l].gen /\ loop'[l].pc # "none" /\ loop[l].pc # "none"
      /\ UNCHANGED <<gen, stopCh, closed, rules, ui>>
      /\ Over(l) => loop'[l].pc \in {"exit", "done"}
  BY DEF LoopMove, LoopOnly, Started
<1>1. Generations'
  BY <1>0 DEF Generations, Started
<1>2. Stoppable'
  BY <1>0 DEF Stoppable, Started, Over
<1>3. stopCh # 0 => stopCh \in Loops
  BY SessionAssumption DEF Types, Loops
<1>4. ActiveStatuses \cap SettledStatuses = {}
  BY DEF ActiveStatuses, SettledStatuses
<1>5. ASSUME status' \in SettledStatuses, stopCh # 0 PROVE Over(stopCh)'
  <2>1. CASE status' = status
    <3>1. Over(stopCh)
      BY <1>5, <2>1 DEF Settles
    <3> QED BY <1>0, <1>3, <1>5, <3>1 DEF Over
  <2>2. CASE status' \in ActiveStatuses
    BY <1>4, <1>5, <2>2
  <2>3. CASE /\ loop[l].pc = "exit" /\ loop'[l].pc = "exit" /\ ~(Stale(l) /\ stopCh # 0)
    <3>1. stopCh = l
      BY <1>5, <2>3, CurrentLoop DEF Started
    <3> QED BY <1>0, <2>3, <3>1 DEF Over
  <2>4. CASE Stale(l) /\ stopCh # 0 /\ status' = status
    BY <2>1, <2>4
  <2> QED BY <2>1, <2>2, <2>3, <2>4 DEF LoopMove
<1> QED BY <1>0, <1>1, <1>2, <1>5 DEF Settles

\* The parts of the invariant that are about engines.
EngineParts == OwnEngines /\ Awaited /\ SessionHas

\* Quiet steps keep them.
LEMMA QuietKeeps ==
  ASSUME Types, EngineParts, NEW l \in Loops, LoopMove(l), Quiet(l)
  PROVE  EngineParts'
<1>0. /\ \A k \in Loops : k # l => loop'[k] = loop[k]
      /\ UNCHANGED closed
  BY DEF LoopMove, LoopOnly
<1>1. \A k \in Loops : loop'[k].e = loop[k].e
  BY <1>0 DEF Quiet
<1>2. \A k \in Loops : loop[k].e # 0 => run'[loop[k].e].phase = run[loop[k].e].phase
  BY EngineOf DEF Quiet
<1>3. OwnEngines'
  <2> SUFFICES ASSUME NEW k \in Loops
      PROVE /\ loop'[k].e # 0 => run'[loop'[k].e].phase # "none"
            /\ \A j \in Loops : j # k /\ loop'[j].e = loop'[k].e => loop'[k].e = 0
            /\ Drives(k)' => loop'[k].e # 0
            /\ loop'[k].pc \in {"adopt", "apply"} => run'[loop'[k].e].phase = "new"
    BY DEF OwnEngines
  <2>1. Drives(k)' => Drives(k)
    BY <1>0 DEF Drives, Holds, Waits, Quiet
  <2>2. loop'[k].pc \in {"adopt", "apply"} => loop[k].pc \in {"adopt", "apply"}
    BY <1>0 DEF Quiet
  <2>3. loop[k].pc \in {"adopt", "apply"} => Drives(k)
    BY DEF Drives, Holds
  <2> QED BY <1>1, <1>2, <2>1, <2>2, <2>3 DEF EngineParts, OwnEngines
<1>4. Awaited'
  <2> SUFFICES ASSUME NEW e \in Engines, Running(e)'
      PROVE \E k \in Loops : loop'[k].e = e /\ Waits(k)'
    BY DEF Awaited
  <2>1. Running(e)
    BY DEF Running, Quiet
  <2>2. PICK k \in Loops : loop[k].e = e /\ Waits(k)
    BY <2>1 DEF EngineParts, Awaited
  <2>3. run[e].phase # "returned"
    BY <2>1 DEF Running
  <2>4. Waits(k)'
    BY <1>0, <2>2, <2>3 DEF Waits, Quiet
  <2> QED BY <1>1, <2>2, <2>4
<1>5. SessionHas'
  <2> SUFFICES ASSUME NEW k \in Loops, Holds(k)', k \notin closed
      PROVE eng' = loop'[k].e
    BY <1>0 DEF SessionHas
  <2>1. Holds(k)
    BY <1>0 DEF Holds, Quiet, Waits
  <2> QED BY <1>1, <2>1 DEF EngineParts, SessionHas, Quiet
<1> QED BY <1>3, <1>4, <1>5 DEF EngineParts

\* So does a new engine.
LEMMA StartEngineKeeps ==
  ASSUME Types, EngineParts, NEW l \in Loops, NEW e \in Engines, StartEngine(l, e)
  PROVE  EngineParts'
<1>0. /\ \A k \in Loops : k # l => loop'[k] = loop[k]
      /\ \A f \in Engines : f # e => run'[f] = run[f]
      /\ UNCHANGED <<closed, eng>>
      /\ loop[l].pc = "start" /\ loop'[l].pc = "adopt" /\ loop'[l].e = e
      /\ run[e].phase = "none" /\ run'[e].phase = "new"
  BY StartEngineDoes DEF LoopOnly, RunOnly
<1>1. e # 0
  BY SessionAssumption DEF Engines
<1>2. \A k \in Loops : k # l => loop[k].e # e
  BY <1>0, <1>1 DEF EngineParts, OwnEngines
<1>3. OwnEngines'
  <2> SUFFICES ASSUME NEW k \in Loops
      PROVE /\ loop'[k].e # 0 => run'[loop'[k].e].phase # "none"
            /\ \A j \in Loops : j # k /\ loop'[j].e = loop'[k].e => loop'[k].e = 0
            /\ Drives(k)' => loop'[k].e # 0
            /\ loop'[k].pc \in {"adopt", "apply"} => run'[loop'[k].e].phase = "new"
    BY DEF OwnEngines
  <2>1. CASE k = l
    BY <1>0, <1>1, <1>2, <2>1
  <2>2. CASE k # l
    <3>1. loop'[k] = loop[k] /\ (Drives(k)' <=> Drives(k))
      BY <1>0, <2>2 DEF Drives, Holds
    <3>2. loop[k].e # 0 => run'[loop[k].e] = run[loop[k].e]
      BY <1>0, <1>2, <2>2, EngineOf
    <3>3. loop[k].pc \in {"adopt", "apply"} => loop[k].e # 0
      BY DEF EngineParts, OwnEngines, Drives, Holds
    <3> QED BY <1>0, <1>2, <2>2, <3>1, <3>2, <3>3 DEF EngineParts, OwnEngines
  <2> QED BY <2>1, <2>2
<1>4. Awaited'
  <2> SUFFICES ASSUME NEW f \in Engines, Running(f)'
      PROVE \E k \in Loops : loop'[k].e = f /\ Waits(k)'
    BY DEF Awaited
  <2>1. f # e /\ Running(f)
    BY <1>0 DEF Running
  <2>2. PICK k \in Loops : loop[k].e = f /\ Waits(k)
    BY <2>1 DEF EngineParts, Awaited
  <2>3. k # l
    BY <1>0, <2>2 DEF Waits
  <2> QED BY <1>0, <2>2, <2>3 DEF Waits
<1>5. SessionHas'
  BY <1>0 DEF EngineParts, SessionHas, Holds
<1> QED BY <1>3, <1>4, <1>5 DEF EngineParts

\* So does the adoption of an engine, which drops it when the loop is stale.
LEMMA AdoptKeeps ==
  ASSUME Types, Generations, Stoppable, EngineParts, NEW l \in Loops, Adopt(l)
  PROVE  EngineParts'
<1>0. loop[l].pc = "adopt"
  BY DEF Adopt, At
<1>1. PICK e \in Engines : e = loop[l].e
  BY <1>0, EngineOf DEF EngineParts, OwnEngines, Drives
<1>2. run[e].phase = "new"
  BY <1>0, <1>1 DEF EngineParts, OwnEngines
<1>3. \A k \in Loops : k # l /\ loop[k].e # 0 => loop[k].e # e
  BY <1>1 DEF EngineParts, OwnEngines
<1>4. e # 0
  BY SessionAssumption DEF Engines
<1>5. CASE Stale(l)
  <2>0. /\ \A k \in Loops : k # l => loop'[k] = loop[k]
        /\ \A f \in Engines : f # e => run'[f] = run[f]
        /\ UNCHANGED <<closed, eng>>
        /\ loop'[l].pc = "exit" /\ loop'[l].e = e /\ run'[e].phase = "returned"
    BY <1>1, <1>5, AdoptStaleDoes DEF LoopOnly, RunOnly
  <2>1. OwnEngines'
    <3> SUFFICES ASSUME NEW k \in Loops
        PROVE /\ loop'[k].e # 0 => run'[loop'[k].e].phase # "none"
              /\ \A j \in Loops : j # k /\ loop'[j].e = loop'[k].e => loop'[k].e = 0
              /\ Drives(k)' => loop'[k].e # 0
              /\ loop'[k].pc \in {"adopt", "apply"} => run'[loop'[k].e].phase = "new"
      BY DEF OwnEngines
    <3>1. CASE k = l
      BY <1>3, <1>4, <2>0, <3>1
    <3>2. CASE k # l
      <4>1. loop'[k] = loop[k] /\ (Drives(k)' <=> Drives(k))
        BY <2>0, <3>2 DEF Drives, Holds
      <4>2. loop[k].e # 0 => run'[loop[k].e] = run[loop[k].e]
        BY <1>3, <2>0, <3>2, EngineOf
      <4>3. loop[k].pc \in {"adopt", "apply"} => loop[k].e # 0
        BY DEF EngineParts, OwnEngines, Drives, Holds
      <4> QED BY <1>1, <1>4, <2>0, <3>2, <4>1, <4>2, <4>3 DEF EngineParts, OwnEngines
    <3> QED BY <3>1, <3>2
  <2>2. Awaited'
    <3> SUFFICES ASSUME NEW f \in Engines, Running(f)'
        PROVE \E k \in Loops : loop'[k].e = f /\ Waits(k)'
      BY DEF Awaited
    <3>1. Running(f)
      BY <2>0 DEF Running
    <3>2. PICK k \in Loops : loop[k].e = f /\ Waits(k)
      BY <3>1 DEF EngineParts, Awaited
    <3>3. k # l
      BY <1>0, <3>2 DEF Waits
    <3> QED BY <2>0, <3>2, <3>3 DEF Waits
  <2>3. SessionHas'
    BY <2>0 DEF EngineParts, SessionHas, Holds
  <2> QED BY <2>1, <2>2, <2>3 DEF EngineParts
<1>6. CASE ~Stale(l)
  <2>0. /\ \A k \in Loops : k # l => loop'[k] = loop[k]
        /\ UNCHANGED <<closed, run>> /\ eng' = e
        /\ loop'[l].pc = "apply" /\ loop'[l].e = e
    BY <1>1, <1>6, AdoptCurrentDoes DEF LoopOnly
  <2>1. OwnEngines'
    <3> SUFFICES ASSUME NEW k \in Loops
        PROVE /\ loop'[k].e # 0 => run[loop'[k].e].phase # "none"
              /\ \A j \in Loops : j # k /\ loop'[j].e = loop'[k].e => loop'[k].e = 0
              /\ Drives(k)' => loop'[k].e # 0
              /\ loop'[k].pc \in {"adopt", "apply"} => run[loop'[k].e].phase = "new"
      BY <2>0 DEF OwnEngines
    <3>1. CASE k = l
      BY <1>2, <1>3, <1>4, <2>0, <3>1
    <3>2. CASE k # l
      <4>1. loop'[k] = loop[k] /\ (Drives(k)' <=> Drives(k))
        BY <2>0, <3>2 DEF Drives, Holds
      <4> QED BY <1>1, <1>4, <2>0, <3>2, <4>1 DEF EngineParts, OwnEngines
    <3> QED BY <3>1, <3>2
  <2>2. Awaited'
    <3> SUFFICES ASSUME NEW f \in Engines, Running(f)
        PROVE \E k \in Loops : loop'[k].e = f /\ Waits(k)'
      BY <2>0 DEF Awaited, Running
    <3>2. PICK k \in Loops : loop[k].e = f /\ Waits(k)
      BY DEF EngineParts, Awaited
    <3>3. k # l
      BY <1>0, <3>2 DEF Waits
    <3> QED BY <2>0, <3>2, <3>3 DEF Waits
  <2>3. SessionHas'
    <3> SUFFICES ASSUME NEW k \in Loops, Holds(k)', k \notin closed
        PROVE eng' = loop'[k].e
      BY <2>0 DEF SessionHas
    <3>1. stopCh = l
      BY <1>0, <1>6, CurrentLoop DEF Started
    <3>2. ASSUME k # l PROVE FALSE
      <4>1. Holds(k)
        BY <2>0, <3>2 DEF Holds
      <4>2. Over(k)
        BY <3>1, <3>2, <4>1 DEF Stoppable, Holds, Started
      <4> QED BY <4>1, <4>2 DEF Holds, Over
    <3> QED BY <2>0, <3>2
  <2> QED BY <2>1, <2>2, <2>3 DEF EngineParts
<1> QED BY <1>5, <1>6

\* So does the start of Run.
LEMMA ApplyAndRunKeeps ==
  ASSUME Types, EngineParts, NEW l \in Loops, ApplyAndRun(l)
  PROVE  EngineParts'
<1>0. loop[l].pc = "apply"
  BY DEF ApplyAndRun, At
<1>1. PICK e \in Engines : e = loop[l].e
  BY <1>0, EngineOf DEF EngineParts, OwnEngines, Drives, Holds
<1>2. \A k \in Loops : k # l /\ loop[k].e # 0 => loop[k].e # e
  BY <1>1 DEF EngineParts, OwnEngines
<1>3. e # 0
  BY SessionAssumption DEF Engines
<1>4. /\ \A k \in Loops : k # l => loop'[k] = loop[k]
      /\ \A f \in Engines : f # e => run'[f] = run[f]
      /\ UNCHANGED <<closed, eng>>
      /\ loop'[l].pc = "select" /\ loop'[l].e = e /\ run'[e].phase = "connecting"
  BY <1>1, ApplyAndRunDoes DEF LoopOnly, RunOnly
<1>5. OwnEngines'
  <2> SUFFICES ASSUME NEW k \in Loops
      PROVE /\ loop'[k].e # 0 => run'[loop'[k].e].phase # "none"
            /\ \A j \in Loops : j # k /\ loop'[j].e = loop'[k].e => loop'[k].e = 0
            /\ Drives(k)' => loop'[k].e # 0
            /\ loop'[k].pc \in {"adopt", "apply"} => run'[loop'[k].e].phase = "new"
    BY DEF OwnEngines
  <2>1. CASE k = l
    BY <1>2, <1>3, <1>4, <2>1
  <2>2. CASE k # l
    <3>1. loop'[k] = loop[k] /\ (Drives(k)' <=> Drives(k))
      BY <1>4, <2>2 DEF Drives, Holds
    <3>2. loop[k].e # 0 => run'[loop[k].e] = run[loop[k].e]
      BY <1>2, <1>4, <2>2, EngineOf
    <3>3. loop[k].pc \in {"adopt", "apply"} => loop[k].e # 0
      BY DEF EngineParts, OwnEngines, Drives, Holds
    <3> QED BY <1>1, <1>3, <1>4, <2>2, <3>1, <3>2, <3>3 DEF EngineParts, OwnEngines
  <2> QED BY <2>1, <2>2
<1>6. Awaited'
  <2> SUFFICES ASSUME NEW f \in Engines, Running(f)'
      PROVE \E k \in Loops : loop'[k].e = f /\ Waits(k)'
    BY DEF Awaited
  <2>1. CASE f = e
    BY <1>4, <2>1 DEF Waits
  <2>2. CASE f # e
    <3>1. Running(f)
      BY <1>4, <2>2 DEF Running
    <3>2. PICK k \in Loops : loop[k].e = f /\ Waits(k)
      BY <3>1 DEF EngineParts, Awaited
    <3>3. k # l
      BY <1>0, <3>2 DEF Waits
    <3> QED BY <1>4, <3>2, <3>3 DEF Waits
  <2> QED BY <2>1, <2>2
<1>7. SessionHas'
  BY <1>0, <1>1, <1>4 DEF EngineParts, SessionHas, Holds
<1> QED BY <1>5, <1>6, <1>7 DEF EngineParts

\* So does the end of an engine: only its own loop held it.
LEMMA CloseEngineKeeps ==
  ASSUME Types, EngineParts, NEW l \in Loops, CloseEngine(l)
  PROVE  EngineParts'
<1>1. /\ \A k \in Loops : k # l => loop'[k] = loop[k]
      /\ UNCHANGED <<closed, run>> /\ loop[l].pc = "ended"
      /\ loop'[l].pc = "decide" /\ loop'[l].e = loop[l].e
      /\ eng' = IF eng = loop[l].e THEN 0 ELSE eng
  BY CloseEngineDoes DEF LoopOnly
<1>2. loop[l].e # 0
  BY <1>1 DEF EngineParts, OwnEngines, Drives, Holds
<1>3. \A k \in Loops : loop'[k].e = loop[k].e
  BY <1>1
<1>4. OwnEngines'
  <2> SUFFICES ASSUME NEW k \in Loops
      PROVE /\ loop'[k].e # 0 => run[loop'[k].e].phase # "none"
            /\ \A j \in Loops : j # k /\ loop'[j].e = loop'[k].e => loop'[k].e = 0
            /\ Drives(k)' => loop'[k].e # 0
            /\ loop'[k].pc \in {"adopt", "apply"} => run[loop'[k].e].phase = "new"
    BY <1>1 DEF OwnEngines
  <2>1. Drives(k)' => Drives(k)
    BY <1>1 DEF Drives, Holds
  <2>2. loop'[k].pc \in {"adopt", "apply"} => loop[k].pc \in {"adopt", "apply"}
    BY <1>1
  <2> QED BY <1>3, <2>1, <2>2 DEF EngineParts, OwnEngines
<1>5. Awaited'
  BY <1>1, <1>3 DEF EngineParts, Awaited, Running, Waits
<1>6. SessionHas'
  <2> SUFFICES ASSUME NEW k \in Loops, Holds(k)', k \notin closed
      PROVE eng' = loop'[k].e
    BY <1>1 DEF SessionHas
  <2>1. k # l
    BY <1>1 DEF Holds
  <2>2. Holds(k) /\ eng = loop[k].e
    BY <1>1, <2>1 DEF EngineParts, SessionHas, Holds
  <2>3. loop[k].e # loop[l].e
    BY <1>2, <2>1 DEF EngineParts, OwnEngines
  <2> QED BY <1>1, <2>1, <2>2, <2>3
<1> QED BY <1>4, <1>5, <1>6 DEF EngineParts

\* A step of a loop keeps the ownership invariant.
LEMMA LoopKeepsOwn ==
  ASSUME OwnInv, NEW l \in Loops, LoopStep(l)
  PROVE  Generations' /\ Stoppable' /\ Settles' /\ EngineParts'
<1> USE DEF OwnInv
<1>1. LoopMove(l) /\ (Quiet(l) \/ (\E e \in Engines : StartEngine(l, e))
                       \/ Adopt(l) \/ ApplyAndRun(l) \/ CloseEngine(l))
  BY LoopMoves
<1>2. Generations' /\ Stoppable' /\ Settles'
  BY <1>1, LoopKeepsGenerations
<1>3. EngineParts
  BY DEF EngineParts
<1> HIDE DEF OwnInv
<1>4. Types /\ Generations /\ Stoppable
  BY DEF OwnInv
<1>5. EngineParts'
  BY <1>1, <1>3, <1>4, QuietKeeps, StartEngineKeeps, AdoptKeeps, ApplyAndRunKeeps, CloseEngineKeeps
<1> QED BY <1>2, <1>5

\* Connect keeps it: a session that settled left no loop that is not on its
\* way out.
LEMMA ConnectKeepsOwn ==
  ASSUME OwnInv, NEW l \in Loops, Connect(l)
  PROVE  Generations' /\ Stoppable' /\ Settles' /\ EngineParts'
<1>0. Types /\ Generations /\ Stoppable /\ Settles /\ OwnEngines /\ Awaited /\ SessionHas
  BY DEF OwnInv
<1>1. /\ \A k \in Loops : k # l => loop'[k] = loop[k]
      /\ loop[l].pc = "none" /\ loop'[l].pc = "start"
      /\ loop'[l].gen = gen + 1 /\ gen' = gen + 1 /\ stopCh' = l
      /\ loop'[l].e = loop[l].e
      /\ ~Active /\ ui.pc = "idle" /\ status' = "connecting"
      /\ UNCHANGED <<closed, eng, rules, run, host, ui>>
  BY <1>0, ConnectDoes
<1>2. gen \in Nat /\ \A k \in Loops : loop[k].gen \in Nat
  BY <1>0 DEF Types, LoopType
<1>3. Generations'
  BY <1>0, <1>1, <1>2 DEF Generations, Started
<1>4. status \in SettledStatuses
  BY <1>0, <1>1 DEF Types, Active, Statuses
<1>5. Stoppable'
  <2>1. l \notin closed
    BY <1>0, <1>1 DEF Generations, Started
  <2>2. ASSUME NEW k \in Loops, k # l, Started(k), k \notin closed PROVE Over(k)
    <3>1. CASE stopCh = k
      BY <1>0, <1>4, <3>1, SessionAssumption DEF Settles, Loops
    <3>2. CASE stopCh # k
      BY <1>0, <2>2, <3>2 DEF Stoppable
    <3> QED BY <3>1, <3>2
  <2> QED BY <1>1, <2>1, <2>2 DEF Stoppable, Started, Over
<1>6. Settles'
  BY <1>0, <1>1 DEF Settles, SettledStatuses
<1>7. \A k \in Loops : loop'[k].e = loop[k].e
  BY <1>1
<1>8. \A k \in Loops : /\ Drives(k)' => Drives(k)
                       /\ Holds(k)' => Holds(k)
                       /\ loop'[k].pc \in {"adopt", "apply"} => loop[k].pc \in {"adopt", "apply"}
                       /\ Waits(k) => Waits(k)'
  BY <1>1 DEF Drives, Holds, Waits
<1>9. OwnEngines'
  BY <1>0, <1>1, <1>7, <1>8 DEF OwnEngines
<1>10. Awaited'
  BY <1>0, <1>1, <1>7, <1>8 DEF Awaited, Running
<1>11. SessionHas'
  BY <1>0, <1>1, <1>7, <1>8 DEF SessionHas
<1> QED BY <1>3, <1>5, <1>6, <1>9, <1>10, <1>11 DEF EngineParts

\* A stop keeps it: the loop is now a stale one that was told to stop.
LEMMA StopKeepsOwn ==
  ASSUME OwnInv, Stops
  PROVE  Generations' /\ Stoppable' /\ Settles' /\ EngineParts'
<1>0. Types /\ Generations /\ Stoppable /\ Settles /\ OwnEngines /\ Awaited /\ SessionHas
  BY DEF OwnInv
<1>1. gen \in Nat /\ (\A k \in Loops : loop[k].gen \in Nat) /\ 0 \notin Loops
      /\ closed \subseteq Loops
  BY <1>0, SessionAssumption DEF Types, LoopType, Loops
<1>2. Generations'
  BY <1>0, <1>1 DEF Generations, Started, Stops
<1>3. Stoppable'
  BY <1>0, <1>1 DEF Stoppable, Started, Over, Stops
<1>4. Settles'
  BY <1>0 DEF Settles, Stops
<1>5. EngineParts'
  BY <1>0 DEF EngineParts, OwnEngines, Awaited, SessionHas, Drives, Holds, Waits, Running, Stops
<1> QED BY <1>2, <1>3, <1>4, <1>5

\* So do the other steps of the UI.
LEMMA UIKeepsOwn ==
  ASSUME OwnInv, UIOnly
  PROVE  Generations' /\ Stoppable' /\ Settles' /\ EngineParts'
<1>0. Types /\ Generations /\ Stoppable /\ Settles /\ OwnEngines /\ Awaited /\ SessionHas
  BY DEF OwnInv
<1>1. Generations' /\ Stoppable'
  BY <1>0 DEF Generations, Stoppable, Started, Over, UIOnly
<1>2. Settles'
  BY <1>0 DEF Settles, Over, UIOnly
<1>3. \A k \in Loops : loop[k].e # 0 => run'[loop[k].e].phase = run[loop[k].e].phase
  BY <1>0, EngineOf DEF UIOnly
<1>4. \A k \in Loops : loop[k].pc \in {"adopt", "apply"} => loop[k].e # 0
  BY <1>0 DEF OwnEngines, Drives, Holds
<1>5. OwnEngines'
  BY <1>0, <1>3, <1>4 DEF OwnEngines, Drives, Holds, UIOnly
<1>6. Awaited' /\ SessionHas'
  BY <1>0 DEF Awaited, SessionHas, Running, Waits, Holds, UIOnly
<1> QED BY <1>1, <1>2, <1>5, <1>6 DEF EngineParts

\* So do the steps of an engine inside Run.
LEMMA RunKeepsOwn ==
  ASSUME OwnInv, NEW e \in Engines, RunMove(e)
  PROVE  Generations' /\ Stoppable' /\ Settles' /\ EngineParts'
<1>0. Types /\ Generations /\ Stoppable /\ Settles /\ OwnEngines /\ Awaited /\ SessionHas
  BY DEF OwnInv
<1>1. /\ UNCHANGED <<status, gen, stopCh, closed, eng, rules, loop, ui>>
      /\ \A f \in Engines : f # e => run'[f] = run[f]
      /\ run[e].phase \notin {"none", "new"} /\ run'[e].phase \notin {"none", "new"}
      /\ Running(e)
  BY DEF RunMove, RunOnly, session, Running
<1>2. Generations' /\ Stoppable' /\ Settles' /\ SessionHas'
  BY <1>0, <1>1 DEF Generations, Stoppable, Settles, SessionHas, Started, Over, Holds
<1>3. \A k \in Loops : /\ loop[k].e # 0 => run'[loop[k].e].phase # "none"
                       /\ loop[k].e # 0 /\ run[loop[k].e].phase = "new" => run'[loop[k].e].phase = "new"
  BY <1>0, <1>1, EngineOf DEF OwnEngines
<1>4. \A k \in Loops : loop[k].pc \in {"adopt", "apply"} => loop[k].e # 0
  BY <1>0 DEF OwnEngines, Drives, Holds
<1>5. OwnEngines'
  BY <1>0, <1>1, <1>3, <1>4 DEF OwnEngines, Drives, Holds
<1>6. Awaited'
  BY <1>0, <1>1 DEF Awaited, Running, Waits
<1> QED BY <1>2, <1>5, <1>6 DEF EngineParts

\* Rules are of their type, whichever way a method changes them.
LEMMA RulesTyped ==
  ASSUME HostTypes, NEW e \in Engines
  PROVE  /\ NoRules \in [Engines -> Kinds]
         /\ Restored(e) \in [Engines -> Kinds]
         /\ CleanStaleAnchors \in [Engines -> Kinds]
         /\ \A kind \in Kinds : Installed(e, kind) \in [Engines -> Kinds]
         /\ SetupFailures(e) \subseteq [Engines -> Kinds]
         /\ NextRules(e) \subseteq [Engines -> Kinds]
<1>0. fw \in [Engines -> Kinds] /\ "none" \in Kinds /\ "partial" \in Kinds /\ "nodns" \in Kinds
  BY DEF HostTypes, Kinds
<1>1. NoRules \in [Engines -> Kinds]
  BY <1>0 DEF NoRules
<1>2. \A kind \in Kinds : Installed(e, kind) \in [Engines -> Kinds]
  BY <1>0, <1>1 DEF Installed
<1>3. Restored(e) \in [Engines -> Kinds] /\ CleanStaleAnchors \in [Engines -> Kinds]
  BY <1>0, <1>1 DEF Restored, CleanStaleAnchors
<1>4. SetupFailures(e) \subseteq [Engines -> Kinds]
  <2>1. CASE Method = "iptables"
    BY <1>0, <1>2, <2>1 DEF SetupFailures
  <2>2. CASE Method = "socks5"
    BY <2>2 DEF SetupFailures
  <2>3. CASE Method # "iptables" /\ Method # "socks5"
    BY <1>0, <1>1, <2>3 DEF SetupFailures
  <2> QED BY <2>1, <2>2, <2>3
<1>5. NextRules(e) \subseteq [Engines -> Kinds]
  <2>1. CASE ~DisablesDNS
    BY <1>0, <2>1 DEF NextRules, RemovesFirst
  <2>2. CASE DisablesDNS /\ RemovesFirst(e)
    BY <1>1, <2>2 DEF NextRules
  <2>3. CASE DisablesDNS /\ ~RemovesFirst(e)
    <3>1. NextRules(e) = {Installed(e, "nodns")} \union
                           (IF Shared THEN SetupFailures(e) ELSE {fw})
      BY <2>3 DEF NextRules
    <3>2. Installed(e, "nodns") \in [Engines -> Kinds]
      BY <1>0, <1>2
    <3> QED BY <1>0, <1>4, <3>1, <3>2, Zenon
  <2> QED BY <2>1, <2>2, <2>3
<1> QED BY <1>1, <1>2, <1>3, <1>4, <1>5

\* RestoreHost keeps the types.
LEMMA RestoreTyped ==
  ASSUME Types, HostTypes, NEW e \in Engines, RestoreHost(e)
  PROVE  HostTypes'
<1>1. run[e].prevDNS \in Servers
  BY DEF Types, RunType
<1> QED BY <1>1, RulesTyped DEF RestoreHost, RestoredDNS, HostTypes

\* So does every step.
LEMMA HostTypesNext ==
  ASSUME Types, HostTypes, [Next]_vars
  PROVE  HostTypes'
<1>0. "full" \in Kinds /\ "tunnel" \in Servers
  BY DEF Kinds, Servers
<1>1. ASSUME UNCHANGED host PROVE HostTypes'
  BY <1>1 DEF host, HostTypes
<1>2. ASSUME NEW l \in Loops, LoopStep(l) PROVE HostTypes'
  <2>1. CASE Release(l)
    <3>1. CASE UNCHANGED host
      BY <1>1, <3>1
    <3>2. CASE loop[l].last \in Engines /\ RestoreHost(loop[l].last)
      BY <3>2, RestoreTyped
    <3> QED BY <2>1, <3>1, <3>2, ReleaseRestores
  <2>2. CASE ~Release(l)
    BY <1>1, <1>2, <2>2 DEF LoopStep, StartFails, StartEngine, Adopt, ApplyAndRun,
       SelectReady, SelectStop, ReceiveDone, WaitStop, CloseEngine, Decide,
       CountdownStop, CountdownEnd, Finish, LoopReturns
  <2> QED BY <2>1, <2>2
<1>3. ASSUME NEW e \in Engines, DialStep(e) \/ RunStep(e) \/ ProxyEnds(e) \/ Drop(e)
      PROVE HostTypes'
  <2>1. CASE ConnectFails(e) \/ ValidationFails(e) \/ Drop(e)
    BY <1>1, <2>1 DEF ConnectFails, ValidationFails, Drop
  <2>2. CASE Clean(e)
    BY <2>2, RulesTyped DEF Clean, HostTypes
  <2>3. CASE SetupFails(e)
    BY <2>3, RulesTyped DEF SetupFails, HostTypes
  <2>4. CASE SetupDone(e)
    <3>1. LockdownIPv6 \in BOOLEAN
      BY SessionAssumption
    <3> QED BY <1>0, <2>4, <3>1, RulesTyped DEF SetupDone, HostTypes
  <2>5. CASE RunStops(e) \/ ProxyEnds(e)
    BY <2>5, RestoreTyped DEF RunStops, ProxyEnds
  <2>6. CASE KeepRules(e)
    BY <2>6, RulesTyped DEF KeepRules, HostTypes
  <2> QED BY <1>3, <2>1, <2>2, <2>3, <2>4, <2>5, <2>6 DEF DialStep, RunStep
<1>4. CASE UIStep \/ UserStep
  BY <1>1, <1>4 DEF UIStep, UserStep, Settle, ApplyRules, QuitReturns, QuitDeadline,
     Connect, Disconnect, SetRules, Quit
<1>5. CASE UNCHANGED vars
  BY <1>1, <1>5 DEF vars
<1> QED BY <1>2, <1>3, <1>4, <1>5 DEF Next

\* Steps of a loop keep the types.
LEMMA LoopTypes ==
  ASSUME OwnInv, NEW l \in Loops, LoopStep(l)
  PROVE  Types'
<1>0. Types /\ OwnEngines
  BY DEF OwnInv
<1>1. LoopMove(l) /\ (Quiet(l) \/ (\E e \in Engines : StartEngine(l, e))
                       \/ Adopt(l) \/ ApplyAndRun(l) \/ CloseEngine(l))
  BY <1>0, LoopMoves
<1>2. status' \in Statuses
  BY <1>0, <1>1 DEF LoopMove, Statuses, Types
<1>3. /\ loop' \in [Loops -> LoopType] /\ UNCHANGED <<gen, stopCh, closed, rules, ui>>
  BY <1>1 DEF LoopMove, LoopOnly
<1>4. run' \in [Engines -> RunType] /\ eng' \in 0 .. MaxEngines
  <2>0. run \in [Engines -> RunType] /\ eng \in 0 .. MaxEngines /\ 0 \in 0 .. MaxEngines
        /\ loop[l].e \in 0 .. MaxEngines
    BY <1>0, SessionAssumption DEF Types, LoopType
  <2>1. CASE Quiet(l)
    BY <2>0, <2>1 DEF Quiet
  <2>2. ASSUME NEW e \in Engines, StartEngine(l, e) PROVE run' \in [Engines -> RunType] /\ eng' \in 0 .. MaxEngines
    BY <1>0, <2>0, <2>2, StartEngineDoes DEF RunOnly
  <2>3. CASE Adopt(l)
    <3>1. loop[l].pc = "adopt"
      BY <2>3 DEF Adopt, At
    <3>2. PICK e \in Engines : e = loop[l].e
      BY <1>0, <3>1, EngineOf DEF OwnEngines, Drives
    <3>3. CASE Stale(l)
      BY <1>0, <2>0, <2>3, <3>2, <3>3, AdoptStaleDoes DEF RunOnly
    <3>4. CASE ~Stale(l)
      BY <1>0, <2>0, <2>3, <3>4, AdoptCurrentDoes
    <3> QED BY <3>3, <3>4
  <2>4. CASE ApplyAndRun(l)
    <3>1. loop[l].pc = "apply"
      BY <2>4 DEF ApplyAndRun, At
    <3>2. PICK e \in Engines : e = loop[l].e
      BY <1>0, <3>1, EngineOf DEF OwnEngines, Drives, Holds
    <3> QED BY <1>0, <2>0, <2>4, <3>2, ApplyAndRunDoes DEF RunOnly
  <2>5. CASE CloseEngine(l)
    BY <1>0, <2>0, <2>5, CloseEngineDoes
  <2> QED BY <1>1, <2>1, <2>2, <2>3, <2>4, <2>5
<1> QED BY <1>0, <1>2, <1>3, <1>4 DEF Types

\* The steps of the UI: stops, Connect, and the rest.
LEMMA UIMoves ==
  ASSUME OwnInv, UIStep \/ UserStep
  PROVE  /\ \/ Stops /\ ui' \in UIType
            \/ UIOnly /\ ui' \in UIType /\ rules' \in Nat
            \/ \E l \in Loops : Connect(l)
<1>0. Types /\ Settles
  BY DEF OwnInv
<1>1. rules \in Nat
  BY <1>0 DEF Types
<1>2. CASE ApplyRules
  <2>1. ui.e \in 0 .. MaxEngines /\ ui.pc = "apply"
    BY <1>0, <1>2 DEF ApplyRules, Types, UIType
  <2>2. ui.e \in Engines
    BY <1>0, <2>1, SessionAssumption DEF Settles, Engines
  <2> QED BY <1>0, <1>2, <2>2, RulesDo
<1>3. CASE Settle
  BY <1>0, <1>1, <1>3, SettleDoes
<1>4. CASE QuitReturns \/ QuitDeadline
  BY <1>0, <1>1, <1>4, LeavesDo
<1>5. CASE SetRules
  BY <1>0, <1>5, RulesDo
<1>6. CASE Quit
  <2>1. rules' = rules
    BY <1>6 DEF Quit
  <2> QED BY <1>0, <1>1, <1>6, <2>1, QuitDoes
<1>7. CASE Disconnect
  BY <1>0, <1>7, DisconnectDoes
<1> QED BY <1>2, <1>3, <1>4, <1>5, <1>6, <1>7 DEF UIStep, UserStep

\* The ownership invariant holds at first.
LEMMA OwnInit == Init => OwnInv
<1> SUFFICES ASSUME Init PROVE OwnInv
  OBVIOUS
<1>1. Types /\ HostTypes
  BY TypesInit
<1>2. /\ \A l \in Loops : loop[l].pc = "none" /\ loop[l].e = 0 /\ loop[l].gen = 0
      /\ \A e \in Engines : run[e].phase = "none"
      /\ gen = 0 /\ stopCh = 0 /\ closed = {} /\ ui.pc = "idle"
  BY DEF Init, NewLoop, NewEngine
<1>3. 0 \notin Loops
  BY SessionAssumption DEF Loops
<1>4. Generations /\ Stoppable /\ Settles
  BY <1>2, <1>3 DEF Generations, Stoppable, Settles, Started
<1>5. OwnEngines /\ Awaited /\ SessionHas
  BY <1>2 DEF OwnEngines, Awaited, SessionHas, Drives, Holds, Running
<1> QED BY <1>1, <1>4, <1>5 DEF OwnInv

\* Every step keeps it.
LEMMA OwnNext ==
  ASSUME OwnInv, [Next]_vars
  PROVE  OwnInv'
<1>0. Types /\ HostTypes
  BY DEF OwnInv
<1>1. HostTypes'
  BY <1>0, HostTypesNext
<1> DEFINE Rest == Generations /\ Stoppable /\ Settles /\ EngineParts
<1>2. Types' /\ Rest' => OwnInv'
  BY <1>1 DEF OwnInv, EngineParts
<1>3. ASSUME NEW l \in Loops, LoopStep(l) PROVE Types' /\ Rest'
  BY <1>3, LoopTypes, LoopKeepsOwn
<1>4. ASSUME NEW e \in Engines, DialStep(e) \/ RunStep(e) \/ ProxyEnds(e) \/ Drop(e)
      PROVE Types' /\ Rest'
  <2>1. RunMove(e)
    BY <1>0, <1>4, RunMoves
  <2>2. Types'
    BY <1>0, <2>1 DEF RunMove, RunOnly, Types, session
  <2> QED BY <2>1, <2>2, RunKeepsOwn
<1>5. ASSUME UIStep \/ UserStep PROVE Types' /\ Rest'
  <2>1. CASE Stops /\ ui' \in UIType
    <3>1. Types'
      BY <1>0, <2>1, SessionAssumption DEF Stops, Types, Loops
    <3> QED BY <2>1, <3>1, StopKeepsOwn
  <2>2. CASE UIOnly /\ ui' \in UIType /\ rules' \in Nat
    <3>1. Types'
      BY <1>0, <2>2 DEF UIOnly, Types, Statuses
    <3> QED BY <2>2, <3>1, UIKeepsOwn
  <2>3. ASSUME NEW l \in Loops, Connect(l) PROVE Types' /\ Rest'
    <3>1. /\ loop' \in [Loops -> LoopType] /\ gen' = gen + 1 /\ stopCh' = l
          /\ status' = "connecting" /\ UNCHANGED <<closed, eng, rules, run, host, ui>>
      BY <1>0, <2>3, ConnectDoes
    <3>2. Types'
      BY <1>0, <3>1, SessionAssumption DEF Types, Statuses, ActiveStatuses, Loops
    <3> QED BY <2>3, <3>2, ConnectKeepsOwn
  <2> QED BY <1>5, <2>1, <2>2, <2>3, UIMoves
<1>6. ASSUME UNCHANGED vars PROVE Types' /\ Rest'
  <2>1. UNCHANGED <<status, gen, stopCh, closed, eng, rules, loop, run, ui>>
    BY <1>6 DEF vars, session
  <2>2. Types'
    BY <1>0, <2>1 DEF Types
  <2>3. Rest'
    BY <2>1 DEF OwnInv, Generations, Stoppable, Settles, EngineParts, OwnEngines, Awaited,
       SessionHas, Started, Over, Drives, Holds, Waits, Running
  <2> QED BY <2>2, <2>3
<1> HIDE DEF Rest
<1> QED BY <1>2, <1>3, <1>4, <1>5, <1>6 DEF Next

\* Whose engine runs: an engine inside Run is the session's, or the loop
\* that runs it was told to stop (Session.gen, currentLocked, loop).
THEOREM RunningEngineOwned == Spec => []EngineOwned
<1>1. OwnInv => EngineOwned
  BY DEF OwnInv, EngineOwned, Awaited, SessionHas, Holds, Waits
<1>2. OwnInv /\ [Next]_vars => OwnInv'
  BY OwnNext
<1> QED BY <1>1, <1>2, OwnInit, PTL DEF Spec

\* Only the current loop, before it is on its way out, makes the status an
\* active one.
LEMMA LoopActivates ==
  ASSUME Types, NEW l \in Loops, LoopStep(l), status' # status, status' \in ActiveStatuses
  PROVE  ~Stale(l) /\ loop[l].pc \notin {"none", "exit", "done"}
<1>1. CASE StartFails(l)
  BY <1>1 DEF StartFails, Updated, At
<1>2. CASE SelectReady(l)
  BY <1>2 DEF SelectReady, Updated, At
<1>3. CASE Decide(l)
  BY <1>3 DEF Decide, Updated, At
<1>4. CASE CountdownEnd(l)
  BY <1>4 DEF CountdownEnd, Updated, At
<1>5. CASE Finish(l)
  <2>1. loop[l].final \in SettledStatuses
    BY DEF Types, LoopType
  <2> QED BY <1>5, <2>1, FinishDoes DEF SettledStatuses, ActiveStatuses
<1> QED BY <1>1, <1>2, <1>3, <1>4, <1>5 DEF LoopStep, StartEngine, Adopt, ApplyAndRun,
        SelectStop, ReceiveDone, WaitStop, CloseEngine, CountdownStop, Release,
        LoopReturns, session

\* A settled session stays settled until the next Connect: whatever a stale
\* loop still has to report, Session.update does not bring it back.
THEOREM SettledUntilConnect == Spec => NoResurrection
<1> DEFINE Step == (status \in SettledStatuses /\ status' \in ActiveStatuses)
                     => (status' = "connecting" /\ stopCh' # 0 /\ gen' = gen + 1)
<1>1. ASSUME OwnInv, [Next]_vars PROVE [Step]_vars
  <2>0. Types /\ HostTypes /\ Generations /\ Settles
    BY <1>1 DEF OwnInv
  <2> SUFFICES ASSUME Next, status \in SettledStatuses, status' \in ActiveStatuses
      PROVE status' = "connecting" /\ stopCh' # 0 /\ gen' = gen + 1
    BY <1>1
  <2>1. status' # status
    BY DEF SettledStatuses, ActiveStatuses
  <2>2. ASSUME NEW l \in Loops, LoopStep(l) PROVE FALSE
    <3>1. ~Stale(l) /\ loop[l].pc \notin {"none", "exit", "done"}
      BY <2>0, <2>1, <2>2, LoopActivates
    <3>2. stopCh = l
      BY <2>0, <3>1, CurrentLoop DEF Started
    <3> QED BY <2>0, <3>1, <3>2, SessionAssumption DEF Settles, Over, Loops
  <2>3. ASSUME NEW e \in Engines, DialStep(e) \/ RunStep(e) \/ ProxyEnds(e) \/ Drop(e)
        PROVE FALSE
    BY <2>0, <2>1, <2>3, RunMoves DEF RunMove, session
  <2>4. CASE UIStep \/ UserStep
    <3>1. CASE Stops
      BY <2>1, <3>1 DEF Stops
    <3>2. CASE UIOnly
      BY <2>1, <3>2 DEF UIOnly, SettledStatuses, ActiveStatuses
    <3>3. ASSUME NEW l \in Loops, Connect(l)
          PROVE status' = "connecting" /\ stopCh' # 0 /\ gen' = gen + 1
      BY <3>3, SessionAssumption DEF Connect, Loops
    <3> QED BY <1>1, <2>4, <3>1, <3>2, <3>3, UIMoves
  <2> QED BY <2>2, <2>3, <2>4 DEF Next
<1>2. OwnInv /\ [Next]_vars => OwnInv'
  BY OwnNext
<1> QED BY <1>1, <1>2, OwnInit, PTL DEF Spec, NoResurrection

\* With Prompt, nothing else of the session is left beside a loop that was
\* stopped while it had an engine.
Alone ==
  /\ \A k, l \in Loops : k < l /\ Started(l) => Started(k)
  /\ \A l \in Loops : stopCh # 0 /\ l > stopCh => ~Started(l)
  /\ \A l \in Loops : Holds(l) => Active /\ eng = loop[l].e
  /\ \A l \in Loops : Holds(l) /\ l \in closed =>
       \A k \in Loops : k # l => loop[k].pc \in {"none", "done"}
  /\ ui.pc \in {"settle", "quitsettle"} => eng = 0

\* A step of a loop keeps Alone.
LEMMA LoopKeepsAlone ==
  ASSUME OwnInv, OwnInv', Alone, NEW l \in Loops, LoopStep(l)
  PROVE  Alone'
<1>0. /\ Types /\ Generations /\ Stoppable /\ Settles /\ OwnEngines
      /\ Stoppable' /\ Settles' /\ SessionHas' /\ Types'
  BY DEF OwnInv
<1>1. LoopMove(l) /\ (Quiet(l) \/ (\E e \in Engines : StartEngine(l, e))
                       \/ Adopt(l) \/ ApplyAndRun(l) \/ CloseEngine(l))
  BY <1>0, LoopMoves
<1>2. /\ \A k \in Loops : k # l => loop'[k] = loop[k]
      /\ loop[l].pc \notin {"none", "done"} /\ loop'[l].pc # "none"
      /\ UNCHANGED <<gen, stopCh, closed, rules, ui>>
  BY <1>1 DEF LoopMove, LoopOnly, Started
<1>3. \A k \in Loops : Started(k)' <=> Started(k)
  BY <1>2 DEF Started
<1>4. \/ /\ eng' = eng /\ loop'[l].e = loop[l].e
         /\ loop'[l].pc \in {"apply", "select", "wait", "stopping", "ended"} => Holds(l)
      \/ ~Holds(l)' /\ (eng' = eng \/ eng' = 0)
      \/ stopCh = l /\ loop[l].pc = "adopt" /\ loop'[l].pc = "apply" /\ eng' = loop'[l].e
  <2>1. CASE Quiet(l)
    BY <2>1 DEF Quiet, Holds, Waits
  <2>2. ASSUME NEW e \in Engines, StartEngine(l, e) PROVE ~Holds(l)' /\ eng' = eng
    BY <1>0, <2>2, StartEngineDoes DEF Holds
  <2>3. CASE Adopt(l)
    <3>1. loop[l].pc = "adopt"
      BY <2>3 DEF Adopt, At
    <3>2. PICK e \in Engines : e = loop[l].e
      BY <1>0, <3>1, EngineOf DEF OwnEngines, Drives
    <3>3. CASE Stale(l)
      BY <1>0, <2>3, <3>2, <3>3, AdoptStaleDoes DEF Holds
    <3>4. CASE ~Stale(l)
      <4>1. stopCh = l
        BY <1>0, <3>1, <3>4, CurrentLoop DEF Started
      <4> QED BY <1>0, <2>3, <3>4, <4>1, AdoptCurrentDoes
    <3> QED BY <3>3, <3>4
  <2>4. CASE ApplyAndRun(l)
    <3>1. loop[l].pc = "apply"
      BY <2>4 DEF ApplyAndRun, At
    <3>2. PICK e \in Engines : e = loop[l].e
      BY <1>0, <3>1, EngineOf DEF OwnEngines, Drives, Holds
    <3> QED BY <1>0, <2>4, <3>1, <3>2, ApplyAndRunDoes DEF Holds
  <2>5. CASE CloseEngine(l)
    BY <1>0, <2>5, CloseEngineDoes DEF Holds
  <2> QED BY <1>1, <2>1, <2>2, <2>3, <2>4, <2>5
<1>5. ASSUME NEW k \in Loops, Holds(k)', k \in closed PROVE Holds(k) /\ k = l
  <2>1. stopCh # k
    BY <1>0, <1>5 DEF Stoppable
  <2>2. Holds(k)
    BY <1>2, <1>4, <1>5, <2>1 DEF Holds
  <2> QED BY <1>2, <1>5, <2>2 DEF Alone
<1>6. \A k, j \in Loops : k < j /\ Started(j)' => Started(k)'
  BY <1>3 DEF Alone
<1>7. \A k \in Loops : stopCh' # 0 /\ k > stopCh' => ~Started(k)'
  BY <1>2, <1>3 DEF Alone
<1>8. ASSUME NEW k \in Loops, Holds(k)' PROVE Active' /\ eng' = loop'[k].e
  <2>1. CASE k \notin closed
    <3>1. eng' = loop'[k].e
      BY <1>0, <1>2, <1>8, <2>1 DEF SessionHas
    <3>2. stopCh' = k
      BY <1>0, <1>2, <1>8, <2>1 DEF Stoppable, Holds, Started, Over
    <3>3. status' \notin SettledStatuses
      BY <1>0, <1>8, <3>2, SessionAssumption DEF Settles, Holds, Over, Loops
    <3> QED BY <1>0, <3>1, <3>3 DEF Types, Statuses, Active
  <2>2. CASE k \in closed
    <3>1. Holds(k) /\ k = l
      BY <1>5, <1>8, <2>2
    <3>2. Active /\ eng = loop[k].e
      BY <3>1 DEF Alone
    <3>3. loop'[l].pc # "exit"
      BY <1>8, <3>1 DEF Holds
    <3>4. Active'
      BY <1>1, <3>2, <3>3 DEF LoopMove, Active
    <3>5. eng' = loop'[k].e
      BY <1>4, <1>8, <3>1, <3>2
    <3> QED BY <3>4, <3>5
  <2> QED BY <2>1, <2>2
<1>9. ASSUME NEW k \in Loops, Holds(k)', k \in closed', NEW j \in Loops, j # k
      PROVE loop'[j].pc \in {"none", "done"}
  <2>1. Holds(k) /\ k = l /\ k \in closed
    BY <1>2, <1>5, <1>9
  <2>2. loop[j].pc \in {"none", "done"}
    BY <1>9, <2>1 DEF Alone
  <2> QED BY <1>2, <1>9, <2>1, <2>2
<1>10. ui'.pc \in {"settle", "quitsettle"} => eng' = 0
  <2>1. ASSUME ui.pc \in {"settle", "quitsettle"} PROVE stopCh # l /\ eng = 0
    BY <1>0, <2>1, SessionAssumption DEF Settles, Alone, Loops
  <2> QED BY <1>2, <1>4, <2>1
<1> QED BY <1>6, <1>7, <1>8, <1>9, <1>10 DEF Alone

\* So does every other step.
LEMMA AloneNext ==
  ASSUME Prompt, OwnInv, OwnInv', Alone, [Next]_vars
  PROVE  Alone'
<1>0. Types /\ HostTypes /\ Settles /\ OwnEngines
  BY DEF OwnInv
<1>1. ASSUME NEW l \in Loops, LoopStep(l) PROVE Alone'
  BY <1>1, LoopKeepsAlone
<1>2. ASSUME UNCHANGED <<status, gen, stopCh, closed, eng, rules, loop, ui>> PROVE Alone'
  BY <1>2 DEF Alone, Started, Holds, Active
<1>3. ASSUME NEW e \in Engines, DialStep(e) \/ RunStep(e) \/ ProxyEnds(e) \/ Drop(e)
      PROVE Alone'
  <2>1. RunMove(e)
    BY <1>0, <1>3, RunMoves
  <2> QED BY <1>2, <2>1 DEF RunMove, session
<1>4. CASE Stops
  <2>1. /\ closed' = closed \union ({stopCh} \ {0}) /\ stopCh' = 0
        /\ UNCHANGED <<status, eng, loop>> /\ OlderEnded
        /\ ui'.pc \in {"settle", "quitsettle"} => eng = 0
    BY <1>4 DEF Stops
  <2>2. ASSUME NEW k \in Loops, Holds(k), k = stopCh, k # 0, NEW j \in Loops, j # k
        PROVE loop[j].pc \in {"none", "done"}
    <3>1. k \in Int /\ j \in Int
      BY SessionAssumption DEF Loops
    <3>2. CASE j < k
      BY <2>1, <2>2, <3>2 DEF OlderEnded, Holds
    <3>3. CASE j > k
      BY <2>2, <3>3 DEF Alone, Started
    <3> QED BY <2>2, <3>1, <3>2, <3>3
  <2>3. \A k \in Loops : Holds(k)' /\ k \in closed' =>
          \A j \in Loops : j # k => loop'[j].pc \in {"none", "done"}
    BY <2>1, <2>2 DEF Alone, Holds
  <2> QED BY <2>1, <2>3 DEF Alone, Started, Holds, Active
<1>5. CASE UIOnly
  <2>1. UNCHANGED <<stopCh, closed, eng, loop>> /\ ui'.pc \notin {"settle", "quitsettle"}
    BY <1>5 DEF UIOnly
  <2>2. ASSUME NEW l \in Loops, Holds(l) PROVE Active'
    <3>1. eng = loop[l].e /\ loop[l].e # 0 /\ Active
      BY <1>0, <2>2 DEF Alone, OwnEngines, Drives
    <3>2. status' = status
      BY <1>5, <3>1 DEF UIOnly, Alone
    <3> QED BY <3>1, <3>2 DEF Active
  <2> QED BY <2>1, <2>2 DEF Alone, Started, Holds
<1>6. ASSUME NEW l \in Loops, Connect(l) PROVE Alone'
  <2>1. /\ \A k \in Loops : k # l => loop'[k] = loop[k]
        /\ loop[l].pc = "none" /\ loop'[l].pc = "start" /\ stopCh' = l
        /\ \A k \in 1 .. (l - 1) : loop[k].pc # "none"
        /\ ~Active /\ ui.pc = "idle" /\ UNCHANGED <<closed, eng, ui>>
    BY <1>0, <1>6, ConnectDoes
  <2>2. \A k \in Loops : ~Holds(k)'
    BY <2>1 DEF Alone, Holds
  <2>3. l \in Nat /\ \A k \in Loops : k \in Nat /\ (k < l => k \in 1 .. (l - 1))
    BY SessionAssumption DEF Loops
  <2>4. \A k, j \in Loops : k < j /\ Started(j)' => Started(k)'
    <3> SUFFICES ASSUME NEW k \in Loops, NEW j \in Loops, k < j, Started(j)' PROVE Started(k)'
      OBVIOUS
    <3>1. CASE j = l
      BY <2>1, <2>3, <3>1 DEF Started
    <3>2. CASE j # l
      <4>1. Started(j) /\ Started(k)
        BY <2>1, <3>2 DEF Alone, Started
      <4> QED BY <2>1, <4>1 DEF Started
    <3> QED BY <3>1, <3>2
  <2>5. \A j \in Loops : stopCh' # 0 /\ j > stopCh' => ~Started(j)'
    <3> SUFFICES ASSUME NEW j \in Loops, l < j PROVE ~Started(j)'
      BY <2>1, <2>3
    <3>1. ~Started(j) /\ j # l
      BY <2>1, <2>3 DEF Alone, Started
    <3> QED BY <2>1, <3>1 DEF Started
  <2> QED BY <2>1, <2>2, <2>4, <2>5 DEF Alone
<1>7. CASE UNCHANGED vars
  BY <1>2, <1>7 DEF vars, session
<1>8. CASE UIStep \/ UserStep
  BY <1>4, <1>5, <1>6, <1>8, UIMoves
<1> QED BY <1>1, <1>3, <1>7, <1>8 DEF Next

\* One engine at a time: when a loop that was stopped ends before the next
\* one is stopped, no engine but the session's is ever inside Run.
THEOREM OneEngineRuns == Prompt => (Spec => []OneEngine)
<1> SUFFICES ASSUME Prompt PROVE Spec => []OneEngine
  OBVIOUS
<1> DEFINE Inv == OwnInv /\ Alone
<1>1. Init => Inv
  <2>1. Init => Alone
    BY SessionAssumption DEF Init, NewLoop, Alone, Started, Holds, Loops
  <2> QED BY <2>1, OwnInit
<1>2. Inv /\ [Next]_vars => Inv'
  BY OwnNext, AloneNext
<1>3. Inv => OneEngine
  BY DEF OwnInv, Alone, OneEngine, Awaited, Holds, Waits
<1> HIDE DEF Inv
<1> QED BY <1>1, <1>2, <1>3, PTL DEF Spec

---------------------------------------------------------------------------
(* What is left on the host                                                *)

\* The loop still has to release the engine it keeps as lastEng.
Releases(l) ==
  loop[l].last # 0 => /\ loop[l].pc \notin {"none", "done"}
                      /\ loop[l].pc = "exit" => loop[l].todo \in
                           {<<"release">>, <<"release", "finish">>, <<"finish", "release">>}

\* The loop has yet to act on how Run ended.
Sees(l) == Waits(l) \/ loop[l].pc \in {"ended", "decide"}

\* A loop will release what engine e kept: e is lastEng and the engine after
\* it is not up, or the loop has yet to see that e dropped.
ByLast(l, e) == loop[l].last = e /\ (loop[l].e = e \/ ~run[loop[l].e].ok)
BySight(l, e) == loop[l].e = e /\ Sees(l) /\ run[e].result = "drop"
Pending(e) == \E l \in Loops : ByLast(l, e) \/ BySight(l, e)

\* Someone restores what engine e did to the host.
Busy(e)   == run[e].phase \in {"up", "dropping", "reinstall"}
OnDuty(e) == Busy(e) \/ (run[e].phase = "returned" /\ run[e].kept /\ Pending(e))

\* An engine is ready from Setup on, and has kept rules only when it returned.
Fresh ==
  \A e \in Engines :
    /\ run[e].phase \in {"none", "new", "connecting", "cleaned"} => ~run[e].ok
    /\ Busy(e) => run[e].ok
    /\ run[e].phase # "returned" => ~run[e].kept
    /\ run[e].result = "drop" => run[e].ok

\* A loop that has Run's result has an engine that returned.
ResultsSeen ==
  \A l \in Loops :
    loop[l].pc \in {"ended", "decide"} => run[loop[l].e].phase = "returned"

\* lastEng has returned, is not the loop's next engine, and has no rules left
\* once that one has removed stale rules.
Lasts ==
  \A l \in Loops :
    /\ Releases(l)
    /\ loop[l].last # 0 =>
         /\ run[loop[l].last].phase = "returned" /\ loop[l].e # 0
         /\ Drives(l) => loop[l].e # loop[l].last
         /\ \A k \in Loops : k # l => loop[k].e # loop[l].last /\ loop[k].last # loop[l].last
         /\ /\ loop[l].e # loop[l].last
            /\ run[loop[l].e].ok \/ run[loop[l].e].phase = "cleaned"
            => fw[loop[l].last] = "none"

\* Rules, and a disabled IPv6, are somebody's duty.
Duties ==
  /\ dns = "host"
  /\ ipv6 => LockdownIPv6
  /\ \A e \in Engines : fw[e] # "none" => OnDuty(e)
  /\ ipv6 => \E e \in Engines : OnDuty(e)

HostInv == Fresh /\ ResultsSeen /\ Lasts /\ Duties

\* pf and nft load their rules at once and remove stale ones: what is proved
\* of the host is proved for them.
Clears == Method \in {"pf", "nft"}

\* No engine but e gets rules.
Fewer(e) == \A f \in Engines : f # e => fw'[f] = fw[f] \/ fw'[f] = "none"

\* What pf and nft do to the rules.
LEMMA RulesChange ==
  ASSUME Clears, HostTypes, NEW e \in Engines
  PROVE  /\ CleanStaleAnchors = NoRules
         /\ \A f \in Engines : NoRules[f] = "none"
         /\ Restored(e)[e] = "none"
         /\ \A f \in Engines : f # e => Restored(e)[f] = fw[f] \/ Restored(e)[f] = "none"
         /\ \A kind \in Kinds, f \in Engines :
              f # e => Installed(e, kind)[f] = fw[f] \/ Installed(e, kind)[f] = "none"
         /\ SetupFailures(e) \subseteq {fw, NoRules}
<1>0. fw \in [Engines -> Kinds] /\ Method \in {"pf", "nft"}
  BY DEF HostTypes, Clears
<1>1. CleanStaleAnchors = NoRules /\ \A f \in Engines : NoRules[f] = "none"
  BY <1>0 DEF CleanStaleAnchors, NoRules
<1>2. Restored(e)[e] = "none"
      /\ \A f \in Engines : f # e => Restored(e)[f] = fw[f] \/ Restored(e)[f] = "none"
  BY <1>0 DEF Restored, NoRules
<1>3. \A kind \in Kinds, f \in Engines :
        f # e => Installed(e, kind)[f] = fw[f] \/ Installed(e, kind)[f] = "none"
  BY <1>0 DEF Installed, NoRules
<1>4. SetupFailures(e) \subseteq {fw, NoRules}
  BY <1>0 DEF SetupFailures, Shared
<1> QED BY <1>1, <1>2, <1>3, <1>4

\* Rules that a dropping engine leaves are its own.
LEMMA NextRulesFewer ==
  ASSUME Clears, HostTypes, NEW e \in Engines, fw' \in NextRules(e)
  PROVE  Fewer(e)
<1>0. "nodns" \in Kinds
  BY DEF Kinds
<1>1. CASE ~DisablesDNS
  BY <1>1 DEF NextRules, RemovesFirst, Fewer
<1>2. CASE DisablesDNS /\ RemovesFirst(e)
  BY <1>2, RulesChange DEF NextRules, Fewer
<1>3. CASE DisablesDNS /\ ~RemovesFirst(e)
  <2>1. fw' \in {Installed(e, "nodns")} \union (IF Shared THEN SetupFailures(e) ELSE {fw})
    BY <1>3 DEF NextRules
  <2>2. CASE fw' = Installed(e, "nodns")
    BY <1>0, <2>2, RulesChange DEF Fewer
  <2>3. CASE fw' = fw \/ fw' = NoRules
    BY <2>3, RulesChange DEF Fewer
  <2> QED BY <2>1, <2>2, <2>3, RulesChange
<1> QED BY <1>1, <1>2, <1>3

\* RestoreHost leaves nothing of engine e.
LEMMA RestoreHostDoes ==
  ASSUME Clears, HostTypes, Duties, NEW e \in Engines, RestoreHost(e)
  PROVE  Fewer(e) /\ fw'[e] = "none" /\ ipv6' = FALSE /\ dns' = dns
<1>1. Fewer(e) /\ fw'[e] = "none"
  BY RulesChange DEF RestoreHost, Fewer
<1>2. dns' = dns
  BY DEF RestoreHost, RestoredDNS, Clears
<1>3. ipv6' = FALSE
  BY DEF RestoreHost, Duties, HostTypes
<1> QED BY <1>1, <1>2, <1>3

---------------------------------------------------------------------------
(* Steps that touch neither the host nor an engine's duties                *)

\* No loop's engines and no engine's fields change; no duty is dropped.
Calm ==
  /\ UNCHANGED host
  /\ \A e \in Engines :
       /\ run'[e].phase = run[e].phase /\ run'[e].ok = run[e].ok
       /\ run'[e].kept = run[e].kept /\ run'[e].result = run[e].result
  /\ \A l \in Loops :
       /\ loop'[l].e = loop[l].e /\ loop'[l].last = loop[l].last
       /\ Releases(l)'
       /\ Drives(l)' => Drives(l)
       /\ Sees(l) => Sees(l)' \/ run[loop[l].e].result # "drop"
       /\ loop'[l].pc \in {"ended", "decide"} =>
            Drives(l) /\ run[loop[l].e].phase = "returned"

\* A loop's engines are engines.
LEMMA LastOf ==
  ASSUME Types, NEW l \in Loops, loop[l].last # 0
  PROVE  loop[l].last \in Engines
<1>1. loop[l].last \in 0 .. MaxEngines
  BY DEF Types, LoopType
<1> QED BY <1>1, SessionAssumption DEF Engines

\* Calm steps keep the host invariant.
LEMMA CalmKeeps ==
  ASSUME Types, OwnEngines, HostInv, Calm
  PROVE  HostInv'
<1>0. Fresh /\ ResultsSeen /\ Lasts /\ Duties
  BY DEF HostInv
<1>1. \A l \in Loops : loop'[l].e = loop[l].e /\ loop'[l].last = loop[l].last
  BY DEF Calm
<1>2. \A l \in Loops : loop[l].e # 0 =>
        /\ run'[loop[l].e].phase = run[loop[l].e].phase
        /\ run'[loop[l].e].ok = run[loop[l].e].ok
  BY EngineOf DEF Calm
<1>3. \A l \in Loops : loop[l].last # 0 =>
        run'[loop[l].last].phase = run[loop[l].last].phase
  BY LastOf DEF Calm
<1>4. Fresh'
  BY <1>0 DEF Fresh, Busy, Calm
<1>5. ResultsSeen'
  <2>1. \A l \in Loops : Drives(l) => loop[l].e # 0
    BY DEF OwnEngines
  <2> QED BY <1>1, <1>2, <2>1 DEF ResultsSeen, Calm
<1>6. Lasts'
  <2>1. UNCHANGED fw
    BY DEF Calm, host
  <2>2. \A l \in Loops : Releases(l)' /\ (Drives(l)' => Drives(l))
    BY DEF Calm
  <2> SUFFICES ASSUME NEW l \in Loops, loop[l].last # 0
      PROVE  /\ run'[loop[l].last].phase = "returned" /\ loop[l].e # 0
             /\ Drives(l)' => loop[l].e # loop[l].last
             /\ \A k \in Loops : k # l => loop[k].e # loop[l].last /\ loop[k].last # loop[l].last
             /\ /\ loop[l].e # loop[l].last
                /\ run'[loop[l].e].ok \/ run'[loop[l].e].phase = "cleaned"
                => fw[loop[l].last] = "none"
    BY <1>1, <2>1, <2>2 DEF Lasts
  <2>3. loop[l].e # 0 /\ run[loop[l].last].phase = "returned"
    BY <1>0 DEF Lasts
  <2> QED BY <1>0, <1>2, <1>3, <2>2, <2>3 DEF Lasts
<1>7. \A e \in Engines : OnDuty(e) => OnDuty(e)'
  <2> SUFFICES ASSUME NEW e \in Engines, OnDuty(e) PROVE OnDuty(e)'
    OBVIOUS
  <2>1. CASE Busy(e)
    BY <2>1 DEF OnDuty, Busy, Calm
  <2>2. ASSUME run[e].phase = "returned", run[e].kept, NEW l \in Loops, ByLast(l, e)
        PROVE OnDuty(e)'
    <3>1. e # 0 /\ loop[l].last = e
      BY <2>2, SessionAssumption DEF ByLast, Engines
    <3>2. loop[l].e # 0
      BY <1>0, <3>1 DEF Lasts
    <3>3. ByLast(l, e)'
      BY <1>1, <1>2, <2>2, <3>2 DEF ByLast
    <3> QED BY <2>2, <3>3 DEF OnDuty, Pending, Calm
  <2>3. ASSUME run[e].phase = "returned", run[e].kept, NEW l \in Loops, BySight(l, e)
        PROVE OnDuty(e)'
    <3>1. BySight(l, e)'
      BY <1>1, <2>3 DEF BySight, Calm
    <3> QED BY <2>3, <3>1 DEF OnDuty, Pending, Calm
  <2> QED BY <2>1, <2>2, <2>3 DEF OnDuty, Pending
<1>8. Duties'
  BY <1>0, <1>7 DEF Duties, Calm, host
<1> QED BY <1>4, <1>5, <1>6, <1>8 DEF HostInv

\* When one loop's step is calm, the whole step is.
LEMMA CalmLoop ==
  ASSUME Types, Lasts, ResultsSeen, NEW l \in Loops, UNCHANGED host,
         \A k \in Loops : k # l => loop'[k] = loop[k],
         \A e \in Engines :
           /\ run'[e].phase = run[e].phase /\ run'[e].ok = run[e].ok
           /\ run'[e].kept = run[e].kept /\ run'[e].result = run[e].result,
         loop'[l].e = loop[l].e, loop'[l].last = loop[l].last,
         Releases(l)', Drives(l)' => Drives(l),
         Sees(l) => Sees(l)' \/ run[loop[l].e].result # "drop",
         loop'[l].pc \in {"ended", "decide"} =>
            Drives(l) /\ run[loop[l].e].phase = "returned"
  PROVE  Calm
<1>1. ASSUME NEW k \in Loops, k # l
      PROVE /\ Releases(k)' /\ (Drives(k)' => Drives(k)) /\ (Sees(k) => Sees(k)')
            /\ loop'[k].pc \in {"ended", "decide"} =>
                 Drives(k) /\ run[loop[k].e].phase = "returned"
  BY <1>1 DEF Lasts, ResultsSeen, Releases, Drives, Holds, Sees, Waits
<1> QED BY <1>1 DEF Calm

\* The steps of a loop that are calm.
LEMMA CalmSteps ==
  ASSUME OwnInv, HostInv, NEW l \in Loops,
         \/ StartFails(l) \/ (Adopt(l) /\ ~Stale(l)) \/ SelectStop(l) \/ ReceiveDone(l)
         \/ (SelectReady(l) /\ loop'[l].last = loop[l].last)
         \/ WaitStop(l) \/ CloseEngine(l)
         \/ (Decide(l) /\ run[loop[l].e].result # "drop")
         \/ CountdownStop(l) \/ CountdownEnd(l) \/ Finish(l) \/ LoopReturns(l)
  PROVE  Calm
<1>0. Types /\ OwnEngines /\ Lasts /\ ResultsSeen /\ Releases(l)
  BY DEF OwnInv, HostInv, Lasts
<1> USE DEF Releases, Drives, Holds, Sees, Waits
<1>1. CASE StartFails(l)
  BY <1>0, <1>1, StartFailsDoes, CalmLoop DEF LoopOnly
<1>2. CASE Adopt(l) /\ ~Stale(l)
  BY <1>0, <1>2, AdoptCurrentDoes, CalmLoop DEF LoopOnly
<1>3. CASE SelectStop(l)
  BY <1>0, <1>3, SelectStopDoes, CalmLoop DEF LoopOnly
<1>4. CASE ReceiveDone(l)
  BY <1>0, <1>4, ReceiveDoneDoes, CalmLoop DEF LoopOnly
<1>5. CASE SelectReady(l) /\ loop'[l].last = loop[l].last
  BY <1>0, <1>5, SelectReadyDoes, CalmLoop DEF LoopOnly
<1>6. CASE WaitStop(l)
  <2>1. loop[l].pc = "wait"
    BY <1>6 DEF WaitStop, At
  <2>2. PICK e \in Engines : e = loop[l].e
    BY <1>0, <2>1, EngineOf DEF OwnEngines
  <2>3. /\ \A k \in Loops : k # l => loop'[k] = loop[k]
        /\ \A f \in Engines :
             /\ run'[f].phase = run[f].phase /\ run'[f].ok = run[f].ok
             /\ run'[f].kept = run[f].kept /\ run'[f].result = run[f].result
        /\ UNCHANGED host /\ loop'[l].pc = "stopping"
        /\ loop'[l].e = loop[l].e /\ loop'[l].last = loop[l].last
    BY <1>0, <1>6, <2>2, WaitStopDoes DEF LoopOnly, RunOnly
  <2> QED BY <1>0, <2>1, <2>3, CalmLoop
<1>7. CASE CloseEngine(l)
  BY <1>0, <1>7, CloseEngineDoes, CalmLoop DEF LoopOnly, ResultsSeen
<1>8. CASE Decide(l) /\ run[loop[l].e].result # "drop"
  BY <1>0, <1>8, DecideDoes, CalmLoop DEF LoopOnly
<1>9. CASE CountdownStop(l)
  BY <1>0, <1>9, CountdownStopDoes, CalmLoop DEF LoopOnly
<1>10. CASE CountdownEnd(l)
  BY <1>0, <1>10, CountdownEndDoes, CalmLoop DEF LoopOnly
<1>11. CASE Finish(l)
  <2>1. /\ LoopOnly(l) /\ UNCHANGED <<eng, run, host>>
        /\ loop[l].pc = "exit" /\ loop'[l].pc = "exit"
        /\ loop'[l].e = loop[l].e /\ loop'[l].last = loop[l].last
        /\ Head(loop[l].todo) = "finish" /\ loop'[l].todo = Tail(loop[l].todo)
    BY <1>0, <1>11, FinishDoes
  <2>2. Head(<<"release">>) # "finish" /\ Head(<<"release", "finish">>) # "finish"
        /\ Tail(<<"finish", "release">>) = <<"release">>
    OBVIOUS
  <2>3. Releases(l)'
    BY <1>0, <2>1, <2>2
  <2> QED BY <1>0, <2>1, <2>3, CalmLoop DEF LoopOnly
<1>12. CASE LoopReturns(l)
  <2>1. <<>> \notin {<<"release">>, <<"release", "finish">>, <<"finish", "release">>}
    OBVIOUS
  <2> QED BY <1>0, <1>12, <2>1, LoopReturnsDoes, CalmLoop DEF LoopOnly
<1> QED BY <1>1, <1>2, <1>3, <1>4, <1>5, <1>6, <1>7, <1>8, <1>9, <1>10, <1>11, <1>12

\* SelectReady of an engine that is up: the one before it has no duty left.
LEMMA ForgetLastKeeps ==
  ASSUME OwnInv, HostInv, NEW l \in Loops, SelectReady(l), loop'[l].last # loop[l].last
  PROVE  HostInv'
<1>0. Types /\ OwnEngines /\ Fresh /\ Lasts /\ ResultsSeen /\ Duties
  BY DEF OwnInv, HostInv
<1>1. /\ \A k \in Loops : k # l => loop'[k] = loop[k]
      /\ UNCHANGED <<run, host>> /\ loop[l].pc = "select" /\ loop'[l].pc = "wait"
      /\ loop'[l].e = loop[l].e /\ loop'[l].last = 0 /\ run[loop[l].e].ok
  BY <1>0, SelectReadyDoes DEF LoopOnly
<1>2. loop[l].last # 0 => loop[l].e # loop[l].last
  BY <1>0, <1>1 DEF Lasts, Drives, Holds
<1>3. Fresh' /\ ResultsSeen'
  BY <1>0, <1>1 DEF Fresh, Busy, ResultsSeen
<1>4. Lasts'
  BY <1>0, <1>1 DEF Lasts, Releases, Drives, Holds, host
<1>5. \A e \in Engines : OnDuty(e) => OnDuty(e)'
  <2>1. 0 \notin Engines
    BY SessionAssumption DEF Engines
  <2>2. \A e \in Engines, k \in Loops : ByLast(k, e) => ByLast(k, e)'
    BY <1>1, <1>2, <2>1 DEF ByLast
  <2>3. \A e \in Engines, k \in Loops : BySight(k, e) => BySight(k, e)'
    BY <1>1 DEF BySight, Sees, Waits
  <2> QED BY <1>1, <2>2, <2>3 DEF OnDuty, Busy, Pending
<1>6. Duties'
  BY <1>0, <1>1, <1>5 DEF Duties, host
<1> QED BY <1>3, <1>4, <1>6 DEF HostInv

\* Decide after a drop: the engine that dropped takes over from lastEng.
LEMMA KeepLastKeeps ==
  ASSUME OwnInv, HostInv, NEW l \in Loops, Decide(l), run[loop[l].e].result = "drop"
  PROVE  HostInv'
<1>0. Types /\ OwnEngines /\ Fresh /\ Lasts /\ ResultsSeen /\ Duties
  BY DEF OwnInv, HostInv
<1>1. /\ \A k \in Loops : k # l => loop'[k] = loop[k]
      /\ UNCHANGED <<run, host>> /\ loop[l].pc = "decide"
      /\ loop'[l].pc \in {"countdown", "exit"}
      /\ loop'[l].pc = "exit" => loop'[l].todo = <<"release", "finish">>
      /\ loop'[l].e = loop[l].e /\ loop'[l].last = loop[l].e
  BY <1>0, DecideDoes DEF LoopOnly
<1>2. PICK e \in Engines : e = loop[l].e
  BY <1>0, <1>1, EngineOf DEF OwnEngines, Drives
<1>3. e # 0 /\ run[e].phase = "returned" /\ run[e].ok
  BY <1>0, <1>1, <1>2, SessionAssumption DEF ResultsSeen, Fresh, Engines
<1>4. loop[l].last # 0 => loop[l].e # loop[l].last
  BY <1>0, <1>1 DEF Lasts, Drives
<1>5. Fresh' /\ ResultsSeen'
  BY <1>0, <1>1 DEF Fresh, Busy, ResultsSeen
<1>6. Lasts'
  <2>1. \A k \in Loops : Releases(k)' /\ (Drives(k)' => Drives(k) /\ k # l)
    BY <1>0, <1>1 DEF Lasts, Releases, Drives, Holds
  <2>2. \A k \in Loops : k # l => loop[k].e # e /\ loop[k].last # e
    BY <1>0, <1>2, <1>3 DEF Lasts, OwnEngines
  <2> QED BY <1>0, <1>1, <1>2, <1>3, <2>1, <2>2 DEF Lasts, host
<1>7. \A f \in Engines : OnDuty(f) => OnDuty(f)'
  <2>1. 0 \notin Engines
    BY SessionAssumption DEF Engines
  <2>2. \A f \in Engines, k \in Loops : ByLast(k, f) => ByLast(k, f)'
    BY <1>1, <1>2, <1>3, <1>4, <2>1 DEF ByLast
  <2>3. \A f \in Engines, k \in Loops : BySight(k, f) => BySight(k, f)' \/ ByLast(k, f)'
    BY <1>1 DEF BySight, ByLast, Sees, Waits
  <2> QED BY <1>1, <2>2, <2>3 DEF OnDuty, Busy, Pending
<1>8. Duties'
  BY <1>0, <1>1, <1>7 DEF Duties, host
<1> QED BY <1>5, <1>6, <1>8 DEF HostInv

\* Release restores what lastEng kept, and nothing of it is left.
LEMMA ReleaseKeepsHost ==
  ASSUME Clears, OwnInv, HostInv, NEW l \in Loops, Release(l)
  PROVE  HostInv'
<1>0. Types /\ HostTypes /\ OwnEngines /\ Fresh /\ Lasts /\ ResultsSeen /\ Duties
  BY DEF OwnInv, HostInv
<1>1. /\ \A k \in Loops : k # l => loop'[k] = loop[k]
      /\ loop[l].pc = "exit" /\ loop'[l].pc = "exit"
      /\ loop'[l].e = loop[l].e /\ loop'[l].last = 0
  BY <1>0, ReleaseDoes DEF LoopOnly
<1>2. 0 \notin Engines
  BY SessionAssumption DEF Engines
<1>3. \A k \in Loops : Releases(k)' /\ (Drives(k)' => Drives(k) /\ k # l)
  BY <1>0, <1>1 DEF Lasts, Releases, Drives, Holds
<1>4. CASE UNCHANGED <<host, run>> /\ (loop[l].last # 0 => ~run[loop[l].last].kept)
  <2>1. Fresh' /\ ResultsSeen'
    BY <1>0, <1>1, <1>4 DEF Fresh, Busy, ResultsSeen
  <2>2. Lasts'
    BY <1>0, <1>1, <1>3, <1>4 DEF Lasts, host
  <2>3. \A e \in Engines : OnDuty(e) => OnDuty(e)'
    <3>1. \A e \in Engines, k \in Loops :
            run[e].kept /\ (ByLast(k, e) \/ BySight(k, e)) => ByLast(k, e)' \/ BySight(k, e)'
      BY <1>1, <1>2, <1>4 DEF ByLast, BySight, Sees, Waits
    <3> QED BY <1>4, <3>1 DEF OnDuty, Busy, Pending
  <2>4. Duties'
    BY <1>0, <1>4, <2>3 DEF Duties, host
  <2> QED BY <2>1, <2>2, <2>4 DEF HostInv
<1>5. ASSUME NEW f \in Engines, f = loop[l].last, RunOnly(f), RestoreHost(f),
             run'[f].kept = FALSE, run'[f].phase = run[f].phase,
             run'[f].result = run[f].result, run'[f].ok = run[f].ok
      PROVE  HostInv'
  <2>1. Fewer(f) /\ fw'[f] = "none" /\ ipv6' = FALSE /\ dns' = dns
    BY <1>0, <1>5, RestoreHostDoes
  <2>2. /\ \A e \in Engines : e # f => run'[e] = run[e]
        /\ \A e \in Engines : /\ run'[e].phase = run[e].phase /\ run'[e].ok = run[e].ok
                              /\ run'[e].result = run[e].result
    BY <1>5 DEF RunOnly
  <2>3. f # 0 /\ run[f].phase = "returned"
    BY <1>0, <1>2, <1>5 DEF Lasts
  <2>4. \A k \in Loops : loop'[k].e = loop[k].e
    BY <1>1
  <2>5. \A k \in Loops : loop[k].e # 0 =>
          /\ run'[loop[k].e].phase = run[loop[k].e].phase
          /\ run'[loop[k].e].ok = run[loop[k].e].ok
    BY <1>0, <2>2, EngineOf
  <2>6. Fresh'
    BY <1>0, <1>5, <2>2 DEF Fresh, Busy
  <2>7. ResultsSeen'
    <3>1. \A k \in Loops : loop[k].pc \in {"ended", "decide"} => loop[k].e # 0
      BY <1>0 DEF OwnEngines, Drives, Holds
    <3> QED BY <1>0, <1>1, <2>4, <2>5, <3>1 DEF ResultsSeen
  <2>8. Lasts'
    <3> SUFFICES ASSUME NEW k \in Loops, loop'[k].last # 0
        PROVE  /\ run'[loop'[k].last].phase = "returned" /\ loop'[k].e # 0
               /\ Drives(k)' => loop'[k].e # loop'[k].last
               /\ \A j \in Loops : j # k => loop'[j].e # loop'[k].last /\ loop'[j].last # loop'[k].last
               /\ /\ loop'[k].e # loop'[k].last
                  /\ run'[loop'[k].e].ok \/ run'[loop'[k].e].phase = "cleaned"
                  => fw'[loop'[k].last] = "none"
      BY <1>3 DEF Lasts
    <3>1. k # l /\ loop'[k] = loop[k] /\ loop[k].e # 0
      BY <1>0, <1>1 DEF Lasts
    <3>2. PICK g \in Engines : g = loop[k].last
      BY <1>0, <3>1, LastOf
    <3>3. g # f /\ run'[g].phase = run[g].phase
      BY <1>0, <1>5, <2>2, <3>1, <3>2 DEF Lasts
    <3>4. fw[g] = "none" => fw'[g] = "none"
      BY <2>1, <3>3 DEF Fewer
    <3> QED BY <1>0, <1>1, <1>3, <2>4, <2>5, <3>1, <3>2, <3>3, <3>4 DEF Lasts
  <2>9. \A e \in Engines : e # f /\ OnDuty(e) => OnDuty(e)'
    <3>1. \A e \in Engines, k \in Loops : e # f /\ ByLast(k, e) => ByLast(k, e)'
      <4> SUFFICES ASSUME NEW e \in Engines, NEW k \in Loops, e # f, ByLast(k, e)
          PROVE ByLast(k, e)'
        OBVIOUS
      <4>1. loop[k].last = e /\ k # l /\ loop[k].e # 0
        BY <1>0, <1>2, <1>5 DEF ByLast, Lasts
      <4> QED BY <1>1, <2>5, <4>1 DEF ByLast
    <3>2. \A e \in Engines, k \in Loops : e # f /\ BySight(k, e) => BySight(k, e)'
      BY <1>1, <2>2 DEF BySight, Sees, Waits
    <3> QED BY <2>2, <3>1, <3>2 DEF OnDuty, Busy, Pending
  <2>10. Duties'
    BY <1>0, <2>1, <2>9 DEF Duties, Fewer
  <2> QED BY <2>6, <2>7, <2>8, <2>10 DEF HostInv
<1> QED BY <1>0, <1>4, <1>5, ReleaseRestores

\* A step that moves on an engine which has not been set up and is not
\* lastEng: a new engine, its start, or its end before Run.
LEMMA NewEngineKeepsHost ==
  ASSUME OwnInv, HostInv, NEW l \in Loops, NEW e \in Engines, UNCHANGED host, RunOnly(e),
         \A k \in Loops : k # l => loop'[k] = loop[k],
         loop'[l].e = e, loop'[l].last = loop[l].last,
         loop'[l].last # 0 => Releases(l)',
         run[e].phase \in {"none", "new"}, run'[e].phase \in {"new", "connecting", "returned"},
         run'[e].ok = run[e].ok, run'[e].kept = run[e].kept, run'[e].result = run[e].result,
         ~Sees(l), loop'[l].pc \notin {"ended", "decide"},
         \A k \in Loops : k # l => loop[k].e # e
  PROVE  HostInv'
<1>0. Types /\ HostTypes /\ OwnEngines /\ Fresh /\ Lasts /\ ResultsSeen /\ Duties
  BY DEF OwnInv, HostInv
<1>1. \A f \in Engines : f # e => run'[f] = run[f]
  BY DEF RunOnly
<1>2. ~run[e].ok /\ ~run[e].kept /\ ~run'[e].ok
  BY <1>0 DEF Fresh
<1>3. 0 \notin Engines
  BY SessionAssumption DEF Engines
<1>4. Fresh'
  BY <1>0, <1>1, <1>2 DEF Fresh, Busy
<1>5. \A k \in Loops : k # l /\ loop[k].e # 0 => run'[loop[k].e] = run[loop[k].e]
  BY <1>0, <1>1, EngineOf
<1>6. \A k \in Loops : loop[k].last # 0 => loop[k].last # e /\ run'[loop[k].last] = run[loop[k].last]
  <2> SUFFICES ASSUME NEW k \in Loops, loop[k].last # 0
      PROVE loop[k].last # e /\ run'[loop[k].last] = run[loop[k].last]
    OBVIOUS
  <2>1. run[loop[k].last].phase = "returned"
    BY <1>0 DEF Lasts
  <2>2. loop[k].last # e
    BY <2>1
  <2>3. loop[k].last \in Engines
    BY <1>0, LastOf
  <2> QED BY <1>1, <2>2, <2>3
<1>7. ResultsSeen'
  <2>1. \A k \in Loops : loop[k].pc \in {"ended", "decide"} => loop[k].e # 0
    BY <1>0 DEF OwnEngines, Drives, Holds
  <2> QED BY <1>0, <1>5, <2>1 DEF ResultsSeen
<1>8. Lasts'
  <2>1. \A k \in Loops : Releases(k)'
    BY <1>0 DEF Lasts, Releases
  <2> SUFFICES ASSUME NEW k \in Loops, loop'[k].last # 0
      PROVE  /\ run'[loop'[k].last].phase = "returned" /\ loop'[k].e # 0
             /\ Drives(k)' => loop'[k].e # loop'[k].last
             /\ \A j \in Loops : j # k => loop'[j].e # loop'[k].last /\ loop'[j].last # loop'[k].last
             /\ /\ loop'[k].e # loop'[k].last
                /\ run'[loop'[k].e].ok \/ run'[loop'[k].e].phase = "cleaned"
                => fw'[loop'[k].last] = "none"
    BY <2>1 DEF Lasts
  <2>2. loop'[k].last = loop[k].last /\ UNCHANGED fw
    BY DEF host
  <2>3. run'[loop[k].last].phase = "returned"
    BY <1>0, <1>6, <2>2 DEF Lasts
  <2>4. \A j \in Loops : j # k => loop'[j].e # loop'[k].last /\ loop'[j].last # loop'[k].last
    BY <1>0, <1>6, <2>2 DEF Lasts
  <2>5. CASE k = l
    BY <1>2, <1>3, <1>6, <2>2, <2>3, <2>4, <2>5
  <2>6. CASE k # l
    <3>1. loop'[k] = loop[k] /\ (Drives(k)' => Drives(k)) /\ loop[k].e # 0
      BY <1>0, <2>2, <2>6 DEF Drives, Holds, Lasts
    <3> QED BY <1>0, <1>5, <2>2, <2>3, <2>4, <2>6, <3>1 DEF Lasts
  <2> QED BY <2>5, <2>6
<1>9. \A f \in Engines : OnDuty(f) => f # e /\ OnDuty(f)'
  <2> SUFFICES ASSUME NEW f \in Engines, OnDuty(f) PROVE f # e /\ OnDuty(f)'
    OBVIOUS
  <2>1. f # e
    BY DEF OnDuty, Busy
  <2>2. ASSUME NEW k \in Loops, ByLast(k, f) PROVE ByLast(k, f)'
    <3>1. loop[k].last = f /\ loop[k].e # 0
      BY <1>0, <1>3, <2>2 DEF ByLast, Lasts
    <3>2. CASE k = l
      BY <1>2, <3>1, <3>2 DEF ByLast
    <3>3. CASE k # l
      BY <1>5, <2>2, <3>1, <3>3 DEF ByLast
    <3> QED BY <3>2, <3>3
  <2>3. ASSUME NEW k \in Loops, BySight(k, f) PROVE BySight(k, f)'
    <3>1. k # l
      BY <2>3 DEF BySight
    <3> QED BY <1>1, <2>1, <2>3, <3>1 DEF BySight, Sees, Waits
  <2> QED BY <1>1, <2>1, <2>2, <2>3 DEF OnDuty, Busy, Pending
<1>10. Duties'
  BY <1>0, <1>9 DEF Duties, host
<1> QED BY <1>4, <1>7, <1>8, <1>10 DEF HostInv

\* Every step of a loop keeps the host invariant.
LEMMA LoopKeepsHost ==
  ASSUME Clears, OwnInv, HostInv, NEW l \in Loops, LoopStep(l)
  PROVE  HostInv'
<1>0. Types /\ OwnEngines /\ Releases(l)
  BY DEF OwnInv, HostInv, Lasts
<1>1. ASSUME Calm PROVE HostInv'
  BY <1>0, <1>1, CalmKeeps
<1>2. ASSUME NEW e \in Engines, StartEngine(l, e) PROVE HostInv'
  <2>1. /\ LoopOnly(l) /\ RunOnly(e) /\ UNCHANGED host
        /\ loop[l].pc = "start" /\ loop'[l].pc = "adopt"
        /\ loop'[l].e = e /\ loop'[l].last = loop[l].last
        /\ run[e].phase = "none" /\ run'[e].phase = "new"
        /\ run'[e].ok = run[e].ok /\ run'[e].kept = run[e].kept
        /\ run'[e].result = run[e].result
    BY <1>0, <1>2, StartEngineDoes
  <2>2. \A k \in Loops : k # l => loop[k].e # e
    BY <1>0, <2>1, SessionAssumption DEF OwnEngines, Engines
  <2>3. ~Sees(l) /\ Releases(l)'
    BY <2>1 DEF Sees, Waits, Releases
  <2> QED BY <2>1, <2>2, <2>3, NewEngineKeepsHost DEF LoopOnly
<1>3. CASE Adopt(l) /\ Stale(l)
  <2>1. loop[l].pc = "adopt"
    BY <1>3 DEF Adopt, At
  <2>2. PICK e \in Engines : e = loop[l].e
    BY <1>0, <2>1, EngineOf DEF OwnEngines, Drives
  <2>3. /\ LoopOnly(l) /\ RunOnly(e) /\ UNCHANGED host
        /\ loop'[l].pc = "exit" /\ loop'[l].todo = <<"release">>
        /\ loop'[l].e = e /\ loop'[l].last = loop[l].last
        /\ run'[e].phase = "returned"
        /\ run'[e].ok = run[e].ok /\ run'[e].kept = run[e].kept
        /\ run'[e].result = run[e].result
    BY <1>0, <1>3, <2>2, AdoptStaleDoes
  <2>4. run[e].phase = "new" /\ \A k \in Loops : k # l => loop[k].e # e
    BY <1>0, <2>1, <2>2, SessionAssumption DEF OwnEngines, Engines
  <2>5. ~Sees(l) /\ Releases(l)'
    BY <2>1, <2>3 DEF Sees, Waits, Releases
  <2> QED BY <2>3, <2>4, <2>5, NewEngineKeepsHost DEF LoopOnly
<1>4. CASE ApplyAndRun(l)
  <2>1. loop[l].pc = "apply"
    BY <1>4 DEF ApplyAndRun, At
  <2>2. PICK e \in Engines : e = loop[l].e
    BY <1>0, <2>1, EngineOf DEF OwnEngines, Drives, Holds
  <2>3. /\ LoopOnly(l) /\ RunOnly(e) /\ UNCHANGED host
        /\ loop'[l].pc = "select"
        /\ loop'[l].e = e /\ loop'[l].last = loop[l].last
        /\ run'[e].phase = "connecting"
        /\ run'[e].ok = run[e].ok /\ run'[e].kept = run[e].kept
        /\ run'[e].result = run[e].result
    BY <1>0, <1>4, <2>2, ApplyAndRunDoes
  <2>4. run[e].phase = "new" /\ \A k \in Loops : k # l => loop[k].e # e
    BY <1>0, <2>1, <2>2, SessionAssumption DEF OwnEngines, Engines
  <2>5. ~Sees(l) /\ Releases(l)'
    BY <2>1, <2>3 DEF Sees, Waits, Releases
  <2> QED BY <2>3, <2>4, <2>5, NewEngineKeepsHost DEF LoopOnly
<1>5. CASE SelectReady(l)
  <2>1. CASE loop'[l].last = loop[l].last
    BY <1>1, <1>5, <2>1, CalmSteps
  <2>2. CASE loop'[l].last # loop[l].last
    BY <1>5, <2>2, ForgetLastKeeps
  <2> QED BY <2>1, <2>2
<1>6. CASE Decide(l)
  <2>1. CASE run[loop[l].e].result = "drop"
    BY <1>6, <2>1, KeepLastKeeps
  <2>2. CASE run[loop[l].e].result # "drop"
    BY <1>1, <1>6, <2>2, CalmSteps
  <2> QED BY <2>1, <2>2
<1>7. CASE Release(l)
  BY <1>7, ReleaseKeepsHost
<1>8. CASE \/ StartFails(l) \/ (Adopt(l) /\ ~Stale(l)) \/ SelectStop(l) \/ ReceiveDone(l)
           \/ WaitStop(l) \/ CloseEngine(l)
           \/ CountdownStop(l) \/ CountdownEnd(l) \/ Finish(l) \/ LoopReturns(l)
  <2>1. Calm
    BY <1>8, CalmSteps
  <2> QED BY <1>1, <2>1
<1> QED BY <1>2, <1>3, <1>4, <1>5, <1>6, <1>7, <1>8 DEF LoopStep

---------------------------------------------------------------------------
(* Steps of an engine                                                      *)

\* A step of an engine inside Run is of no lastEng, and leaves what loops
\* know of the others alone.
LEMMA RunKeepsLasts ==
  ASSUME OwnInv, HostInv, NEW e \in Engines, RunMove(e), Fewer(e),
         \/ run'[e].ok \/ run'[e].phase = "cleaned" =>
              run[e].ok \/ run[e].phase = "cleaned"
         \/ fw' = NoRules
  PROVE  Lasts' /\ ResultsSeen'
<1>0. Types /\ HostTypes /\ OwnEngines /\ Lasts /\ ResultsSeen
  BY DEF OwnInv, HostInv
<1>1. /\ UNCHANGED loop /\ \A f \in Engines : f # e => run'[f] = run[f]
      /\ run[e].phase # "returned"
  BY DEF RunMove, RunOnly, Running
<1>2. ASSUME NEW l \in Loops, run[loop[l].e].phase = "returned", loop[l].e # 0
      PROVE run'[loop[l].e].phase = "returned"
  BY <1>0, <1>1, <1>2, EngineOf
<1>3. ResultsSeen'
  <2>1. \A l \in Loops : loop[l].pc \in {"ended", "decide"} => loop[l].e # 0
    BY <1>0 DEF OwnEngines, Drives, Holds
  <2> QED BY <1>0, <1>1, <1>2, <2>1 DEF ResultsSeen
<1>4. Lasts'
  <2>1. \A l \in Loops : Releases(l)' /\ (Drives(l)' <=> Drives(l))
    BY <1>0, <1>1 DEF Lasts, Releases, Drives, Holds
  <2> SUFFICES ASSUME NEW l \in Loops, loop[l].last # 0
      PROVE  /\ run'[loop[l].last].phase = "returned"
             /\ /\ loop[l].e # loop[l].last
                /\ run'[loop[l].e].ok \/ run'[loop[l].e].phase = "cleaned"
                => fw'[loop[l].last] = "none"
    BY <1>0, <1>1, <2>1 DEF Lasts
  <2>2. PICK f \in Engines : f = loop[l].last
    BY <1>0, LastOf
  <2>3. PICK g \in Engines : g = loop[l].e
    BY <1>0, EngineOf DEF Lasts
  <2>4. run[f].phase = "returned" /\ f # e
    BY <1>0, <1>1, <2>2 DEF Lasts
  <2>5. fw[f] = "none" => fw'[f] = "none"
    BY <2>4 DEF Fewer
  <2>6. fw' = NoRules => fw'[f] = "none"
    BY DEF NoRules
  <2>7. \/ fw' = NoRules
        \/ run'[g].ok \/ run'[g].phase = "cleaned" => run[g].ok \/ run[g].phase = "cleaned"
    BY <1>1
  <2> QED BY <1>0, <1>1, <2>2, <2>3, <2>4, <2>5, <2>6, <2>7 DEF Lasts
<1> QED BY <1>3, <1>4

\* The others keep their duties, unless e comes up.
LEMMA RunKeepsDuty ==
  ASSUME OwnInv, HostInv, NEW e \in Engines, RunMove(e), NEW f \in Engines, f # e,
         OnDuty(f), run'[e].ok = run[e].ok
  PROVE  OnDuty(f)'
<1>0. Types /\ Lasts
  BY DEF OwnInv, HostInv
<1>1. UNCHANGED loop /\ \A g \in Engines : g # e => run'[g] = run[g]
  BY DEF RunMove, RunOnly
<1>2. ASSUME NEW l \in Loops, ByLast(l, f) PROVE ByLast(l, f)'
  <2>1. loop[l].last = f /\ loop[l].e # 0
    BY <1>0, <1>2, SessionAssumption DEF ByLast, Lasts, Engines
  <2>2. PICK g \in Engines : g = loop[l].e
    BY <1>0, <2>1, EngineOf
  <2>3. run'[g].ok = run[g].ok
    BY <1>1
  <2> QED BY <1>1, <1>2, <2>2, <2>3 DEF ByLast
<1>3. ASSUME NEW l \in Loops, BySight(l, f) PROVE BySight(l, f)'
  BY <1>1, <1>3 DEF BySight, Sees, Waits
<1> QED BY <1>1, <1>2, <1>3 DEF OnDuty, Busy, Pending

\* An engine that never came up leaves nothing.
LEMMA FailureKeepsHost ==
  ASSUME Clears, OwnInv, HostInv, NEW e \in Engines,
         ConnectFails(e) \/ ValidationFails(e) \/ SetupFails(e)
  PROVE  HostInv'
<1>0. Types /\ HostTypes /\ Fresh /\ Duties
  BY DEF OwnInv, HostInv
<1>1. RunMove(e)
  BY <1>0, RunMoves DEF DialStep, RunStep
<1>2. "error" \in Results /\ run \in [Engines -> RunType]
  BY <1>0, Words DEF Types
<1>3. /\ RunOnly(e) /\ run'[e].phase = "returned" /\ run'[e].result = "error"
      /\ run'[e].ok = run[e].ok /\ run'[e].kept = run[e].kept
  BY <1>2, ReturnedDoes DEF ConnectFails, ValidationFails, SetupFails
<1>4. run[e].phase \in {"connecting", "cleaned"} /\ UNCHANGED <<ipv6, dns>>
      /\ (fw' = fw \/ fw' = NoRules)
  BY <1>0, RulesChange DEF ConnectFails, ValidationFails, SetupFails, In, host
<1>5. ~run[e].ok /\ ~run[e].kept /\ ~OnDuty(e)
  BY <1>0, <1>4 DEF Fresh, OnDuty, Busy
<1>6. Fewer(e) /\ \A f \in Engines : fw'[f] # "none" => fw[f] # "none"
  BY <1>4 DEF Fewer, NoRules
<1>7. Fresh'
  BY <1>0, <1>3, <1>5 DEF Fresh, Busy, RunOnly
<1>8. Lasts' /\ ResultsSeen'
  BY <1>1, <1>3, <1>5, <1>6, RunKeepsLasts
<1>9. \A f \in Engines : OnDuty(f) => OnDuty(f)'
  BY <1>1, <1>3, <1>5, RunKeepsDuty
<1>10. Duties'
  BY <1>0, <1>4, <1>6, <1>9 DEF Duties
<1> QED BY <1>7, <1>8, <1>10 DEF HostInv

\* Clean leaves nothing of anyone.
LEMMA CleanKeepsHost ==
  ASSUME Clears, OwnInv, HostInv, NEW e \in Engines, Clean(e)
  PROVE  HostInv'
<1>0. Types /\ HostTypes /\ Fresh /\ Duties
  BY DEF OwnInv, HostInv
<1>1. RunMove(e)
  BY <1>0, RunMoves DEF DialStep
<1>2. /\ RunOnly(e) /\ run[e].phase = "connecting" /\ run'[e].phase = "cleaned"
      /\ run'[e].ok = run[e].ok /\ run'[e].kept = run[e].kept
      /\ run'[e].result = run[e].result
  BY <1>0, CleanDoes
<1>3. fw' = NoRules /\ ipv6' = FALSE /\ dns' = dns /\ \A f \in Engines : NoRules[f] = "none"
  BY <1>0, RulesChange DEF Clean
<1>4. Fresh'
  BY <1>0, <1>2 DEF Fresh, Busy, RunOnly
<1>5. Lasts' /\ ResultsSeen'
  BY <1>1, <1>3, RunKeepsLasts DEF Fewer
<1>6. Duties'
  BY <1>0, <1>3 DEF Duties
<1> QED BY <1>4, <1>5, <1>6 DEF HostInv

\* An engine that comes up is on duty; those before it have nothing left.
LEMMA SetupKeepsHost ==
  ASSUME Clears, OwnInv, HostInv, NEW e \in Engines, SetupDone(e)
  PROVE  HostInv'
<1>0. Types /\ HostTypes /\ OwnEngines /\ Fresh /\ Lasts /\ Duties
  BY DEF OwnInv, HostInv
<1>1. RunMove(e)
  BY <1>0, RunMoves DEF RunStep
<1>2. /\ RunOnly(e) /\ run[e].phase = "cleaned" /\ run'[e].phase = "up"
      /\ run'[e].ok = TRUE /\ run'[e].kept = run[e].kept
      /\ run'[e].result = run[e].result
  BY <1>0, SetupDoneDoes
<1>3. Fewer(e)
  <2>1. "full" \in Kinds
    BY DEF Kinds
  <2> QED BY <1>0, <2>1, RulesChange DEF SetupDone, Fewer
<1>4. ipv6' = LockdownIPv6 /\ dns' = dns
  BY DEF SetupDone, Clears
<1>5. Fresh'
  BY <1>0, <1>2 DEF Fresh, Busy, RunOnly
<1>6. Lasts' /\ ResultsSeen'
  BY <1>1, <1>2, <1>3, RunKeepsLasts
<1>7. OnDuty(e)'
  BY <1>2 DEF OnDuty, Busy
<1>8. ASSUME NEW f \in Engines, f # e, fw'[f] # "none" PROVE OnDuty(f)'
  <2>1. fw[f] # "none" /\ OnDuty(f)
    BY <1>0, <1>3, <1>8 DEF Fewer, Duties
  <2>2. UNCHANGED loop /\ \A g \in Engines : g # e => run'[g] = run[g]
    BY <1>1, <1>2 DEF RunMove, RunOnly
  <2>3. ASSUME NEW l \in Loops, ByLast(l, f) PROVE ByLast(l, f)'
    <3>1. loop[l].last = f /\ loop[l].last # 0 /\ loop[l].e # 0
      BY <1>0, <2>3, SessionAssumption DEF ByLast, Lasts, Engines
    <3>2. loop[l].e # e
      BY <1>0, <1>2, <1>8, <2>1, <3>1 DEF Lasts
    <3>3. loop[l].e \in Engines
      BY <1>0, <3>1, EngineOf
    <3> QED BY <2>2, <2>3, <3>2, <3>3 DEF ByLast
  <2>4. ASSUME NEW l \in Loops, BySight(l, f) PROVE BySight(l, f)'
    BY <1>8, <2>2, <2>4 DEF BySight, Sees, Waits
  <2> QED BY <1>8, <2>1, <2>2, <2>3, <2>4 DEF OnDuty, Busy, Pending
<1>9. Duties'
  BY <1>0, <1>4, <1>7, <1>8 DEF Duties
<1> QED BY <1>5, <1>6, <1>9 DEF HostInv

\* Run's deferred restore leaves nothing of the engine.
LEMMA RestoreKeepsHost ==
  ASSUME Clears, OwnInv, HostInv, NEW e \in Engines, RunStops(e) \/ ProxyEnds(e)
  PROVE  HostInv'
<1>0. Types /\ HostTypes /\ Fresh /\ Duties
  BY DEF OwnInv, HostInv
<1>1. RunMove(e)
  BY <1>0, RunMoves DEF RunStep
<1>2. "nil" \in Results /\ run \in [Engines -> RunType]
  BY <1>0, Words DEF Types
<1>3. /\ RunOnly(e) /\ run'[e].phase = "returned" /\ run'[e].result = "nil"
      /\ run'[e].ok = run[e].ok /\ run'[e].kept = run[e].kept
  BY <1>2, ReturnedDoes DEF RunStops, ProxyEnds
<1>4. run[e].phase = "up" /\ RestoreHost(e)
  BY DEF RunStops, ProxyEnds, In
<1>5. Fewer(e) /\ fw'[e] = "none" /\ ipv6' = FALSE /\ dns' = dns
  BY <1>0, <1>4, RestoreHostDoes
<1>6. Fresh'
  BY <1>0, <1>3 DEF Fresh, Busy, RunOnly
<1>7. run[e].ok
  BY <1>0, <1>4 DEF Fresh, Busy
<1>8. Lasts' /\ ResultsSeen'
  BY <1>1, <1>5, <1>7, RunKeepsLasts
<1>9. \A f \in Engines : f # e /\ OnDuty(f) => OnDuty(f)'
  BY <1>1, <1>3, RunKeepsDuty
<1>10. Duties'
  BY <1>0, <1>5, <1>9 DEF Duties, Fewer
<1> QED BY <1>6, <1>8, <1>10 DEF HostInv

\* An engine that drops stays on duty until its loop releases its rules.
LEMMA DropKeepsHost ==
  ASSUME Clears, OwnInv, HostInv, NEW e \in Engines, Drop(e) \/ KeepRules(e)
  PROVE  HostInv'
<1>0. Types /\ HostTypes /\ Awaited /\ Fresh /\ Duties
  BY DEF OwnInv, HostInv
<1>1. RunMove(e)
  BY <1>0, RunMoves DEF RunStep
<1>2. /\ RunOnly(e) /\ run[e].phase \in {"up", "dropping", "reinstall"}
      /\ run'[e].ok = run[e].ok
      /\ \/ /\ run'[e].phase \in {"dropping", "reinstall"} /\ run'[e].kept = run[e].kept
            /\ run'[e].result = run[e].result
         \/ /\ run'[e].phase = "returned" /\ run'[e].kept = TRUE
            /\ run'[e].result = "drop"
  BY <1>0, DropDoes, KeepRulesDoes
<1>3. Fewer(e) /\ UNCHANGED <<ipv6, dns>>
  <2>1. CASE Drop(e)
    BY <2>1 DEF Drop, Fewer, host
  <2>2. CASE KeepRules(e)
    BY <1>0, <2>2, NextRulesFewer DEF KeepRules
  <2> QED BY <2>1, <2>2
<1>4. run[e].ok
  BY <1>0, <1>2 DEF Fresh, Busy
<1>5. Fresh'
  BY <1>0, <1>2, <1>4 DEF Fresh, Busy, RunOnly
<1>6. Lasts' /\ ResultsSeen'
  BY <1>1, <1>3, <1>4, RunKeepsLasts
<1>7. OnDuty(e)'
  <2>1. CASE run'[e].phase \in {"dropping", "reinstall"}
    BY <2>1 DEF OnDuty, Busy
  <2>2. CASE run'[e].phase = "returned" /\ run'[e].kept = TRUE /\ run'[e].result = "drop"
    <3>1. PICK l \in Loops : loop[l].e = e /\ Waits(l)
      BY <1>0, <1>1 DEF RunMove, Awaited
    <3>2. BySight(l, e)'
      BY <1>1, <2>2, <3>1 DEF RunMove, BySight, Sees, Waits
    <3> QED BY <2>2, <3>2 DEF OnDuty, Pending
  <2> QED BY <1>2, <2>1, <2>2
<1>8. \A f \in Engines : f # e /\ OnDuty(f) => OnDuty(f)'
  BY <1>1, <1>2, RunKeepsDuty
<1>9. Duties'
  BY <1>0, <1>3, <1>7, <1>8 DEF Duties, Fewer
<1> QED BY <1>5, <1>6, <1>9 DEF HostInv

\* The steps of the UI do not touch the host.
LEMMA UIKeepsHost ==
  ASSUME OwnInv, HostInv, UIStep \/ UserStep
  PROVE  HostInv'
<1>0. Types /\ OwnEngines /\ Lasts /\ ResultsSeen
  BY DEF OwnInv, HostInv
<1>1. ASSUME UNCHANGED <<loop, host>>,
        \A e \in Engines :
          /\ run'[e].phase = run[e].phase /\ run'[e].ok = run[e].ok
          /\ run'[e].kept = run[e].kept /\ run'[e].result = run[e].result
      PROVE HostInv'
  <2>1. Calm
    BY <1>0, <1>1 DEF Calm, Lasts, ResultsSeen, Releases, Drives, Holds, Sees, Waits
  <2> QED BY <1>0, <2>1, CalmKeeps
<1>2. CASE Stops
  BY <1>1, <1>2 DEF Stops
<1>3. CASE UIOnly
  BY <1>1, <1>3 DEF UIOnly
<1>4. ASSUME NEW l \in Loops, Connect(l) PROVE HostInv'
  <2>1. /\ \A k \in Loops : k # l => loop'[k] = loop[k]
        /\ loop[l].pc = "none" /\ loop'[l].pc = "start"
        /\ loop'[l].e = loop[l].e /\ loop'[l].last = loop[l].last
        /\ UNCHANGED <<run, host>>
    BY <1>0, <1>4, ConnectDoes
  <2>2. Releases(l)'
    BY <1>0, <2>1 DEF Lasts, Releases
  <2>3. Calm
    BY <1>0, <2>1, <2>2, CalmLoop DEF Drives, Holds, Sees, Waits
  <2> QED BY <1>0, <2>3, CalmKeeps
<1> QED BY <1>2, <1>3, <1>4, UIMoves

\* Every step keeps the host invariant.
LEMMA HostNext ==
  ASSUME Clears, OwnInv, HostInv, [Next]_vars
  PROVE  HostInv'
<1>1. ASSUME NEW l \in Loops, LoopStep(l) PROVE HostInv'
  BY <1>1, LoopKeepsHost
<1>2. ASSUME NEW e \in Engines, DialStep(e) \/ RunStep(e) \/ ProxyEnds(e) \/ Drop(e)
      PROVE HostInv'
  BY <1>2, FailureKeepsHost, CleanKeepsHost, SetupKeepsHost, RestoreKeepsHost, DropKeepsHost
     DEF DialStep, RunStep
<1>3. CASE UIStep \/ UserStep
  BY <1>3, UIKeepsHost
<1>4. CASE UNCHANGED vars
  <2>1. Types /\ OwnEngines /\ Lasts /\ ResultsSeen
    BY DEF OwnInv, HostInv
  <2>2. UNCHANGED <<loop, run, host>>
    BY <1>4 DEF vars
  <2>3. Calm
    BY <2>1, <2>2 DEF Calm, Lasts, ResultsSeen, Releases, Drives, Holds, Sees, Waits
  <2> QED BY <2>1, <2>3, CalmKeeps
<1> QED BY <1>1, <1>2, <1>3, <1>4 DEF Next

\* The host invariant holds at first.
LEMMA HostInit == Init => HostInv
<1> SUFFICES ASSUME Init PROVE HostInv
  OBVIOUS
<1>1. /\ \A l \in Loops : loop[l].pc = "none" /\ loop[l].last = 0
      /\ \A e \in Engines : /\ run[e].phase = "none" /\ ~run[e].ok /\ ~run[e].kept
                            /\ run[e].result = "none" /\ fw[e] = "none"
      /\ ~ipv6 /\ dns = "host"
  BY DEF Init, NewLoop, NewEngine
<1> QED BY <1>1 DEF HostInv, Fresh, Busy, ResultsSeen, Lasts, Releases, Duties

\* With pf and nft, whatever overlaps, fails or drops: once no loop is left
\* the host has no rules, its IPv6 and its own DNS server (ReleaseFirewall,
\* Run's deferred restore, CleanStaleAnchors).
THEOREM HostIsRestored == Clears => (Spec => []HostRestored)
<1> SUFFICES ASSUME Clears PROVE Spec => []HostRestored
  OBVIOUS
<1> DEFINE Inv == OwnInv /\ HostInv
<1>1. Init => Inv
  BY OwnInit, HostInit
<1>2. Inv /\ [Next]_vars => Inv'
  BY OwnNext, HostNext
<1>3. Inv => HostRestored
  <2> SUFFICES ASSUME OwnInv, HostInv, NoLoop PROVE fw = NoRules /\ ~ipv6 /\ dns = "host"
    BY DEF HostRestored
  <2>1. HostTypes /\ Awaited /\ Lasts /\ Duties
    BY DEF OwnInv, HostInv
  <2>2. \A l \in Loops : loop[l].last = 0 /\ ~Sees(l)
    BY <2>1 DEF NoLoop, Lasts, Releases, Sees, Waits
  <2>3. \A e \in Engines : ~OnDuty(e)
    <3>1. 0 \notin Engines
      BY SessionAssumption DEF Engines
    <3>2. \A e \in Engines : ~Pending(e)
      BY <2>2, <3>1 DEF Pending, ByLast, BySight
    <3>3. \A e \in Engines : ~Busy(e)
      BY <2>1, <2>2 DEF Awaited, Busy, Running, Sees
    <3> QED BY <3>2, <3>3 DEF OnDuty
  <2>4. fw = NoRules
    BY <2>1, <2>3 DEF Duties, HostTypes, NoRules
  <2> QED BY <2>1, <2>3, <2>4 DEF Duties
<1> HIDE DEF Inv
<1> QED BY <1>1, <1>2, <1>3, PTL DEF Spec

---------------------------------------------------------------------------
(* Rules of an engine that is up                                           *)

\* With pf, an engine that is up has its rules in its anchor.
Anchored == \A e \in Engines : run[e].phase = "up" => fw[e] # "none"

\* A step of pf touches one anchor, except for Clean.
LEMMA OneAnchor ==
  ASSUME Method = "pf", HostTypes, NEW e \in Engines
  PROVE  /\ \A f \in Engines : f # e => Restored(e)[f] = fw[f]
         /\ \A kind \in Kinds :
              /\ Installed(e, kind)[e] = kind
              /\ \A f \in Engines : f # e => Installed(e, kind)[f] = fw[f]
         /\ SetupFailures(e) = {fw}
         /\ \A r \in NextRules(e), f \in Engines : f # e => r[f] = fw[f]
<1>0. fw \in [Engines -> Kinds] /\ ~Shared /\ "nodns" \in Kinds
  BY DEF HostTypes, Shared, Kinds
<1>1. \A f \in Engines : f # e => Restored(e)[f] = fw[f]
  BY <1>0 DEF Restored
<1>2. \A kind \in Kinds :
        /\ Installed(e, kind)[e] = kind
        /\ \A f \in Engines : f # e => Installed(e, kind)[f] = fw[f]
  BY <1>0 DEF Installed
<1>3. SetupFailures(e) = {fw}
  BY <1>0 DEF SetupFailures
<1>4. NextRules(e) \subseteq {fw, Installed(e, "nodns")}
  BY <1>0 DEF NextRules, RemovesFirst
<1> QED BY <1>0, <1>1, <1>2, <1>3, <1>4

\* No engine loses the rules it is up with.
LEMMA AnchoredNext ==
  ASSUME Method = "pf", OwnInv, HostInv, Alone, Anchored, [Next]_vars
  PROVE  Anchored'
<1>0. Types /\ HostTypes /\ OwnEngines /\ Awaited /\ Lasts
  BY DEF OwnInv, HostInv
<1>1. ASSUME NEW e \in Engines, NEW f \in Engines, Running(e), Running(f) PROVE e = f
  BY <1>0, <1>1 DEF Awaited, Alone, Holds, Waits
<1>2. ASSUME UNCHANGED fw, \A e \in Engines : run'[e].phase = "up" => run[e].phase = "up"
      PROVE Anchored'
  BY <1>2 DEF Anchored
<1>3. ASSUME NEW l \in Loops, LoopStep(l) PROVE Anchored'
  <2>1. CASE Quiet(l)
    <3>1. \A e \in Engines : run'[e].phase = run[e].phase
      BY <2>1 DEF Quiet
    <3>2. CASE Release(l)
      <4>1. CASE UNCHANGED host
        BY <1>2, <3>1, <4>1 DEF host
      <4>2. ASSUME NEW f \in Engines, f = loop[l].last, RestoreHost(f) PROVE Anchored'
        <5>1. run[f].phase = "returned"
          BY <1>0, <4>2, SessionAssumption DEF Lasts, Engines
        <5>2. \A e \in Engines : e # f => fw'[e] = fw[e]
          BY <1>0, <4>2, OneAnchor DEF RestoreHost
        <5> QED BY <3>1, <5>1, <5>2 DEF Anchored
      <4> QED BY <1>0, <3>2, <4>1, <4>2, ReleaseRestores
    <3>3. CASE ~Release(l)
      <4>1. UNCHANGED fw
        BY <1>3, <3>3 DEF LoopStep, StartFails, StartEngine, Adopt, ApplyAndRun,
           SelectReady, SelectStop, ReceiveDone, WaitStop, CloseEngine, Decide,
           CountdownStop, CountdownEnd, Finish, LoopReturns, host
      <4> QED BY <1>2, <3>1, <4>1
    <3> QED BY <3>2, <3>3
  <2>2. ASSUME NEW e \in Engines, StartEngine(l, e) PROVE Anchored'
    BY <1>0, <1>2, <2>2, StartEngineDoes DEF RunOnly, host
  <2>3. CASE Adopt(l)
    <3>1. loop[l].pc = "adopt"
      BY <2>3 DEF Adopt, At
    <3>2. PICK e \in Engines : e = loop[l].e
      BY <1>0, <3>1, EngineOf DEF OwnEngines, Drives
    <3>3. CASE Stale(l)
      BY <1>0, <1>2, <2>3, <3>2, <3>3, AdoptStaleDoes DEF RunOnly, host
    <3>4. CASE ~Stale(l)
      BY <1>0, <1>2, <2>3, <3>4, AdoptCurrentDoes DEF host
    <3> QED BY <3>3, <3>4
  <2>4. CASE ApplyAndRun(l)
    <3>1. loop[l].pc = "apply"
      BY <2>4 DEF ApplyAndRun, At
    <3>2. PICK e \in Engines : e = loop[l].e
      BY <1>0, <3>1, EngineOf DEF OwnEngines, Drives, Holds
    <3> QED BY <1>0, <1>2, <2>4, <3>2, ApplyAndRunDoes DEF RunOnly, host
  <2>5. CASE CloseEngine(l)
    BY <1>0, <1>2, <2>5, CloseEngineDoes DEF host
  <2> QED BY <1>0, <1>3, <2>1, <2>2, <2>3, <2>4, <2>5, LoopMoves
<1>4. ASSUME NEW e \in Engines, DialStep(e) \/ RunStep(e) \/ ProxyEnds(e) \/ Drop(e)
      PROVE Anchored'
  <2>0. RunMove(e)
    BY <1>0, <1>4, RunMoves
  <2>1. Running(e) /\ \A f \in Engines : f # e => run'[f] = run[f]
    BY <2>0 DEF RunMove, RunOnly
  <2>2. ASSUME \A f \in Engines : f # e => fw'[f] = fw[f], run'[e].phase = "up" => fw'[e] # "none"
        PROVE Anchored'
    BY <2>1, <2>2 DEF Anchored
  <2>3. run \in [Engines -> RunType] /\ "error" \in Results /\ "nil" \in Results /\ "full" \in Kinds
    BY <1>0, Words DEF Types, Kinds
  <2>4. CASE ConnectFails(e) \/ ValidationFails(e) \/ SetupFails(e)
    <3>1. run'[e].phase = "returned"
      BY <2>3, <2>4, ReturnedDoes DEF ConnectFails, ValidationFails, SetupFails
    <3>2. UNCHANGED fw
      BY <1>0, <2>4, OneAnchor DEF ConnectFails, ValidationFails, SetupFails, host
    <3> QED BY <2>2, <3>1, <3>2
  <2>5. CASE Clean(e)
    <3>1. run'[e].phase = "cleaned" /\ run[e].phase = "connecting"
      BY <1>0, <2>5, CleanDoes
    <3>2. \A f \in Engines : run[f].phase = "up" => Running(f)
      BY DEF Running
    <3> QED BY <1>1, <2>1, <3>1, <3>2 DEF Anchored
  <2>6. CASE SetupDone(e)
    <3>1. fw' = Installed(e, "full")
      BY <2>6 DEF SetupDone
    <3> QED BY <1>0, <2>2, <2>3, <3>1, OneAnchor
  <2>7. CASE RunStops(e) \/ ProxyEnds(e)
    <3>1. run'[e].phase = "returned"
      BY <2>3, <2>7, ReturnedDoes DEF RunStops, ProxyEnds
    <3>2. fw' = Restored(e)
      BY <2>7 DEF RunStops, ProxyEnds, RestoreHost
    <3> QED BY <1>0, <2>2, <3>1, <3>2, OneAnchor
  <2>8. CASE Drop(e)
    BY <1>0, <2>2, <2>8, DropDoes DEF Drop, host
  <2>9. CASE KeepRules(e)
    <3>1. run'[e].phase # "up"
      BY <1>0, <2>9, KeepRulesDoes
    <3>2. fw' \in NextRules(e)
      BY <2>9 DEF KeepRules
    <3> QED BY <1>0, <2>2, <3>1, <3>2, OneAnchor
  <2> QED BY <1>4, <2>4, <2>5, <2>6, <2>7, <2>8, <2>9 DEF DialStep, RunStep
<1>5. CASE UIStep \/ UserStep
  <2>1. CASE Stops
    BY <1>2, <2>1 DEF Stops, host
  <2>2. CASE UIOnly
    BY <1>2, <2>2 DEF UIOnly, host
  <2>3. ASSUME NEW l \in Loops, Connect(l) PROVE Anchored'
    BY <1>2, <2>3 DEF Connect, host
  <2> QED BY <1>5, <2>1, <2>2, <2>3, UIMoves
<1>6. CASE UNCHANGED vars
  BY <1>2, <1>6 DEF vars, host
<1> QED BY <1>3, <1>4, <1>5, <1>6 DEF Next

\* A connected session captures: with pf, when stopped loops end in time, no
\* other engine's cleaning, restore or release takes the rules of the engine
\* that is up.
THEOREM ConnectedIsCaptured == Prompt /\ Method = "pf" => (Spec => []Captured)
<1> SUFFICES ASSUME Prompt, Method = "pf" PROVE Spec => []Captured
  OBVIOUS
<1> DEFINE Inv == OwnInv /\ HostInv /\ Alone /\ Anchored
<1>0. Clears
  BY DEF Clears
<1>1. Init => Inv
  <2>1. Init => Alone
    BY SessionAssumption DEF Init, NewLoop, Alone, Started, Holds, Loops
  <2>2. Init => Anchored
    BY DEF Init, NewEngine, Anchored
  <2> QED BY <2>1, <2>2, OwnInit, HostInit
<1>2. Inv /\ [Next]_vars => Inv'
  BY <1>0, OwnNext, AloneNext, HostNext, AnchoredNext
<1>3. Inv => Captured
  <2> SUFFICES ASSUME OwnInv, Anchored, NEW l \in Loops, loop[l].pc = "wait",
                      run[loop[l].e].phase = "up"
      PROVE fw[loop[l].e] # "none"
    BY DEF Captured
  <2>1. loop[l].e \in Engines
    BY EngineOf DEF OwnInv, OwnEngines, Drives, Holds
  <2> QED BY <2>1 DEF Anchored
<1> HIDE DEF Inv
<1> QED BY <1>1, <1>2, <1>3, PTL DEF Spec

(***************************************************************************)
(* The IPv6 settings of the interfaces.  SettingsRestored is not           *)
(* inductive: what comes back is what the state file holds, so the file    *)
(* must hold the host's own settings through crashes and restarts.  It     *)
(* does because DisableSystemIPv6 never runs while there is a file: every  *)
(* start restores and removes it first.  An interface that is not in the   *)
(* file, or that the restore has reached, has its own setting.             *)
(*                                                                         *)
(* Two hypotheses are needed, and the README shows what happens without    *)
(* them: the writes succeed, and on Linux the host starts with one setting *)
(* for all interfaces, because writing "all" writes the others too.        *)
(***************************************************************************)
WritesSucceed == MaxWriteErrors = 0
OneSetting == \A o \in Originals : o[1] = "linux" => \A i, j \in Ifaces : o[2][i] = o[2][j]

\* The settings an interface may be left with: its own, or what macOS can be
\* told to use in its place.
Fine(i) == {original[i]} \union
              (IF system = "darwin" THEN {DarwinRestored(original[i])} ELSE {})

LockTypes ==
    /\ system \in {"linux", "darwin", "windows"}
    /\ original \in [Ifaces -> Settings] /\ setting \in [Ifaces -> Settings]
    /\ writeErrors \in Nat

\* What was saved, and what is left to be put back.
Saved ==
    /\ step \in {"disabling", "locked", "kept", "stale", "restoring", "crashed"}
    /\ DOMAIN file \subseteq Ifaces /\ file \in [DOMAIN file -> Settings]
    /\ todo \subseteq DOMAIN file
    /\ system # "windows" => DOMAIN file = Ifaces
    /\ \A i \in DOMAIN file : file[i] \in Fine(i) /\ (system = "windows" => file[i] = "on")
    /\ \A i \in Ifaces \ DOMAIN file : setting[i] \in Fine(i)
    /\ step \in {"stale", "restoring"} => \A i \in DOMAIN file \ todo : setting[i] \in Fine(i)

Unsaved ==
    /\ step \in {"off", "started", "locked", "kept", "crashed"}
    /\ \A i \in Ifaces : setting[i] \in Fine(i)

LockInv ==
    /\ LockTypes
    /\ system = "linux" => \A i, j \in Ifaces : original[i] = original[j]
    /\ file = NoFile => Unsaved
    /\ file # NoFile => Saved

\* The host's settings at the start are its own.
LEMMA LockInit == OneSetting /\ LInit => LockInv
<1> SUFFICES ASSUME OneSetting, LInit PROVE LockInv
    OBVIOUS
<1>1. PICK o \in Originals : system = o[1] /\ setting = o[2]
    BY DEF LInit
<1>2. o[1] \in {"linux", "darwin", "windows"} /\ o[2] \in [Ifaces -> Settings]
    BY IPv6LockAssumption
<1>3. LockTypes
    BY <1>1, <1>2 DEF LInit, LockTypes
<1>4. system = "linux" => \A i, j \in Ifaces : original[i] = original[j]
    BY <1>1 DEF LInit, OneSetting
<1> QED
    BY <1>3, <1>4 DEF LInit, LockInv, Unsaved, Fine

\* A saved setting that is put back is one the interface may have; on Linux it
\* is that of every interface.
LEMMA PutBackFine ==
    ASSUME LockInv, file # NoFile, NEW i \in DOMAIN file
    PROVE  PutBack(file[i]) \in Fine(i) /\ PutBack(file[i]) \in Settings
<1>1. file[i] \in Fine(i) /\ file[i] \in Settings /\ (system = "windows" => file[i] = "on")
    BY DEF LockInv, Saved
<1>2. CASE system = "linux"
    BY <1>1, <1>2 DEF PutBack, LinuxRestored
<1>3. CASE system = "windows"
    BY <1>1, <1>3 DEF PutBack, WindowsRestored
<1>4. CASE system = "darwin"
    BY <1>1, <1>4 DEF PutBack, DarwinRestored, Fine, Settings
<1> QED
    BY <1>2, <1>3, <1>4 DEF LockInv, LockTypes

\* One interface is turned off.
LEMMA DisableOneKeeps == WritesSucceed /\ LockInv /\ DisableOne => LockInv'
<1> SUFFICES ASSUME WritesSucceed, LockInv, DisableOne PROVE LockInv'
    OBVIOUS
<1>1. step = "disabling" /\ file # NoFile
    BY DEF DisableOne, LockInv, Unsaved
<1>2. PICK i \in todo : todo' = todo \ {i} /\ setting' = Written(i, "off")
    BY DEF WritesSucceed, LockInv, LockTypes, DisableOne, Write
<1>3. UNCHANGED <<system, original, file, step>> /\ writeErrors' = writeErrors
    BY DEF WritesSucceed, LockInv, LockTypes, DisableOne, Write
<1>4. i \in DOMAIN file /\ i \in Ifaces
    BY <1>1, <1>2 DEF LockInv, Saved
<1>5. setting' \in [Ifaces -> Settings]
    BY <1>2, <1>4 DEF Written, LockInv, LockTypes, Settings
<1>6. \A j \in Ifaces \ DOMAIN file : setting'[j] = setting[j]
    BY <1>1, <1>2, <1>4 DEF Written, LockInv, LockTypes, Saved
<1>7. \A j \in Ifaces : Fine(j)' = Fine(j)
    BY <1>3 DEF Fine
<1>8. Saved'
    BY <1>1, <1>2, <1>3, <1>6, <1>7 DEF LockInv, Saved
<1> QED
    BY <1>1, <1>3, <1>5, <1>8 DEF LockInv, LockTypes

\* One interface gets its saved setting back; on Linux writing "all" gives
\* every interface the one setting they had.
LEMMA RestoreOneKeeps == WritesSucceed /\ LockInv /\ RestoreOne => LockInv'
<1> SUFFICES ASSUME WritesSucceed, LockInv, RestoreOne PROVE LockInv'
    OBVIOUS
<1>1. step \in {"stale", "restoring"} /\ file # NoFile
    BY DEF RestoreOne, LockInv, Unsaved
<1>2. PICK i \in todo : todo' = todo \ {i} /\ setting' = Written(i, PutBack(file[i]))
    BY DEF WritesSucceed, LockInv, LockTypes, RestoreOne, Write
<1>3. UNCHANGED <<system, original, file, step>> /\ writeErrors' = writeErrors
    BY DEF WritesSucceed, LockInv, LockTypes, RestoreOne, Write
<1>4. i \in DOMAIN file /\ i \in Ifaces
    BY <1>1, <1>2 DEF LockInv, Saved
<1>5. PICK v \in Settings : v = PutBack(file[i]) /\ v \in Fine(i)
    BY <1>1, <1>4, PutBackFine
<1>6. setting' \in [Ifaces -> Settings]
    BY <1>2, <1>4, <1>5 DEF Written, LockInv, LockTypes
<1>7. \A j \in Ifaces : setting'[j] \in Fine(j) \/ (setting'[j] = setting[j] /\ j # i)
    <2>1. CASE system = "linux" /\ i = "all"
        <3>1. \A j \in Ifaces : setting'[j] = v /\ original[j] = original[i]
            BY <1>2, <1>4, <1>5, <2>1 DEF Written, LockInv
        <3> QED
            BY <1>5, <2>1, <3>1 DEF Fine
    <2>2. CASE ~(system = "linux" /\ i = "all")
        BY <1>2, <1>4, <1>5, <2>2 DEF Written, LockInv, LockTypes
    <2> QED
        BY <2>1, <2>2
<1>8. \A j \in Ifaces : Fine(j)' = Fine(j)
    BY <1>3 DEF Fine
<1>9. Saved'
    BY <1>1, <1>2, <1>3, <1>7, <1>8 DEF LockInv, Saved
<1> QED
    BY <1>1, <1>3, <1>6, <1>9 DEF LockInv, LockTypes

\* The settings are saved only where there is no file, when they are the
\* host's own.
LEMMA DisableKeeps == LockInv /\ Disable => LockInv'
<1> SUFFICES ASSUME LockInv, Disable PROVE LockInv'
    OBVIOUS
<1>1. file = NoFile /\ Unsaved /\ LockTypes
    BY DEF Disable, LockInv, Saved
<1>2. CASE Listed = {}
    BY <1>1, <1>2 DEF Disable, LockInv, LockTypes, Unsaved, Fine
<1>3. CASE Listed # {}
    <2>1. /\ file' = [i \in Listed |-> setting[i]] /\ step' = "disabling" /\ todo' = Listed
          /\ UNCHANGED <<system, setting, original, writeErrors>>
        BY <1>3 DEF Disable
    <2>2. /\ Listed \subseteq Ifaces /\ (system # "windows" => Listed = Ifaces)
          /\ system = "windows" => \A i \in Listed : setting[i] = "on"
        BY <1>1 DEF Listed, LinuxIfaces, DarwinServices, WindowsAdapters, LockTypes
    <2>3. file' \in [Listed -> Settings] /\ DOMAIN file' = Listed
        BY <1>1, <2>1, <2>2 DEF LockTypes
    <2>4. file' # NoFile
        BY <2>2, <2>3, IPv6LockAssumption
    <2>5. \A j \in Ifaces : Fine(j)' = Fine(j)
        BY <2>1 DEF Fine
    <2>6. Saved'
        BY <1>1, <2>1, <2>2, <2>3, <2>5 DEF Saved, Unsaved
    <2> QED
        BY <2>1, <2>4, <2>6 DEF LockInv, LockTypes
<1> QED
    BY <1>2, <1>3

\* The steps between which the settings stay: start, end of a loop, stop,
\* keep, crash.
LEMMA OtherLockSteps ==
    LockInv /\ (LStart \/ LoopEnds \/ LKeep \/ LStop \/ LCrash \/ UNCHANGED lvars) => LockInv'
<1> SUFFICES ASSUME LockInv, LStart \/ LoopEnds \/ LKeep \/ LStop \/ LCrash \/ UNCHANGED lvars
             PROVE  LockInv'
    OBVIOUS
<1>1. UNCHANGED <<system, setting, original, writeErrors>> /\ \A j \in Ifaces : Fine(j)' = Fine(j)
    BY DEF LStart, LoopEnds, LKeep, LStop, LCrash, lvars, Fine
<1>2. CASE LoopEnds
    <2>1. file # NoFile /\ Saved /\ todo = {} /\ todo' = {}
        BY <1>2 DEF LoopEnds, LockInv, Unsaved
    <2>2. CASE step = "disabling"
        BY <1>1, <1>2, <2>1, <2>2 DEF LoopEnds, LockInv, LockTypes, Saved
    <2>3. CASE step \in {"stale", "restoring"}
        <3>1. file' = NoFile /\ step' \in {"started", "off"}
            BY <1>2, <2>3 DEF LoopEnds
        <3> QED
            BY <1>1, <2>1, <2>3, <3>1 DEF LockInv, LockTypes, Saved, Unsaved
    <2> QED
        BY <1>2, <2>2, <2>3 DEF LoopEnds
<1>3. CASE LStart
    BY <1>1, <1>3 DEF LStart, StartRestore, LockInv, LockTypes, Saved, Unsaved
<1>4. CASE LKeep
    BY <1>1, <1>4 DEF LKeep, LockInv, LockTypes, Saved, Unsaved
<1>5. CASE LStop
    BY <1>1, <1>5 DEF LStop, LockInv, LockTypes, Saved, Unsaved
<1>6. CASE LCrash
    BY <1>1, <1>6 DEF LCrash, LockInv, LockTypes, Saved, Unsaved
<1>7. CASE UNCHANGED lvars
    BY <1>1, <1>7 DEF lvars, LockInv, LockTypes, Saved, Unsaved
<1> QED
    BY <1>2, <1>3, <1>4, <1>5, <1>6, <1>7

\* Through any number of crashes, reconnects and restarts the host's own IPv6
\* settings come back.
THEOREM OwnSettingsReturn == WritesSucceed /\ OneSetting => (LSpec => []SettingsRestored)
<1>1. OneSetting /\ LInit => LockInv
    BY LockInit
<1>2. WritesSucceed /\ LockInv /\ [LNext]_lvars => LockInv'
    BY DisableKeeps, DisableOneKeeps, RestoreOneKeeps, OtherLockSteps DEF LNext
<1>3. LockInv => SettingsRestored
    BY DEF LockInv, Saved, Unsaved, Fine, SettingsRestored
<1> SUFFICES ASSUME WritesSucceed, OneSetting PROVE LSpec => []SettingsRestored
    OBVIOUS
<1>4. LInit => LockInv
    BY <1>1
<1>5. LockInv /\ [LNext]_lvars => LockInv'
    BY <1>2
<1> QED
    BY <1>3, <1>4, <1>5, PTL DEF LSpec
============================================================================
