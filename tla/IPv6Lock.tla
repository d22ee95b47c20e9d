------------------------------ MODULE IPv6Lock -------------------------------
(***************************************************************************)
(* The interface-level IPv6 lock-down (internal/firewall/iface_ipv6*.go):  *)
(* DisableSystemIPv6 saves the setting of every interface to a file and    *)
(* then turns IPv6 off on one after the other; RestoreSystemIPv6 puts the  *)
(* saved settings back, also at the start of the engine after a crash, and *)
(* removes the file.                                                       *)
(*                                                                         *)
(* An interface is one of /proc/sys/net/ipv6/conf on Linux ("all" and      *)
(* "default" among them; writing disable_ipv6 of "all" writes it of every  *)
(* interface), a network service on macOS, an adapter on Windows.  Maps    *)
(* are walked in any order.                                                *)
(***************************************************************************)
EXTENDS Naturals

CONSTANTS
    Ifaces,        \* interfaces
    Originals,     \* the settings a host may start with: <<system, settings>>
    MaxRuns, MaxLockCrashes, MaxWriteErrors,
    NoFile

\* "off" also where the binding of a Windows adapter is disabled; the last three
\* are modes of macOS only.
Settings == {"on", "off", "LinkLocal", "Manual", "6to4"}

ASSUME IPv6LockAssumption ==
    /\ Originals \subseteq {"linux", "darwin", "windows"} \X [Ifaces -> Settings]
    /\ \A D \in SUBSET Ifaces : NoFile \notin [D -> Settings]
    /\ MaxRuns \in Nat /\ MaxLockCrashes \in Nat /\ MaxWriteErrors \in Nat

VARIABLES
    system,    \* "linux", "darwin" or "windows"
    setting,   \* setting[i]: "on", "off", or another mode of macOS
    original,  \* history: the settings before the first run
    file,      \* the state file: saved settings, or NoFile
    step,      \* what the process does: see Phases
    todo,      \* interfaces still to be written
    runs, lockCrashes, writeErrors

lvars == <<system, setting, original, file, step, todo, runs, lockCrashes, writeErrors>>

LInit ==
    /\ \E o \in Originals : system = o[1] /\ setting = o[2]
    /\ original = setting /\ file = NoFile /\ step = "off" /\ todo = {}
    /\ runs = 0 /\ lockCrashes = 0 /\ writeErrors = 0

\* Writing one setting.  The kernel passes a write of "all" on.
Written(i, v) ==
    IF system = "linux" /\ i = "all" THEN [j \in Ifaces |-> v] ELSE [setting EXCEPT ![i] = v]

\* How a saved setting is put back: as it was; on macOS not a manual address
\* nor an unknown mode; Windows has only saved adapters that were enabled.
LinuxRestored(v) == v
DarwinRestored(v) == IF v \in {"on", "LinkLocal", "off"} THEN v ELSE "on"
WindowsRestored(v) == "on"
PutBack(v) == CASE system = "linux" -> LinuxRestored(v)
                [] system = "darwin" -> DarwinRestored(v)
                [] OTHER -> WindowsRestored(v)

(***************************************************************************)
(* Engine.Run: the stale restore, later DisableSystemIPv6, and at the end  *)
(* RestoreSystemIPv6 unless the rules are kept for a reconnect.            *)
(***************************************************************************)
StartRestore_Fault(from) ==
    /\ step = from /\ step' = "started" /\ todo' = {}
StartRestore(from) ==
    /\ step = from
    /\ IF file = NoFile THEN step' = "started" /\ todo' = {}
       ELSE step' = "stale" /\ todo' = DOMAIN file
LStart ==
    /\ step \in {"off", "kept", "crashed"} /\ runs < MaxRuns /\ runs' = runs + 1
    /\ StartRestore(step)
    /\ UNCHANGED <<system, setting, original, file, lockCrashes, writeErrors>>

\* What is saved and turned off: everything but lo, every service with an
\* IPv6 entry, the adapters whose binding is enabled.
LinuxIfaces == Ifaces
DarwinServices == Ifaces
WindowsAdapters == {i \in Ifaces : setting[i] = "on"}
Listed == CASE system = "linux" -> LinuxIfaces
            [] system = "darwin" -> DarwinServices
            [] OTHER -> WindowsAdapters
Disable ==
    /\ step = "started"
    /\ IF Listed = {} THEN step' = "locked" /\ UNCHANGED <<file, todo>>
       ELSE /\ file' = [i \in Listed |-> setting[i]]
            /\ step' = "disabling" /\ todo' = Listed
    /\ UNCHANGED <<system, setting, original, runs, lockCrashes, writeErrors>>

\* One of the interfaces left is written, with what v gives it.
Write(v) ==
    \E i \in todo :
        /\ todo' = todo \ {i}
        /\ \/ setting' = Written(i, v[i]) /\ UNCHANGED writeErrors
           \/ /\ writeErrors < MaxWriteErrors /\ writeErrors' = writeErrors + 1
              /\ UNCHANGED setting
        /\ UNCHANGED <<system, original, file, step, runs, lockCrashes>>
DisableOne == step = "disabling" /\ Write([i \in todo |-> "off"])
RestoreOne == step \in {"stale", "restoring"} /\ Write([i \in todo |-> PutBack(file[i])])

\* The loop has ended; a restore removes the file, whatever it wrote.
LoopEnds ==
    /\ todo = {} /\ step \in {"disabling", "stale", "restoring"}
    /\ step' = CASE step = "disabling" -> "locked" [] step = "stale" -> "started"
                 [] OTHER -> "off"
    /\ file' = IF step = "disabling" THEN file ELSE NoFile
    /\ UNCHANGED <<system, setting, original, todo, runs, lockCrashes, writeErrors>>

LKeep ==
    /\ step = "locked" /\ step' = "kept"
    /\ UNCHANGED <<system, setting, original, file, todo, runs, lockCrashes, writeErrors>>
LStop ==
    /\ step \in {"locked", "kept"}
    /\ IF file = NoFile THEN step' = "off" /\ todo' = {}
       ELSE step' = "restoring" /\ todo' = DOMAIN file
    /\ UNCHANGED <<system, setting, original, file, runs, lockCrashes, writeErrors>>

LCrash ==
    /\ step \notin {"off", "crashed"} /\ lockCrashes < MaxLockCrashes
    /\ lockCrashes' = lockCrashes + 1 /\ step' = "crashed" /\ todo' = {}
    /\ UNCHANGED <<system, setting, original, file, runs, writeErrors>>

LNext == LStart \/ Disable \/ DisableOne \/ RestoreOne \/ LoopEnds \/ LKeep \/ LStop \/ LCrash

LSpec == LInit /\ [][LNext]_lvars

(***************************************************************************)
(* Properties.                                                             *)
(***************************************************************************)
\* Through crashes, reconnects and restarts the host's own settings come
\* back: locked-down settings are never saved in their place.
SettingsRestored == step \in {"off", "started"} =>
    \A i \in Ifaces : setting[i] \in {original[i]}
                        \union (IF system = "darwin" THEN {DarwinRestored(original[i])} ELSE {})
=============================================================================
