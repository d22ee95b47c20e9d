------------------------------- MODULE Store --------------------------------
(***************************************************************************)
(* The app-data store that the TUI (Go, internal/store and internal/tui)   *)
(* and the desktop app (Rust commands behind the TypeScript stores) share: *)
(* profiles.json, groups/*.json, rules.json, settings.json and             *)
(* priorities.json, plus the routes.json of old versions.                  *)
(*                                                                         *)
(* An operation is a sequence of phases.  A phase reads what it needs and  *)
(* prepares one file write (an action named after the function), and Flush *)
(* performs the write: the other program, or a crash, can come between the *)
(* two and between phases.  The reads of one phase are one step.  The Go   *)
(* code and rules.rs replace a file by a rename; the other Rust writes     *)
(* truncate the file first (Truncate), and a truncated file reads as an    *)
(* empty one.                                                              *)
(***************************************************************************)
EXTENDS RuleSets

CONSTANTS
    Absent,        \* a file that does not exist
    Profiles,      \* profile ids
    InitialDisks,  \* the stores the programs may find
    Edits,         \* the edits of the rule set a user makes
    Hosts,         \* hosts whose route is looked up
    Overlap,       \* may the operations of the two programs overlap?
    MaxOps,        \* bound: operations begun
    MaxCrashes     \* bound: crashes

Programs == {"tui", "desk"}
Groups == ToSet(GroupIds)
DefaultGroup == "default"
Files == Groups \cup {"profiles", "rules", "settings", "priorities", "routes"}
Settings == [active : Groups \cup {""}, lan : {0, 1}]

\* What the programs may find, and what a user may do.
FileOK(f) ==
    /\ f.kids \subseteq Profiles /\ f.legacyKids \subseteq Profiles
    /\ f.carried = Absent \/ RuleGroupsOK(f.carried.ruleGroups)
DiskOK(d) ==
    /\ d = [f \in Files |-> d[f]]
    /\ d["profiles"] \subseteq Profiles /\ d["settings"] \in Settings
    /\ d["rules"] = Absent \/ RuleSetOK(d["rules"])
    /\ \A g \in Groups : d[g] = Absent \/ FileOK(d[g])
EditOK(e) ==
    /\ e.do \in {"set", "del", "put", "drop", "move", "final", "seen"}
    /\ e.do = "put" => RuleGroupOK(e.group)
    /\ e.do = "move" => e.delta \in Int
ASSUME StoreAssumption ==
    /\ IsFiniteSet(Profiles)
    /\ DefaultGroup \in Groups
    /\ Groups \cap {"", "profiles", "rules", "settings", "priorities", "routes"} = {}
    /\ \A d \in InitialDisks : DiskOK(d)
    /\ \A d \in InitialDisks : d["rules"] = Absent /\ d["settings"].active = "" =>
          \A g \in Groups : d[g] = Absent
    /\ \A e \in Edits : EditOK(e)
    /\ \A h \in Hosts : HostName(h)

EmptyFile == [kids |-> {}, legacyKids |-> {}, carried |-> Absent, blank |-> TRUE]

VARIABLES
    disk,     \* file -> content; a group's file is named by its id
    up,       \* program -> "off", "starting" or "ready"
    todo,     \* program -> phases still to do of the operation under way
    buf,      \* program -> <<>> or the write prepared by the phase
    mem,      \* program -> what it read at its last load
    ops, crashes

vars == <<disk, up, todo, buf, mem, ops, crashes>>

Phase(do, arg) == [do |-> do, arg |-> arg]
NoMem == [rules |-> EmptyRuleSet, settings |-> [active |-> "", lan |-> 0], groups |-> <<>>]

GroupFiles == {g \in Groups : disk[g] # Absent}
Listed == {g \in GroupFiles : ~disk[g].blank}

\* NormalizeLegacy: the children of a group file of either format.
NormalizeLegacy(f) == IF f.kids = {} THEN f.legacyKids ELSE f.kids

\* marshalForDisk: a rewritten group file has neither legacy children nor rules.
marshalForDisk(kids) ==
    [kids |-> kids, legacyKids |-> {}, carried |-> Absent, blank |-> FALSE]

NoLegacyRules == [rules |-> <<>>, ruleGroups |-> <<>>, finalRoute |-> "none", knownHosts |-> <<>>]

\* The rule fields of the group files (legacyGroupRules, read_raw_groups).
RawGroups(d) ==
    [g \in {f \in Groups : d[f] # Absent /\ d[f] # EmptyFile} |->
        IF d[g].carried = Absent THEN NoLegacyRules ELSE d[g].carried]

RoutesAsGroup(d, final) ==
    [rules |-> d["routes"], ruleGroups |-> <<>>, finalRoute |-> final, knownHosts |-> <<>>]

\* The group files, with routes.json in the place of the default group's.
WithRoutes(d) ==
    [g \in DOMAIN RawGroups(d) \cup {DefaultGroup} |->
        IF g = DefaultGroup THEN RoutesAsGroup(d, "none") ELSE RawGroups(d)[g]]

-----------------------------------------------------------------------------
(* Phases.  Doing(p, do) is the phase's guard; Write and Skip end it.      *)

Doing(p, do) == buf[p] = <<>> /\ todo[p] # <<>> /\ Head(todo[p]).do = do
Arg(p) == Head(todo[p]).arg

\* Prepare a write; `rest` is what remains to be done after it.
Write(p, file, val, why, rest) ==
    /\ buf' = [buf EXCEPT ![p] = <<[file |-> file, val |-> val, why |-> why, torn |-> FALSE]>>]
    /\ todo' = [todo EXCEPT ![p] = rest]
    /\ UNCHANGED <<disk, up, mem, ops, crashes>>

Skip(p) ==
    /\ todo' = [todo EXCEPT ![p] = Tail(@)]
    /\ UNCHANGED <<disk, up, buf, mem, ops, crashes>>

\* The merge of the group files' rules, by the program's own code.
Migrated(p) ==
    IF p = "tui" THEN migrateRules(RawGroups(disk), disk["settings"].active)
    ELSE merge_legacy_groups(RawGroups(disk), disk["settings"].active)

\* writeJSONAtomic / fs::write: the write itself.
Flush(p) ==
    /\ buf[p] # <<>>
    /\ p = "desk" /\ buf[p][1].file # "rules" /\ buf[p][1].val # Absent => buf[p][1].torn
    /\ disk' = [disk EXCEPT ![buf[p][1].file] = buf[p][1].val]
    /\ buf' = [buf EXCEPT ![p] = <<>>]
    /\ UNCHANGED <<up, todo, mem, ops, crashes>>

\* fs::write of the Rust code empties the file before it writes.
Truncate(p) ==
    /\ p = "desk" /\ buf[p] # <<>> /\ ~buf[p][1].torn
    /\ buf[p][1].file # "rules" /\ buf[p][1].val # Absent
    /\ disk' = [disk EXCEPT ![buf[p][1].file] =
                  CASE buf[p][1].file = "profiles" -> {}
                    [] buf[p][1].file = "settings" -> NoMem.settings
                    [] OTHER                       -> EmptyFile]
    /\ buf' = [buf EXCEPT ![p] = <<[buf[p][1] EXCEPT !.torn = TRUE]>>]
    /\ UNCHANGED <<up, todo, mem, ops, crashes>>

\* LoadRules, ensureRulesMigrated and load_rules: rules.json is created by
\* the merge when it is missing.
LoadRules(p) ==
    /\ Doing(p, "loadRules")
    /\ IF disk["rules"] = Absent
       THEN Write(p, "rules", normalize(Migrated(p)), [do |-> "migrate"], Tail(todo[p]))
       ELSE Skip(p)

\* SaveGroup: the legacy rules are migrated before a group file is rewritten.

SaveGroup(p, g, kids, why, rest) ==
    IF disk["rules"] = Absent
    THEN Write(p, "rules", normalize(Migrated(p)), [do |-> "migrate"], todo[p])
    ELSE Write(p, g, marshalForDisk(kids), why, rest)

\* DeleteGroup removes the file, after the migration as well.
DeleteGroup(p) ==
    /\ Doing(p, "deleteGroup")
    /\ IF disk["rules"] = Absent
       THEN Write(p, "rules", normalize(Migrated(p)), [do |-> "migrate"], todo[p])
       ELSE Write(p, Arg(p), Absent, Head(todo[p]), Tail(todo[p]))

\* ListGroups rewrites the groups that are still in the old format.
ListGroups(p) ==
    /\ Doing(p, "listGroups")
    /\ LET old == {g \in GroupFiles : disk[g].legacyKids # {}}
       IN  IF old = {} THEN Skip(p)
           ELSE \E g \in old : SaveGroup(p, g, NormalizeLegacy(disk[g]), [do |-> "normalize"], todo[p])

-----------------------------------------------------------------------------
(* First launch *)

\* MigrateV2 of the TUI: default.json carries the routes of routes.json when
\* rules.json does not exist yet.
MigrateV2_Fault ==
    /\ Doing("tui", "migrate")
    /\ IF disk[DefaultGroup] # Absent THEN Skip("tui")
       ELSE Write("tui", DefaultGroup, marshalForDisk(disk["profiles"]), [do |-> "default"],
                  IF disk["settings"].active = ""
                  THEN <<Phase("settings", [disk["settings"] EXCEPT !.active = DefaultGroup])>>
                       \o Tail(todo["tui"])
                  ELSE Tail(todo["tui"]))

MigrateV2 ==
    /\ Doing("tui", "migrate")
    /\ IF disk[DefaultGroup] # Absent THEN Skip("tui")
       ELSE Write("tui", DefaultGroup,
                  [kids |-> disk["profiles"], legacyKids |-> {}, blank |-> FALSE,
                   carried |-> IF disk["rules"] # Absent THEN Absent
                               ELSE RoutesAsGroup(disk, "tunnel")],
                  [do |-> "default"],
                  IF disk["settings"].active = ""
                  THEN <<Phase("settings", [disk["settings"] EXCEPT !.active = DefaultGroup])>>
                       \o Tail(todo["tui"])
                  ELSE Tail(todo["tui"]))

\* migrate_v2::run of the desktop: the merge comes first, with the default
\* group as if its file existed; then default.json, then the settings.
MigrateV2Run ==
    /\ Doing("desk", "migrate")
    /\ LET active == disk["settings"].active
           act    == IF active = "" THEN DefaultGroup ELSE active
           rest   == <<Phase("default", disk["profiles"])>>
                     \o (IF active = ""
                         THEN <<Phase("settings", [disk["settings"] EXCEPT !.active = DefaultGroup])>>
                         ELSE <<>>)
                     \o Tail(todo["desk"])
       IN  IF disk[DefaultGroup] # Absent THEN Skip("desk")
           ELSE IF disk["rules"] = Absent
           THEN Write("desk", "rules",
                      normalize(merge_legacy_groups(WithRoutes(disk), act)),
                      [do |-> "migrate"], rest)
           ELSE /\ todo' = [todo EXCEPT !["desk"] = rest]
                /\ UNCHANGED <<disk, up, buf, mem, ops, crashes>>

WriteDefault ==
    /\ Doing("desk", "default")
    /\ SaveGroup("desk", DefaultGroup, Arg("desk"), [do |-> "default"], Tail(todo["desk"]))

\* SaveSettings with settings chosen earlier.
SaveSettings(p) ==
    /\ Doing(p, "settings")
    /\ Write(p, "settings", Arg(p), Head(todo[p]), Tail(todo[p]))

\* LoadData, and the loads of the TypeScript stores: what is on disk becomes
\* what the program works from.
LoadData(p) ==
    /\ Doing(p, "load")
    /\ mem' = [mem EXCEPT ![p] =
                  [rules    |-> IF disk["rules"] = Absent THEN EmptyRuleSet ELSE disk["rules"],
                   settings |-> disk["settings"],
                   groups   |-> [g \in Listed |-> NormalizeLegacy(disk[g])]]]
    /\ up' = [up EXCEPT ![p] = "ready"]
    /\ todo' = [todo EXCEPT ![p] = Tail(@)]
    /\ UNCHANGED <<disk, buf, ops, crashes>>

LoadPhases == <<Phase("loadRules", 0), Phase("listGroups", 0), Phase("load", 0)>>

Idle(p) == todo[p] = <<>> /\ buf[p] = <<>>
MayRun(p) == Idle(p) /\ (Overlap \/ \A q \in Programs : Idle(q))

Run(p) ==
    /\ up[p] = "off" /\ MayRun(p)
    /\ up' = [up EXCEPT ![p] = "starting"]
    /\ todo' = [todo EXCEPT ![p] = <<Phase("migrate", 0)>> \o LoadPhases]
    /\ UNCHANGED <<disk, buf, mem, ops, crashes>>

\* The program ends between two of its steps and forgets everything.
Crash(p) ==
    /\ up[p] # "off" /\ crashes < MaxCrashes
    /\ up' = [up EXCEPT ![p] = "off"]
    /\ todo' = [todo EXCEPT ![p] = <<>>]
    /\ buf' = [buf EXCEPT ![p] = <<>>]
    /\ mem' = [mem EXCEPT ![p] = NoMem]
    /\ crashes' = crashes + 1
    /\ UNCHANGED <<disk, ops>>

-----------------------------------------------------------------------------
(* Operations on profiles and groups.  An operation of the TUI ends with   *)
(* reload; g is the active group of the settings the program loaded, its   *)
(* file is read again (freshActiveGroup, add_profile_to_group).            *)

Begin(p, phases) ==
    /\ up[p] = "ready" /\ MayRun(p) /\ ops < MaxOps
    /\ todo' = [todo EXCEPT ![p] =
                   phases \o (IF p = "tui" THEN LoadPhases
                              ELSE <<Phase("listGroups", 0), Phase("fetch", 0)>>)]
    /\ ops' = ops + 1
    /\ UNCHANGED <<disk, up, buf, mem, crashes>>

\* Settings are saved from memory; updateSettings also keeps what it saved.
Saving(p, s) ==
    IF p = "tui" THEN <<Phase("settings", s)>> ELSE <<Phase("settings", s), Phase("adopt", s)>>

Selecting(p, g) == Saving(p, [mem[p].settings EXCEPT !.active = g])

updateSettings ==
    /\ Doing("desk", "adopt")
    /\ mem' = [mem EXCEPT !["desk"].settings = Arg("desk")]
    /\ todo' = [todo EXCEPT !["desk"] = Tail(@)]
    /\ UNCHANGED <<disk, up, buf, ops, crashes>>

\* groupStore.fetch: the groups in memory after an operation of the desktop.
fetch ==
    /\ Doing("desk", "fetch")
    /\ mem' = [mem EXCEPT !["desk"].groups = [g \in Listed |-> NormalizeLegacy(disk[g])]]
    /\ todo' = [todo EXCEPT !["desk"] = Tail(@)]
    /\ UNCHANGED <<disk, up, buf, ops, crashes>>

UpsertProfile(p) ==
    /\ Doing(p, "upsert")
    /\ Write(p, "profiles", disk["profiles"] \cup {Arg(p)}, Head(todo[p]), Tail(todo[p]))

RemoveProfile(p) ==
    /\ Doing(p, "remove")
    /\ Write(p, "profiles", disk["profiles"] \ {Arg(p)}, Head(todo[p]), Tail(todo[p]))

ActiveFile(p) ==
    IF mem[p].settings.active = "" THEN Absent ELSE disk[mem[p].settings.active]

\* freshActiveGroup and the edit of its children; nothing when it is gone.

EditActiveGroup(p) ==
    /\ Doing(p, "attach") \/ Doing(p, "detach") \/ Doing(p, "rename")
    /\ IF ActiveFile(p) \in {Absent, EmptyFile} THEN Skip(p)
       ELSE LET kids == NormalizeLegacy(ActiveFile(p))
                next == CASE Head(todo[p]).do = "attach" -> kids \cup {Arg(p)}
                          [] Head(todo[p]).do = "detach" -> kids \ {Arg(p)}
                          [] OTHER -> kids
            IN  IF Head(todo[p]).do = "detach" /\ next = kids THEN Skip(p)
                ELSE SaveGroup(p, mem[p].settings.active, next, Head(todo[p]), Tail(todo[p]))

\* The desktop renames the group it had in memory, children included.
RenameLoadedGroup ==
    /\ Doing("desk", "renameLoaded")
    /\ SaveGroup("desk", Arg("desk").group, Arg("desk").kids, Head(todo["desk"]), Tail(todo["desk"]))

NewGroup(p) ==
    /\ Doing(p, "newGroup")
    /\ SaveGroup(p, Arg(p), {}, Head(todo[p]), Tail(todo[p]))

AddProfile(x) == Begin("tui", <<Phase("upsert", x), Phase("attach", x)>>)
UpdateProfile(x) == x \in disk["profiles"] /\ Begin("tui", <<Phase("upsert", x)>>)
DeleteProfile(x) == Begin("tui", <<Phase("remove", x)>>)
RemoveFromActiveGroup(x) == Begin("tui", <<Phase("detach", x)>>)
SelectGroup(g) == g \in DOMAIN mem["tui"].groups /\ Begin("tui", Selecting("tui", g))
RenameActiveGroup == Begin("tui", <<Phase("rename", 0)>>)

CreateGroup ==
    \E g \in Groups \ (GroupFiles \cup {DefaultGroup}) :
        Begin("tui", <<Phase("newGroup", g)>> \o Selecting("tui", g))

\* Every child profile, then the group, then another group is selected.
Deleting(p, g, kids) ==
    \E next \in (IF DOMAIN mem[p].groups \ {g} = {} THEN {""} ELSE DOMAIN mem[p].groups \ {g}) :
        Begin(p, SetToSeq({Phase("remove", x) : x \in kids})
                 \o <<Phase("deleteGroup", g)>> \o Selecting(p, next))

DeleteActiveGroup ==
    /\ ActiveFile("tui") \notin {Absent, EmptyFile}
    /\ Deleting("tui", mem["tui"].settings.active, NormalizeLegacy(ActiveFile("tui")))

\* The desktop: imports attach new profiles, the group switcher renames,
\* creates, selects and deletes.
attachNewProfilesToActiveGroup(x) == Begin("desk", <<Phase("upsert", x), Phase("attach", x)>>)
remove_profile_from_group(x) == Begin("desk", <<Phase("detach", x)>>)
removeProfile(x) == Begin("desk", <<Phase("remove", x)>>)
handleSelectGroup(g) ==
    /\ g \in DOMAIN mem["desk"].groups \ {mem["desk"].settings.active}
    /\ Begin("desk", Selecting("desk", g))
handleRenameGroup ==
    LET g == mem["desk"].settings.active
    IN  /\ g \in DOMAIN mem["desk"].groups
        /\ Begin("desk", <<Phase("renameLoaded", [group |-> g, kids |-> mem["desk"].groups[g]])>>)
handleCreateEmptyGroup ==
    \E g \in Groups \ (GroupFiles \cup {DefaultGroup}) :
        Begin("desk", <<Phase("newGroup", g)>> \o Selecting("desk", g))
handleDeleteActiveGroup ==
    LET g == mem["desk"].settings.active
    IN  g \in DOMAIN mem["desk"].groups /\ Deleting("desk", g, mem["desk"].groups[g])

-----------------------------------------------------------------------------
(* Operations on the rules, priorities and settings *)

\* The edit a user (or the list of observed hosts) makes of a rule set.
Edited(p, e, rs) ==
    CASE e.do = "set"   -> SetRule(rs, e.host, e.mode)
      [] e.do = "del"   -> DeleteRule(rs, e.host)
      [] e.do = "put"   -> SaveRuleGroup(rs, e.group)
      [] e.do = "drop"  -> DeleteRuleGroup(rs, e.id)
      [] e.do = "move"  -> IF p = "tui" THEN MoveRuleGroup(rs, e.id, e.delta)
                           ELSE moveRuleGroup(rs, e.id, e.delta)
      [] e.do = "final" -> SetFinalRoute(rs, e.mode)
      [] e.do = "seen"  -> RecordKnownHosts(rs, <<e.host>>)

\* The editors of both programs refuse a rule group with a scope that is not a
\* domain for them.
Accepted(p, e) ==
    e.do = "put" => \A d \in ToSet(e.group.domains) :
        IF p = "tui" THEN NormalizeDomain(d) ELSE normalizeDomain(d)

\* editRules of the TUI: rules.json is read again, edited and saved.
editRules(e) ==
    /\ e.do # "seen" /\ Accepted("tui", e)
    /\ Begin("tui", <<Phase("loadRules", 0), Phase("editRules", e)>>)

\* recordObservedHosts: only when the loaded copy misses the host.
recordObservedHosts(e) ==
    /\ e.do = "seen" /\ e.host \notin ToSet(mem["tui"].rules.knownHosts)
    /\ Begin("tui", <<Phase("loadRules", 0), Phase("editRules", e)>>)

ApplyEdit(p) ==
    /\ Doing(p, "editRules") /\ p = "tui" /\ disk["rules"] # Absent
    /\ Write(p, "rules", normalize(Edited(p, Arg(p), disk["rules"])), Head(todo[p]), Tail(todo[p]))

\* update and commit of ruleStore.ts: the rule set in memory is edited and
\* saved whole.
commit(e) ==
    /\ e.do = "seen" => e.host \notin ToSet(mem["desk"].rules.knownHosts)
    /\ Accepted("desk", e)
    /\ up["desk"] = "ready" /\ MayRun("desk") /\ ops < MaxOps
    /\ LET next == Edited("desk", e, mem["desk"].rules)
       IN  /\ mem' = [mem EXCEPT !["desk"].rules = next]
           /\ buf' = [buf EXCEPT !["desk"] =
                         <<[file |-> "rules", val |-> normalize(next),
                            why |-> [do |-> "commit", arg |-> e, base |-> mem["desk"].rules],
                            torn |-> FALSE]>>]
    /\ ops' = ops + 1
    /\ UNCHANGED <<disk, up, todo, crashes>>

\* The settings page of the TUI reads the settings again; the desktop does not.
saveSettingsPage(v) ==
    \/ Begin("tui", <<Phase("putSettings", v)>>)
    \/ Begin("desk", Saving("desk", [mem["desk"].settings EXCEPT !.lan = v]))

PutSettings ==
    /\ Doing("tui", "putSettings")
    /\ Write("tui", "settings", [disk["settings"] EXCEPT !.lan = Arg("tui")],
             Head(todo["tui"]), Tail(todo["tui"]))

\* SetHostPriority of the TUI; priority 3 is the default and is not stored.
SetHostPriority(h, v) == Begin("tui", <<Phase("priority", <<h, v>>)>>)

SavePriorities ==
    /\ Doing("tui", "priority")
    /\ LET h == Arg("tui")[1]
           old == disk["priorities"]
           rest == [k \in DOMAIN old \ {h} |-> old[k]]
       IN  Write("tui", "priorities", IF Arg("tui")[2] = 3 THEN rest ELSE (h :> Arg("tui")[2]) @@ rest,
                 Head(todo["tui"]), Tail(todo["tui"]))

-----------------------------------------------------------------------------
Init ==
    /\ disk \in InitialDisks
    /\ up = [p \in Programs |-> "off"]
    /\ todo = [p \in Programs |-> <<>>]
    /\ buf = [p \in Programs |-> <<>>]
    /\ mem = [p \in Programs |-> NoMem]
    /\ ops = 0 /\ crashes = 0

Step(p) ==
    \/ Run(p) \/ Crash(p) \/ Flush(p) \/ Truncate(p)
    \/ LoadRules(p) \/ ListGroups(p) \/ LoadData(p) \/ SaveSettings(p)
    \/ UpsertProfile(p) \/ RemoveProfile(p) \/ EditActiveGroup(p) \/ NewGroup(p)
    \/ DeleteGroup(p) \/ ApplyEdit(p)

Next ==
    \/ \E p \in Programs : Step(p)
    \/ MigrateV2 \/ MigrateV2Run \/ WriteDefault \/ updateSettings \/ fetch
    \/ RenameLoadedGroup \/ PutSettings \/ SavePriorities
    \/ \E x \in Profiles :
        \/ AddProfile(x) \/ UpdateProfile(x) \/ DeleteProfile(x) \/ RemoveFromActiveGroup(x)
        \/ attachNewProfilesToActiveGroup(x) \/ remove_profile_from_group(x) \/ removeProfile(x)
    \/ \E g \in Groups : SelectGroup(g) \/ handleSelectGroup(g)
    \/ RenameActiveGroup \/ CreateGroup \/ DeleteActiveGroup
    \/ handleRenameGroup \/ handleCreateEmptyGroup \/ handleDeleteActiveGroup
    \/ \E e \in Edits : editRules(e) \/ recordObservedHosts(e) \/ commit(e)
    \/ saveSettingsPage(1)
    \/ \E v \in {3, 5} : SetHostPriority(<<"a", "com">>, v)

Spec == Init /\ [][Next]_vars

-----------------------------------------------------------------------------
(* Properties *)

\* The rules in force: rules.json or, before it exists, what the merge makes
\* of the group files, with the routes of routes.json as the default group's
\* while that group has no file.
RulesInForce(d) ==
    LET active == IF d["settings"].active = "" THEN DefaultGroup ELSE d["settings"].active
        files  == IF d[DefaultGroup] = Absent THEN WithRoutes(d) ELSE RawGroups(d)
    IN  IF d["rules"] # Absent THEN d["rules"] ELSE normalize(merge_legacy_groups(files, active))

\* Flush of a write prepared for an edit of the rules.
EditBy(p) == {b \in ToSet(buf[p]) : b.file = "rules" /\ b.why.do \in {"editRules", "commit"}}

\* No step changes the rules in force but an edit, and an edit changes only
\* what it edits: not a first launch or a migration cut short by a crash at any
\* point and finished by either program, not the rewriting or the deletion of
\* the group files the rules used to be in.  An edit of the desktop is held to
\* it only if no one edited since it loaded the rules.
RulesOnlyEdited ==
    [][\/ RulesInForce(disk') = RulesInForce(disk)
       \/ \E p \in Programs : \E b \in EditBy(p) :
             \/ RulesInForce(disk') = normalize(Edited(p, b.why.arg, RulesInForce(disk)))
             \/ b.why.do = "commit" /\ b.why.base # RulesInForce(disk)]_vars

\* A write of the TUI never loses what is on disk at that moment: a profile or
\* a member of a group goes only by the operation that removes it, whatever
\* the other program has changed since the TUI loaded its copy.
Members(d, g) == IF d[g] = Absent THEN {} ELSE NormalizeLegacy(d[g])
NothingVanishes ==
    [][\A b \in ToSet(buf["tui"]) : buf'["tui"] = <<>> /\ up'["tui"] # "off" =>
         /\ \A x \in disk["profiles"] \ disk'["profiles"] : b.why = Phase("remove", x)
         /\ \A g \in Groups : \A x \in Members(disk, g) \ Members(disk', g) :
               b.why \in {Phase("detach", x), Phase("deleteGroup", g)}]_vars

\* The overrides have keys as normalizeHost makes them; the libraries agree
\* on what is a domain among the scopes of the rule groups.
PlainRules(rs) == \A k \in DOMAIN rs.rules : normalizeHost(k) = k /\ k # <<"">>
SameScopes(rs) ==
    \A i \in DOMAIN rs.ruleGroups : \A d \in ToSet(rs.ruleGroups[i].domains) :
        NormalizeDomain(d) <=> normalizeDomain(d)

\* As long as the keys of the overrides are normal, what the pages show of the
\* rules in force is what the tunnel does: the TUI's page for every host that
\* is written in its normal form, and the desktop's page for every host in any
\* form while the two libraries agree on the scopes.
RouteShown ==
    LET rs == RulesInForce(disk)
    IN  PlainRules(rs) => \A h \in Hosts :
            /\ h = normalizeHost(h) => TunnelRoutes(rs, h) = {route(rs, h)}
            /\ SameScopes(rs) => TunnelRoutes(rs, h) = {resolveRoute(h, rs)}

\* resolveRoute of the desktop says it resolves a host "mirroring the tunnel's
\* matcher": whatever the scopes and the keys are.
MirrorsTunnel ==
    \A h \in Hosts : TunnelRoutes(RulesInForce(disk), h) = {resolveRoute(h, RulesInForce(disk))}

\* An edit never overwrites another program's change, desktop included.
NeverOverwritten ==
    [][\A p \in Programs : \A b \in EditBy(p) : buf'[p] = <<>> /\ up'[p] # "off" =>
         RulesInForce(disk') = normalize(Edited(p, b.why.arg, RulesInForce(disk)))]_vars

\* Once a program has started, some group is active.
ActiveAfterStart ==
    \A p \in Programs : up[p] = "ready" /\ ops = 0 => disk["settings"].active # ""
=============================================================================
