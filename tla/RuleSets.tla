------------------------------ MODULE RuleSets ------------------------------
(***************************************************************************)
(* The global routing rules (rules.json) as values: how they are edited,   *)
(* how the rules of older group files are merged into one rule set, and    *)
(* how a host is resolved.  Three programs resolve hosts with code of      *)
(* their own: the tunnel (internal/stats, a compiled table), the TUI       *)
(* (internal/tui, the Destinations page) and the desktop interface         *)
(* (src/lib/ruleGroups.ts); two programs merge (Go and Rust).              *)
(*                                                                         *)
(* A host name or the key of an override is its sequence of labels as they *)
(* are written: a trailing dot is an empty last label, and stands for all  *)
(* that the programs may or may not normalise (case, white space).  A      *)
(* wildcard key "*.a.com" is <<"*", "a", "com">>.  A scope of a rule group *)
(* is [exact, name], "=host" or a bare domain; scopes are stored           *)
(* normalised, but whether a bare domain is one at all is up to the        *)
(* library of each program.                                                *)
(***************************************************************************)
EXTENDS Integers, SequencesExt, FiniteSetsExt

CONSTANTS
    NotDomainsGo,    \* names with no registrable domain for publicsuffix,
    NotDomainsTS,    \* and for tldts, which takes no address for a domain
    MaxKnownHosts,   \* cap of the list of observed hosts
    GroupIds         \* the profile group ids, ascending

ASSUME RuleSetsAssumption ==
    /\ MaxKnownHosts \in Nat \ {0}
    /\ GroupIds \in Seq(STRING) /\ IsInjective(GroupIds)

NormalizeFinalRoute(kind) == IF kind = "direct" THEN "direct" ELSE "tunnel"

EmptyRuleSet ==
    [rules |-> <<>>, ruleGroups |-> <<>>, finalRoute |-> "tunnel", knownHosts |-> <<>>]

\* What the programs may rely on: names are sequences, the groups are a list.
IsSeq(s) == s \in Seq(ToSet(s))
ScopeOK(d) ==
    /\ d = [exact |-> d.exact, name |-> d.name]
    /\ d.exact \in BOOLEAN /\ IsSeq(d.name) /\ d.name # <<>>
HostName(h) == IsSeq(h) /\ (h = <<>> \/ h[1] # "*")
normalizeHost(h) == IF Len(h) > 1 /\ Last(h) = "" THEN Front(h) ELSE h
RuleGroupOK(g) == \A d \in ToSet(g.domains) : ScopeOK(d)
RuleGroupsOK(s) == IsSeq(s) /\ \A g \in ToSet(s) : RuleGroupOK(g)
RuleSetOK(rs) ==
    /\ rs = [rules |-> rs.rules, ruleGroups |-> rs.ruleGroups,
             finalRoute |-> rs.finalRoute, knownHosts |-> rs.knownHosts]
    /\ RuleGroupsOK(rs.ruleGroups) /\ rs.finalRoute \in {"direct", "tunnel"}

capKnownHosts(h) ==
    IF Len(h) > MaxKnownHosts THEN SubSeq(h, Len(h) - MaxKnownHosts + 1, Len(h)) ELSE h

normalize(rs) ==
    [rules |-> rs.rules, ruleGroups |-> rs.ruleGroups,
     finalRoute |-> NormalizeFinalRoute(rs.finalRoute), knownHosts |-> capKnownHosts(rs.knownHosts)]

-----------------------------------------------------------------------------
(* Edits of a rule set *)

\* The elements of s at the positions I, in order.
SubSeqAt(s, I) ==
    [k \in 1 .. Cardinality(I) |-> s[CHOOSE i \in I : Cardinality({j \in I : j <= i}) = k]]

RuleGroupIndex(rs, id) == {i \in DOMAIN rs.ruleGroups : rs.ruleGroups[i].id = id}

SetRule(rs, host, mode) == [rs EXCEPT !.rules = (host :> mode) @@ @]

DeleteRule(rs, host) ==
    [rs EXCEPT !.rules = [h \in DOMAIN @ \ {host} |-> @[h]]]

SaveRuleGroup(rs, rg) ==
    IF RuleGroupIndex(rs, rg.id) = {}
    THEN [rs EXCEPT !.ruleGroups = Append(@, rg)]
    ELSE [rs EXCEPT !.ruleGroups[Min(RuleGroupIndex(rs, rg.id))] = rg]

DeleteRuleGroup(rs, id) ==
    [rs EXCEPT !.ruleGroups = SubSeqAt(@, {i \in DOMAIN @ : @[i].id # id})]

\* The TUI moves a group by delta places, clamped to the ends of the list.
MoveRuleGroup(rs, id, delta) ==
    IF RuleGroupIndex(rs, id) = {} THEN rs
    ELSE LET from == Min(RuleGroupIndex(rs, id))
             to   == Min({Max({from + delta, 1}), Len(rs.ruleGroups)})
         IN  [rs EXCEPT !.ruleGroups = InsertAt(RemoveAt(@, from), to, @[from])]

\* The desktop swaps neighbours and refuses a move past an end.
moveRuleGroup(rs, id, delta) ==
    LET from == IF RuleGroupIndex(rs, id) = {} THEN 0 ELSE Min(RuleGroupIndex(rs, id))
        to   == from + delta
    IN  IF from = 0 \/ to \notin DOMAIN rs.ruleGroups THEN rs
        ELSE [rs EXCEPT !.ruleGroups[from] = rs.ruleGroups[to],
                        !.ruleGroups[to] = rs.ruleGroups[from]]

SetFinalRoute(rs, mode) == [rs EXCEPT !.finalRoute = NormalizeFinalRoute(mode)]

RecordKnownHosts(rs, hosts) ==
    [rs EXCEPT !.knownHosts =
        capKnownHosts(@ \o SelectSeq(hosts, LAMBDA h : h \notin ToSet(rs.knownHosts)))]

-----------------------------------------------------------------------------
(* Merging the rules of older group files.  groups maps the ids of the     *)
(* files to what they carry; active is settings.activeGroupId or "".       *)

Others(groups, active) ==
    SubSeqAt(GroupIds, {i \in DOMAIN GroupIds : GroupIds[i] \in DOMAIN groups \ {active}})

ActiveOf(groups, active) == IF active \in DOMAIN groups THEN <<active>> ELSE <<>>

\* Keeps the first of the elements with the same key; the keys go with s.
FirstOfEach(s, keys) ==
    SubSeqAt(s, {i \in DOMAIN s : \A j \in 1 .. i - 1 : keys[j] # keys[i]})

FirstScopes(s) == FirstOfEach(s, [i \in DOMAIN s |-> s[i].id])
FirstHosts(s) == FirstOfEach(s, s)

\* The Go merge: later groups overwrite earlier ones, the active one is last.
migrateRules(groups, active) ==
    LET others  == Others(groups, active)
        act     == ActiveOf(groups, active)
        ordered == others \o act
        Scopes(s) == FlattenSeq([i \in DOMAIN s |-> groups[s[i]].ruleGroups])
        Known(s)  == FlattenSeq([i \in DOMAIN s |-> groups[s[i]].knownHosts])
        merged[n \in 0 .. Len(ordered)] ==
            IF n = 0 THEN <<>>
            ELSE LET new == groups[ordered[n]].rules
                 IN  [h \in DOMAIN new \cup DOMAIN merged[n - 1] |->
                         IF h \in DOMAIN new THEN new[h] ELSE merged[n - 1][h]]
    IN  [rules      |-> merged[Len(ordered)],
         ruleGroups |-> FirstScopes(Scopes(act \o others)),
         finalRoute |-> IF act # <<>> /\ groups[active].finalRoute # "none"
                        THEN NormalizeFinalRoute(groups[active].finalRoute) ELSE "tunnel",
         knownHosts |-> capKnownHosts(FirstHosts(Known(ordered)))]

\* The Rust merge: the mode of a host is the one the last group of the chain
\* gives it.
merge_legacy_groups(groups, active) ==
    LET others == Others(groups, active)
        act    == ActiveOf(groups, active)
        chain  == others \o act
        hosts  == UNION {DOMAIN groups[g].rules : g \in DOMAIN groups}
        Giver(h) == chain[Max({i \in DOMAIN chain : h \in DOMAIN groups[chain[i]].rules})]
        Scopes(s) == FlattenSeq([i \in DOMAIN s |-> groups[s[i]].ruleGroups])
        Known(s)  == FlattenSeq([i \in DOMAIN s |-> groups[s[i]].knownHosts])
    IN  [rules      |-> [h \in hosts |-> groups[Giver(h)].rules[h]],
         ruleGroups |-> FirstScopes(Scopes(act \o others)),
         finalRoute |-> IF act = <<>> \/ groups[active].finalRoute = "none" THEN "tunnel"
                        ELSE NormalizeFinalRoute(groups[active].finalRoute),
         knownHosts |-> capKnownHosts(FirstHosts(Known(chain)))]

-----------------------------------------------------------------------------
(* Resolving a host *)

\* Whether a scope counts: for the tunnel and the TUI, and for the desktop.
NormalizeDomain(d) == d.exact \/ d.name \notin NotDomainsGo
normalizeDomain(d) == d.exact \/ d.name \notin NotDomainsTS

wildcardCandidates(host) ==
    IF Len(host) < 2 \/ host[1] = "*" THEN <<>>
    ELSE [i \in 1 .. Len(host) - 1 |-> <<"*">> \o SubSeq(host, i + 1, Len(host))]

\* The tunnel normalises the keys of the overrides; of keys that become the
\* same, the last that the loop over the map meets counts, which may be any.
Overrides(rules) ==
    LET keys == {normalizeHost(k) : k \in DOMAIN rules} \ {<<"">>}
        Modes(k) == {rules[j] : j \in {i \in DOMAIN rules : normalizeHost(i) = k}}
    IN  {o \in [keys -> UNION {Modes(k) : k \in keys}] : \A k \in keys : o[k] \in Modes(k)}

\* One index of exact scopes and one of domains, both to the lowest group index.
compileRouteTable_Fault(t, overrides) ==
    LET Scopes == UNION {ToSet(t.ruleGroups[i].domains) : i \in DOMAIN t.ruleGroups}
        Named(exact) == {d.name : d \in {s \in Scopes : s.exact = exact /\ NormalizeDomain(s)}}
        Highest(n, exact) == Max({i \in DOMAIN t.ruleGroups :
                                [exact |-> exact, name |-> n] \in ToSet(t.ruleGroups[i].domains)})
    IN  [table |-> [t EXCEPT !.rules = overrides], exact |-> [n \in Named(TRUE) |-> Highest(n, TRUE)],
         suffix |-> [n \in Named(FALSE) |-> Highest(n, FALSE)]]

compileRouteTable(t, overrides) ==
    LET Scopes == UNION {ToSet(t.ruleGroups[i].domains) : i \in DOMAIN t.ruleGroups}
        Named(exact) == {d.name : d \in {s \in Scopes : s.exact = exact /\ NormalizeDomain(s)}}
        Lowest(n, exact) == Min({i \in DOMAIN t.ruleGroups :
                                [exact |-> exact, name |-> n] \in ToSet(t.ruleGroups[i].domains)})
    IN  [table  |-> [t EXCEPT !.rules = overrides, !.finalRoute = NormalizeFinalRoute(@)],
         exact  |-> [n \in Named(TRUE) |-> Lowest(n, TRUE)],
         suffix |-> [n \in Named(FALSE) |-> Lowest(n, FALSE)]]

lookup(cr, key) ==
    LET cands    == <<key>> \o wildcardCandidates(key)
        hit      == {i \in DOMAIN cands : cands[i] \in DOMAIN cr.table.rules}
        suffixes == {SubSeq(key, i, Len(key)) : i \in DOMAIN key}
        groups   == {cr.exact[n] : n \in {key} \cap DOMAIN cr.exact}
                    \cup {cr.suffix[n] : n \in suffixes \cap DOMAIN cr.suffix}
    IN  IF hit # {} THEN cr.table.rules[cands[Min(hit)]]
        ELSE IF groups # {} THEN cr.table.ruleGroups[Min(groups)].route
        ELSE cr.table.finalRoute

\* LookupRouteMode: what the tunnel may do with a connection to a host.
TunnelRoutes(rs, host) ==
    {lookup(compileRouteTable(rs, o), normalizeHost(host)) : o \in Overrides(rs.rules)}

\* The TUI's Destinations page, which looks a host up as it is written.
scopeMatches(key, d) ==
    \/ key = d.name
    \/ ~d.exact /\ \E i \in 2 .. Len(key) : SubSeq(key, i, Len(key)) = d.name

resolveOverride(host, rules) ==
    IF host \in DOMAIN rules THEN <<host>>
    ELSE LET c == wildcardCandidates(host)
             hit == {i \in DOMAIN c : c[i] \in DOMAIN rules}
         IN  IF hit = {} THEN <<>> ELSE <<c[Min(hit)]>>

route(rs, host) ==
    LET over == resolveOverride(host, rs.rules)
        covering == {i \in DOMAIN rs.ruleGroups : \E d \in ToSet(rs.ruleGroups[i].domains) :
                        NormalizeDomain(d) /\ scopeMatches(normalizeHost(host), d)}
    IN  IF over # <<>> THEN rs.rules[over[1]]
        ELSE IF covering # {} THEN rs.ruleGroups[Min(covering)].route
        ELSE NormalizeFinalRoute(rs.finalRoute)

\* The desktop interface.
matchesDomain(key, d) ==
    /\ normalizeDomain(d)
    /\ key = d.name \/ (~d.exact /\ Len(key) > Len(d.name) /\ IsSuffix(d.name, key))

overrideKeyFor(rules, key) ==
    LET keys == {key} \cup {<<"*">> \o SubSeq(key, i, Len(key)) : i \in 2 .. Len(key)}
    IN  keys \cap DOMAIN rules

resolveRoute(host, rs) ==
    LET key    == normalizeHost(host)
        over   == overrideKeyFor(rs.rules, key)
        longest == CHOOSE k \in over : \A o \in over : o # k => k = key \/ (o # key /\ Len(o) < Len(k))
        groups == {i \in DOMAIN rs.ruleGroups :
                      \E d \in ToSet(rs.ruleGroups[i].domains) : matchesDomain(key, d)}
    IN  IF over # {} THEN rs.rules[longest]
        ELSE IF groups # {} THEN rs.ruleGroups[Min(groups)].route
        ELSE rs.finalRoute
=============================================================================
