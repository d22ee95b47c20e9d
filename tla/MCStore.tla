------------------------------ MODULE MCStore -------------------------------
(* Small stores for Store: an empty one, one of flat files, two of the      *)
(* versions that kept rules on the groups, and one of today.                *)
EXTENDS Store

MCGroupIds == <<"default", "g1", "g2">>
MCAddress == <<"10", "0", "0", "1">>
MCNotDomainsGo == {<<"com">>}
MCNotDomainsTS == {<<"com">>, MCAddress}
MCProfiles == {"p1", "p2"}

A == <<"a", "com">>
W == <<"w", "a", "com">>
AnyA == <<"*", "a", "com">>
Scope(id, exact, name, r) ==
    [id |-> id, domains |-> <<[exact |-> exact, name |-> name]>>, route |-> r]

LegacyDefault == [rules |-> (A :> "direct"), ruleGroups |-> <<Scope("r1", TRUE, W, "blocked")>>,
                  finalRoute |-> "direct", knownHosts |-> <<A>>]
LegacyG1 == [rules |-> (A :> "blocked") @@ (AnyA :> "tunnel"),
             ruleGroups |-> <<Scope("r1", FALSE, A, "tunnel"), Scope("r2", FALSE, A, "direct")>>,
             finalRoute |-> "none", knownHosts |-> <<A, W>>]

Group(kids, old, carried) ==
    [kids |-> kids, legacyKids |-> old, carried |-> carried, blank |-> FALSE]
Store0(ps, def, g1, rules, routes, active) ==
    ("profiles" :> ps) @@ ("default" :> def) @@ ("g1" :> g1) @@ ("g2" :> Absent)
    @@ ("rules" :> rules) @@ ("routes" :> routes) @@ ("priorities" :> <<>>)
    @@ ("settings" :> [active |-> active, lan |-> 0])

MCInitialDisks ==
    {Store0({}, Absent, Absent, Absent, <<>>, ""),
     Store0({"p1"}, Absent, Absent, Absent, (A :> "direct"), ""),
     Store0({"p1", "p2"}, Group({}, {"p1"}, LegacyDefault), Group({"p2"}, {}, LegacyG1),
            Absent, (A :> "tunnel"), "default"),
     Store0({"p1", "p2"}, Absent, Group({"p2"}, {}, LegacyG1), Absent, (A :> "direct"), "g1"),
     Store0({"p1"}, Group({"p1"}, {}, Absent), Group({"p1"}, {}, Absent),
            [rules |-> (A :> "direct"),
             ruleGroups |-> <<Scope("r1", TRUE, W, "blocked"), Scope("r2", FALSE, A, "direct")>>,
             finalRoute |-> "tunnel", knownHosts |-> <<A>>], <<>>, "default")}

MCHosts == {A, Append(A, ""), W, <<"x">> \o W, <<"com">>, MCAddress}

MCEdits ==
    {[do |-> "set", host |-> AnyA, mode |-> "blocked"],
     [do |-> "set", host |-> Append(A, ""), mode |-> "tunnel"],
     [do |-> "put", group |-> Scope("r3", FALSE, MCAddress, "direct")], [do |-> "del", host |-> A],
     [do |-> "put", group |-> Scope("r3", FALSE, A, "tunnel")],
     [do |-> "move", id |-> "r2", delta |-> 0 - 1], [do |-> "drop", id |-> "r1"],
     [do |-> "final", mode |-> "direct"], [do |-> "seen", host |-> W]}
=============================================================================
