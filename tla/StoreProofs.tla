---------------------------- MODULE StoreProofs ----------------------------
(***************************************************************************)
(* Proofs about the store of profiles, groups and routing rules that the   *)
(* terminal UI and the desktop share.                                      *)
(*                                                                         *)
(* Three programs resolve the route of a host: the tunnel through two      *)
(* indexes, the TUI page by scanning the rule set, the desktop by another  *)
(* order of the same scan.  Each picks the longest override that covers    *)
(* the host and the first group that does, so that they agree where they   *)
(* take the same names for hosts and the same scopes for domains.          *)
(*                                                                         *)
(* A rule set comes from the file, from memory, or from a merge of the     *)
(* group files of an old version.  StoreTypes says that all of them are    *)
(* rule sets, in every place where a program keeps one.                    *)
(*                                                                         *)
(* That only edits change the rules is about the first launch: until       *)
(* rules.json exists, the rules in force are what a launch would make of   *)
(* the group files and routes.json.  StoreInv says what a program that is  *)
(* at work has done of its launch, and that a write of rules.json that is  *)
(* prepared holds the rules in force or one edit of them.                  *)
(***************************************************************************)
EXTENDS Store, FiniteSetTheorems, SequenceTheorems, TLAPS

---------------------------------------------------------------------------
(* Least numbers, and the three ways to a route                            *)
\* No function into a smaller set tells all elements apart.
LEMMA Pigeons ==
    ASSUME NEW S, IsFiniteSet(S), NEW T, IsFiniteSet(T), Cardinality(T) < Cardinality(S),
           NEW f \in [S -> T], \A x, y \in S : f[x] = f[y] => x = y
    PROVE  FALSE
<1> QED
    BY FS_PigeonHole

\* Induction over the natural numbers, for sets: were n outside P, the numbers
\* up to n would fit into n places, those outside P moving down by one.
LEMMA NatInduct ==
    ASSUME NEW P \in SUBSET Nat, 0 \in P, \A k \in P : k + 1 \in P
    PROVE  P = Nat
<1> SUFFICES ASSUME NEW n \in Nat, n \notin P PROVE FALSE
    OBVIOUS
<1> DEFINE S == 0..n
           T == 0..(n - 1)
           f == [k \in S |-> IF k \in P THEN k ELSE k - 1]
<1>1. n >= 1
    OBVIOUS
<1>2. f \in [S -> T]
    BY <1>1
<1>3. IsFiniteSet(S) /\ Cardinality(S) = n + 1
    BY FS_Interval
<1>4. IsFiniteSet(T) /\ Cardinality(T) = n
    BY <1>1, FS_Interval
<1>5. \A x, y \in S : f[x] = f[y] => x = y
    OBVIOUS
<1>6. Cardinality(T) < Cardinality(S)
    BY <1>3, <1>4
<1> HIDE DEF f, S, T
<1> QED
    BY <1>2, <1>3, <1>4, <1>5, <1>6, Pigeons

\* A set of numbers has a least one.
LEMMA LeastOne ==
    ASSUME NEW S \in SUBSET Nat, S # {}
    PROVE  Min(S) \in S /\ \A m \in S : Min(S) <= m
<1>1. SUFFICES \E n \in S : \A m \in S : n <= m
    BY DEF Min
<1>2. SUFFICES ASSUME \A n \in S : \E m \in S : m < n PROVE FALSE
    OBVIOUS
<1> DEFINE P == {n \in Nat : \A m \in 0..n : m \notin S}
<1>3. P \in SUBSET Nat /\ 0 \in P
    BY <1>2
<1>4. \A k \in P : k + 1 \in P
    BY <1>2
<1> HIDE DEF P
<1>5. P = Nat
    BY <1>3, <1>4, NatInduct
<1>6. PICK m \in S : TRUE
    OBVIOUS
<1>7. m \in P /\ m \in 0..m
    BY <1>5, <1>6
<1> QED
    BY <1>7 DEF P

\* Min is the only element that is least.
LEMMA MinIs ==
    ASSUME NEW S \in SUBSET Nat, NEW n \in S, \A m \in S : n <= m
    PROVE  Min(S) = n
<1>1. Min(S) \in S /\ Min(S) <= n
    BY LeastOne
<1>2. n <= Min(S) /\ n \in Nat /\ Min(S) \in Nat
    BY <1>1
<1> QED
    BY <1>1, <1>2

-----------------------------------------------------------------------------

\* wildcardCandidates: the shorter and shorter suffixes of the host, starred.
LEMMA Wildcards ==
    ASSUME NEW h, HostName(h)
    PROVE  /\ wildcardCandidates(h) \in Seq(Seq(ToSet(h) \union {"*"}))
           /\ Len(wildcardCandidates(h)) = IF Len(h) = 0 THEN 0 ELSE Len(h) - 1
           /\ \A i \in 1..(Len(h) - 1) : wildcardCandidates(h)[i] = <<"*">> \o SubSeq(h, i + 1, Len(h))
<1> DEFINE L == ToSet(h) \union {"*"}
<1>a. h \in Seq(ToSet(h))
    BY DEF HostName, IsSeq
<1> HIDE DEF L
<1>0. h \in Seq(L) /\ Len(h) \in Nat
    BY <1>a DEF L
<1>1. CASE Len(h) < 2
    <2>1. wildcardCandidates(h) = <<>>
        BY <1>1 DEF wildcardCandidates
    <2>2. \A i \in 1..(Len(h) - 1) : FALSE
        BY <1>0, <1>1
    <2> QED
        BY <1>0, <1>1, <2>1, <2>2
<1>2. CASE Len(h) >= 2
    <2> DEFINE W(i) == <<"*">> \o SubSeq(h, i + 1, Len(h))
               w == [i \in 1..(Len(h) - 1) |-> W(i)]
    <2>1. h[1] # "*"
        BY <1>0, <1>2 DEF HostName, IsSeq
    <2>2. wildcardCandidates(h) = w
        BY <1>0, <1>2, <2>1 DEF wildcardCandidates
    <2>3. ASSUME NEW i \in 1..(Len(h) - 1) PROVE W(i) \in Seq(L)
        <3>1. SubSeq(h, i + 1, Len(h)) \in Seq(L)
            BY <1>0
        <3>2. <<"*">> \in Seq(L)
            BY DEF L
        <3> HIDE DEF W
        <3> QED
            BY <3>1, <3>2 DEF W
    <2> HIDE DEF W
    <2>4. w \in [1..(Len(h) - 1) -> Seq(L)]
        BY <2>3
    <2> HIDE DEF w
    <2>5. w \in Seq(Seq(L)) /\ Len(w) = Len(h) - 1
        BY <1>0, <1>2, <2>4
    <2> USE DEF w
    <2>6. \A i \in 1..(Len(h) - 1) : w[i] = W(i)
        OBVIOUS
    <2> HIDE DEF w
    <2>7. ~(Len(h) = 0)
        BY <1>2
    <2> HIDE DEF L
    <2>8. /\ wildcardCandidates(h) \in Seq(Seq(L)) /\ Len(wildcardCandidates(h)) = Len(h) - 1
          /\ \A i \in 1..(Len(h) - 1) : wildcardCandidates(h)[i] = W(i)
        BY <2>2, <2>5, <2>6
    <2> QED
        BY <2>7, <2>8 DEF W, L
<1>3. Len(h) < 2 \/ Len(h) >= 2
    BY <1>0
<1> QED
    BY <1>1, <1>2, <1>3, Zenon DEF L

\* The candidates of the tunnel: the host and its wildcards.
LEMMA TunnelOverride ==
    ASSUME NEW h, HostName(h), NEW rules
    PROVE  LET cands == <<h>> \o wildcardCandidates(h)
               hit == {i \in DOMAIN cands : cands[i] \in DOMAIN rules}
           IN  /\ hit = {} <=> resolveOverride(h, rules) = <<>>
               /\ hit # {} => cands[Min(hit)] = resolveOverride(h, rules)[1]
<1> DEFINE w == wildcardCandidates(h)
           cands == <<h>> \o w
           hit == {i \in DOMAIN cands : cands[i] \in DOMAIN rules}
           wild == {i \in DOMAIN w : w[i] \in DOMAIN rules}
<1>1. PICK L : w \in Seq(L)
    BY Wildcards
<1> HIDE DEF w
<1>2. /\ DOMAIN w = 1..Len(w) /\ Len(w) \in Nat
      /\ DOMAIN cands = 1..(Len(w) + 1) /\ cands[1] = h
      /\ \A i \in 1..Len(w) : cands[i + 1] = w[i]
      /\ \A i \in 2..(Len(w) + 1) : cands[i] = w[i - 1]
    BY <1>1
<1> HIDE DEF cands
<1>3. hit \in SUBSET Nat /\ wild \in SUBSET Nat
    BY <1>2
<1>4. CASE h \in DOMAIN rules
    <2>1. 1 \in hit /\ \A m \in hit : 1 <= m
        BY <1>2, <1>4
    <2> HIDE DEF hit
    <2>2. Min(hit) = 1
        BY <1>3, <2>1, MinIs
    <2>3. resolveOverride(h, rules) # <<>> /\ resolveOverride(h, rules)[1] = h
        BY <1>4 DEF resolveOverride
    <2>4. hit # {} /\ cands[Min(hit)] = h
        BY <1>2, <2>1, <2>2
    <2> QED
        BY <2>3, <2>4 DEF hit, cands, w
<1>5. CASE h \notin DOMAIN rules /\ wild = {}
    <2>1. ASSUME NEW i \in hit PROVE FALSE
        <3>1. i = 1 \/ (i \in 2..(Len(w) + 1) /\ i - 1 \in 1..Len(w))
            BY <1>2
        <3> QED
            BY <1>2, <1>5, <3>1
    <2>2. resolveOverride(h, rules) = <<>>
        BY <1>5 DEF resolveOverride, w
    <2> QED
        BY <2>1, <2>2 DEF hit, cands, w
<1>6. CASE h \notin DOMAIN rules /\ wild # {}
    <2>1. Min(wild) \in wild /\ \A m \in wild : Min(wild) <= m
        BY <1>3, <1>6, LeastOne
    <2>2. \A m \in hit : m - 1 \in wild /\ m \in Nat
        BY <1>2, <1>6
    <2>a. Min(wild) \in 1..Len(w) /\ Min(wild) + 1 \in 1..(Len(w) + 1)
        BY <1>2, <2>1
    <2>b. Min(wild) + 1 \in hit
        BY <1>2, <2>1, <2>a
    <2>3. Min(wild) + 1 \in hit /\ \A m \in hit : Min(wild) + 1 <= m
        <3> HIDE DEF hit, wild
        <3> QED
            BY <2>1, <2>2, <2>a, <2>b
    <2>4. cands[Min(wild) + 1] = w[Min(wild)]
        BY <1>2, <2>1
    <2> HIDE DEF hit, wild
    <2>5. Min(hit) = Min(wild) + 1
        BY <1>3, <2>3, MinIs
    <2>6. resolveOverride(h, rules) # <<>> /\ resolveOverride(h, rules)[1] = w[Min(wild)]
        BY <1>6 DEF resolveOverride, w, wild
    <2>7. hit # {} /\ cands[Min(hit)] = w[Min(wild)]
        BY <2>3, <2>4, <2>5
    <2> QED
        BY <2>6, <2>7 DEF hit, cands, w
<1> QED
    BY <1>4, <1>5, <1>6

\* The longest key of the desktop.
LEMMA DesktopOverride ==
    ASSUME NEW h, HostName(h), NEW rules
    PROVE  LET over == overrideKeyFor(rules, h)
               longest == CHOOSE k \in over : \A o \in over :
                             o # k => k = h \/ (o # h /\ Len(o) < Len(k))
           IN  /\ over = {} <=> resolveOverride(h, rules) = <<>>
               /\ over # {} => longest = resolveOverride(h, rules)[1]
<1> DEFINE w == wildcardCandidates(h)
           over == overrideKeyFor(rules, h)
           Best(k) == \A o \in over : o # k => k = h \/ (o # h /\ Len(o) < Len(k))
           longest == CHOOSE k \in over : Best(k)
           wild == {i \in DOMAIN w : w[i] \in DOMAIN rules}
<1>0. h \in Seq(ToSet(h)) /\ Len(h) \in Nat
    BY DEF HostName, IsSeq
<1>1. PICK L : w \in Seq(Seq(L))
    BY Wildcards
<1>2. DOMAIN w = 1..(Len(h) - 1)
    <2>1. Len(w) = IF Len(h) = 0 THEN 0 ELSE Len(h) - 1
        BY Wildcards
    <2>2. DOMAIN w = 1..Len(w)
        BY <1>1
    <2> HIDE DEF w
    <2> QED
        BY <1>0, <2>1, <2>2
<1>3. \A i \in 1..(Len(h) - 1) : w[i] = <<"*">> \o SubSeq(h, i + 1, Len(h)) /\ Len(w[i]) = Len(h) - i + 1
    <2> TAKE i \in 1..(Len(h) - 1)
    <2>1. w[i] = <<"*">> \o SubSeq(h, i + 1, Len(h))
        BY Wildcards
    <2>2. SubSeq(h, i + 1, Len(h)) \in Seq(ToSet(h)) /\ Len(SubSeq(h, i + 1, Len(h))) = Len(h) - i
        BY <1>0
    <2>3. <<"*">> \in Seq({"*"}) /\ Len(<<"*">>) = 1
        OBVIOUS
    <2> QED
        BY <1>0, <2>1, <2>2, <2>3
<1>4. over = ({h} \union {w[i] : i \in 1..(Len(h) - 1)}) \intersect DOMAIN rules
    <2>1. \A i \in 2..Len(h) : i - 1 \in 1..(Len(h) - 1) /\ (i - 1) + 1 = i
        BY <1>0
    <2>2. \A i \in 1..(Len(h) - 1) : i + 1 \in 2..Len(h)
        BY <1>0
    <2> DEFINE g(i) == <<"*">> \o SubSeq(h, i, Len(h))
    <2>a. \A i \in 1..(Len(h) - 1) : w[i] = g(i + 1)
        BY <1>3
    <2> HIDE DEF g, w
    <2>b. \A i \in 2..Len(h) : g(i) = w[i - 1]
        BY <2>a, <2>1
    <2>c. {g(i) : i \in 2..Len(h)} = {w[i] : i \in 1..(Len(h) - 1)}
        BY <2>a, <2>b, <2>1, <2>2
    <2>3. {<<"*">> \o SubSeq(h, i, Len(h)) : i \in 2..Len(h)} = {w[i] : i \in 1..(Len(h) - 1)}
        BY <2>c DEF g
    <2> QED
        BY <2>3 DEF overrideKeyFor
<1>5. wild \in SUBSET Nat
    BY <1>2
<1> HIDE DEF w, over
<1>6. CASE h \in DOMAIN rules
    <2>1. h \in over /\ Best(h)
        BY <1>4, <1>6
    <2>2. \A k \in over : Best(k) => k = h
        BY <2>1
    <2>3. longest = h
        BY <2>1, <2>2
    <2>4. resolveOverride(h, rules) = <<h>>
        BY <1>6 DEF resolveOverride
    <2> QED
        BY <2>1, <2>3, <2>4 DEF over
<1>7. CASE h \notin DOMAIN rules /\ wild = {}
    <2>1. over = {}
        BY <1>2, <1>4, <1>7
    <2>2. resolveOverride(h, rules) = <<>>
        BY <1>7 DEF resolveOverride, w
    <2> QED
        BY <2>1, <2>2 DEF over
<1>8. CASE h \notin DOMAIN rules /\ wild # {}
    <2>1. Min(wild) \in wild /\ \A m \in wild : Min(wild) <= m
        BY <1>5, <1>8, LeastOne
    <2> DEFINE b == Min(wild)
    <2>2. b \in 1..(Len(h) - 1) /\ w[b] \in over
        BY <1>2, <1>4, <2>1
    <2>3. ASSUME NEW o \in over, o # w[b] PROVE o # h /\ Len(o) < Len(w[b])
        <3>1. PICK i \in 1..(Len(h) - 1) : o = w[i] /\ i \in wild
            BY <1>2, <1>4, <1>8
        <3>2. b <= i /\ i # b
            BY <2>1, <2>3, <3>1
        <3> HIDE DEF b, wild
        <3>3. b < i /\ Len(w[i]) = Len(h) - i + 1 /\ Len(w[b]) = Len(h) - b + 1
            BY <1>3, <2>2, <3>1, <3>2
        <3> QED
            BY <1>0, <1>4, <1>8, <2>2, <3>1, <3>3
    <2>4. Best(w[b])
        BY <2>3
    <2>5. ASSUME NEW k \in over, Best(k) PROVE k = w[b]
        <3>1. SUFFICES ASSUME k # w[b] PROVE FALSE
            OBVIOUS
        <3>2. k # h /\ Len(k) < Len(w[b]) /\ Len(w[b]) < Len(k)
            BY <1>4, <1>8, <2>2, <2>3, <2>5, <3>1
        <3>3. Len(k) \in Nat /\ Len(w[b]) \in Nat
            BY <1>0, <1>3, <1>4, <2>2, <3>2
        <3> QED
            BY <3>2, <3>3
    <2>6. longest = w[b]
        BY <2>2, <2>4, <2>5
    <2>7. resolveOverride(h, rules) = <<w[b]>>
        BY <1>8 DEF resolveOverride, w
    <2> QED
        BY <2>2, <2>6, <2>7 DEF over
<1> QED
    BY <1>6, <1>7, <1>8

-----------------------------------------------------------------------------
\* Two sequences are equal if their elements are.
LEMMA SameSeq ==
    ASSUME NEW S, NEW s \in Seq(S), NEW U, NEW u \in Seq(U), Len(s) = Len(u),
           \A i \in 1..Len(s) : s[i] = u[i]
    PROVE  s = u
<1>1. s \in Seq(S \union U) /\ u \in Seq(S \union U)
    OBVIOUS
<1> QED
    BY <1>1

\* A longer host ends in a name when one of its proper suffixes is the name.
LEMMA ProperSuffix ==
    ASSUME NEW h, NEW n, IsSeq(h), IsSeq(n), n # <<>>
    PROVE  Len(h) > Len(n) /\ IsSuffix(n, h) <=> \E i \in 2..Len(h) : SubSeq(h, i, Len(h)) = n
<1>1. /\ h \in Seq(ToSet(h)) /\ Len(h) \in Nat /\ n \in Seq(ToSet(n)) /\ Len(n) \in Nat /\ Len(n) > 0
    BY DEF IsSeq
<1> DEFINE a == Reverse(n)
           b == Reverse(h)
<1>2. /\ a \in Seq(ToSet(n)) /\ Len(a) = Len(n) /\ \A k \in 1..Len(n) : a[k] = n[Len(n) - k + 1]
    BY <1>1 DEF Reverse
<1>3. /\ b \in Seq(ToSet(h)) /\ Len(b) = Len(h) /\ \A k \in 1..Len(h) : b[k] = h[Len(h) - k + 1]
    BY <1>1 DEF Reverse
<1> HIDE DEF a, b
<1>4. ASSUME Len(h) > Len(n), IsSuffix(n, h)
      PROVE  SubSeq(h, Len(h) - Len(n) + 1, Len(h)) = n /\ Len(h) - Len(n) + 1 \in 2..Len(h)
    <2> DEFINE i == Len(h) - Len(n) + 1
               s == SubSeq(h, i, Len(h))
    <2>1. SubSeq(a, 1, Len(n)) = SubSeq(b, 1, Len(n))
        BY <1>2, <1>4 DEF IsSuffix, IsPrefix, a, b
    <2>2. \A k \in 1..Len(n) : a[k] = b[k]
        <3> TAKE k \in 1..Len(n)
        <3>1. SubSeq(a, 1, Len(n))[k] = a[k] /\ SubSeq(b, 1, Len(n))[k] = b[k]
            BY <1>1, <1>2, <1>3, <1>4
        <3> QED
            BY <2>1, <3>1
    <2>3. i \in 2..Len(h) /\ s \in Seq(ToSet(h)) /\ Len(s) = Len(n)
          /\ \A k \in 1..Len(n) : s[k] = h[i + k - 1]
        BY <1>1, <1>4
    <2>4. ASSUME NEW k \in 1..Len(n) PROVE s[k] = n[k]
        <3> DEFINE m == Len(n) - k + 1
        <3>1. m \in 1..Len(n) /\ Len(n) - m + 1 = k /\ Len(h) - m + 1 = i + k - 1 /\ m \in 1..Len(h)
            BY <1>1, <1>4
        <3> HIDE DEF m, i, s
        <3> QED
            BY <1>2, <1>3, <2>2, <2>3, <3>1
    <2> HIDE DEF s
    <2>5. s = n
        BY <1>1, <2>3, <2>4, SameSeq
    <2> QED
        BY <2>3, <2>5 DEF s
<1>5. ASSUME NEW i \in 2..Len(h), SubSeq(h, i, Len(h)) = n
      PROVE  Len(h) > Len(n) /\ IsSuffix(n, h)
    <2>1. Len(n) = Len(h) - i + 1 /\ \A k \in 1..Len(n) : n[k] = h[i + k - 1]
        <3> DEFINE s == SubSeq(h, i, Len(h))
        <3>1. Len(s) = Len(h) - i + 1 /\ \A k \in 1..Len(s) : s[k] = h[i + k - 1]
            BY <1>1
        <3> HIDE DEF s
        <3>2. s = n
            BY <1>5 DEF s
        <3> QED
            BY <3>1, <3>2
    <2>2. ASSUME NEW k \in 1..Len(n) PROVE a[k] = b[k]
        <3>1. Len(n) - k + 1 \in 1..Len(n) /\ i + (Len(n) - k + 1) - 1 = Len(h) - k + 1 /\ k \in 1..Len(h)
            BY <1>1, <2>1
        <3> QED
            BY <1>2, <1>3, <2>1, <3>1
    <2> DEFINE s == SubSeq(a, 1, Len(n))
               u == SubSeq(b, 1, Len(n))
    <2>3. /\ s \in Seq(ToSet(n)) /\ Len(s) = Len(n) /\ \A k \in 1..Len(n) : s[k] = a[k]
        BY <1>1, <1>2
    <2>4. /\ u \in Seq(ToSet(h)) /\ Len(u) = Len(n) /\ \A k \in 1..Len(n) : u[k] = b[k]
        BY <1>1, <1>3, <2>1
    <2> HIDE DEF s, u
    <2>6. s = u
        BY <2>2, <2>3, <2>4, SameSeq
    <2> QED
        BY <1>1, <1>2, <1>3, <2>1, <2>6 DEF IsSuffix, IsPrefix, a, b, s, u
<1> QED
    BY <1>4, <1>5

\* The scopes that cover a host, for the TUI and for the desktop.
LEMMA SameCover ==
    ASSUME NEW h, IsSeq(h), NEW d, ScopeOK(d)
    PROVE  normalizeDomain(d) /\ scopeMatches(h, d) <=> matchesDomain(h, d)
<1>1. Len(h) > Len(d.name) /\ IsSuffix(d.name, h) <=> \E i \in 2..Len(h) : SubSeq(h, i, Len(h)) = d.name
    BY ProperSuffix DEF ScopeOK
<1> QED
    BY <1>1 DEF scopeMatches, matchesDomain

\* The groups that the index of the tunnel gives for a host; those that cover it.
Indexed(cr, h) ==
    LET suffixes == {SubSeq(h, i, Len(h)) : i \in DOMAIN h}
    IN  {cr.exact[n] : n \in {h} \cap DOMAIN cr.exact}
            \cup {cr.suffix[n] : n \in suffixes \cap DOMAIN cr.suffix}
Covering(G, h) ==
    {i \in DOMAIN G : \E d \in ToSet(G[i].domains) : NormalizeDomain(d) /\ scopeMatches(h, d)}

\* The index of the tunnel has the lowest group that covers a host.
LEMMA SameIndex ==
    ASSUME NEW h, IsSeq(h), NEW o, NEW t, RuleGroupsOK(t.ruleGroups),
           t = [rules |-> t.rules, ruleGroups |-> t.ruleGroups,
                finalRoute |-> t.finalRoute, knownHosts |-> t.knownHosts]
    PROVE  LET groups == Indexed(compileRouteTable(t, o), h)
               covering == Covering(t.ruleGroups, h)
           IN  /\ groups = {} <=> covering = {}
               /\ groups # {} => Min(groups) = Min(covering) /\ Min(covering) \in covering
<1> DEFINE G == t.ruleGroups
           Scopes == UNION {ToSet(G[i].domains) : i \in DOMAIN G}
           Named(exact) == {d.name : d \in {s \in Scopes : s.exact = exact /\ NormalizeDomain(s)}}
           Having(n, exact) == {i \in DOMAIN G : [exact |-> exact, name |-> n] \in ToSet(G[i].domains)}
           cr == compileRouteTable(t, o)
           suffixes == {SubSeq(h, i, Len(h)) : i \in DOMAIN h}
           groups == {cr.exact[n] : n \in {h} \cap DOMAIN cr.exact}
                     \cup {cr.suffix[n] : n \in suffixes \cap DOMAIN cr.suffix}
           covering == {i \in DOMAIN G : \E d \in ToSet(G[i].domains) :
                           NormalizeDomain(d) /\ scopeMatches(h, d)}
<1>1. /\ cr.exact = [n \in Named(TRUE) |-> Min(Having(n, TRUE))]
      /\ cr.suffix = [n \in Named(FALSE) |-> Min(Having(n, FALSE))]
    BY DEF compileRouteTable
<1>g. groups = {Min(Having(n, TRUE)) : n \in {h} \cap Named(TRUE)}
               \cup {Min(Having(n, FALSE)) : n \in suffixes \cap Named(FALSE)}
    <2> HIDE DEF Named, Having, suffixes, cr
    <2> QED
        BY <1>1
<1>2. DOMAIN G \in SUBSET Nat /\ \A i \in DOMAIN G : \A d \in ToSet(G[i].domains) : ScopeOK(d)
    <2>1. G \in Seq(ToSet(G)) /\ \A i \in DOMAIN G : G[i] \in ToSet(G)
        BY DEF RuleGroupsOK, IsSeq, ToSet
    <2> QED
        BY <2>1 DEF RuleGroupsOK, RuleGroupOK
<1>3. \A n \in suffixes : n = h \/ \E i \in 2..Len(h) : SubSeq(h, i, Len(h)) = n
    <2>1. h \in Seq(ToSet(h)) /\ Len(h) \in Nat /\ DOMAIN h = 1..Len(h)
        BY DEF IsSeq
    <2>2. ASSUME NEW i \in DOMAIN h PROVE SubSeq(h, i, Len(h)) = h \/ i \in 2..Len(h)
        BY <2>1
    <2> QED
        BY <2>2
<1>4. \A n : (h # <<>> /\ n = h) \/ (\E i \in 2..Len(h) : SubSeq(h, i, Len(h)) = n) => n \in suffixes
    <2>1. h \in Seq(ToSet(h)) /\ Len(h) \in Nat /\ DOMAIN h = 1..Len(h)
        BY DEF IsSeq
    <2>2. h # <<>> => 1 \in DOMAIN h /\ SubSeq(h, 1, Len(h)) = h
        BY <2>1
    <2>3. \A i \in 2..Len(h) : i \in DOMAIN h
        BY <2>1
    <2> QED
        BY <2>2, <2>3
<1>5. ASSUME NEW exact \in BOOLEAN, NEW n \in Named(exact)
      PROVE  /\ [exact |-> exact, name |-> n] \in Scopes /\ NormalizeDomain([exact |-> exact, name |-> n])
             /\ Min(Having(n, exact)) \in Having(n, exact)
             /\ \A i \in Having(n, exact) : Min(Having(n, exact)) <= i
    <2>1. PICK s \in Scopes : s.exact = exact /\ NormalizeDomain(s) /\ s.name = n
        BY <1>5
    <2>2. s = [exact |-> exact, name |-> n]
        BY <1>2, <2>1 DEF ScopeOK
    <2>3. Having(n, exact) # {} /\ Having(n, exact) \in SUBSET Nat
        BY <1>2, <2>2
    <2> HIDE DEF Having
    <2> QED
        BY <2>1, <2>2, <2>3, LeastOne
<1>6. groups \subseteq covering
    <2>1. ASSUME h \in Named(TRUE) PROVE Min(Having(h, TRUE)) \in covering
        <3> DEFINE d == [exact |-> TRUE, name |-> h]
        <3>1. NormalizeDomain(d) /\ scopeMatches(h, d)
            BY <1>5, <2>1 DEF scopeMatches
        <3> QED
            BY <1>5, <2>1, <3>1
    <2>2. ASSUME NEW n \in suffixes, n \in Named(FALSE) PROVE Min(Having(n, FALSE)) \in covering
        <3> DEFINE d == [exact |-> FALSE, name |-> n]
        <3>1. NormalizeDomain(d) /\ scopeMatches(h, d)
            BY <1>3, <1>5, <2>2 DEF scopeMatches
        <3> QED
            BY <1>5, <2>2, <3>1
    <2> HIDE DEF Named, Having, suffixes, covering, groups
    <2> QED
        BY <1>g, <2>1, <2>2
<1>7. ASSUME NEW i \in covering PROVE \E j \in groups : j <= i
    <2>1. PICK d \in ToSet(G[i].domains) : NormalizeDomain(d) /\ scopeMatches(h, d)
        BY <1>7
    <2>2. ScopeOK(d) /\ i \in DOMAIN G
        BY <1>2, <1>7
    <2>3. d.exact \in BOOLEAN /\ d = [exact |-> d.exact, name |-> d.name] /\ d.name # <<>>
        BY <2>2 DEF ScopeOK
    <2>4. d.name \in Named(d.exact) /\ i \in Having(d.name, d.exact)
        BY <2>1, <2>2, <2>3
    <2>5. Min(Having(d.name, d.exact)) <= i
        BY <1>5, <2>3, <2>4
    <2>6. CASE d.exact
        <3>1. d.name = h
            BY <2>1, <2>6 DEF scopeMatches
        <3>2. h \in Named(TRUE) /\ Min(Having(h, TRUE)) <= i
            BY <2>4, <2>5, <2>6, <3>1
        <3> HIDE DEF Named, Having, suffixes, groups
        <3> QED
            BY <1>g, <3>2
    <2>7. CASE ~d.exact
        <3>1. d.name \in suffixes
            BY <1>4, <2>1, <2>3 DEF scopeMatches
        <3>2. d.name \in Named(FALSE) /\ Min(Having(d.name, FALSE)) <= i
            BY <2>3, <2>4, <2>5, <2>7
        <3> HIDE DEF Named, Having, suffixes, groups
        <3> QED
            BY <1>g, <3>1, <3>2
    <2> QED
        BY <2>6, <2>7
<1> HIDE DEF groups, covering
<1>8. covering \in SUBSET Nat /\ groups \in SUBSET Nat
    BY <1>2, <1>6 DEF covering
<1>9. ASSUME groups # {} PROVE Min(groups) = Min(covering) /\ Min(covering) \in covering
    <2>1. covering # {}
        BY <1>6, <1>9
    <2>2. Min(covering) \in covering /\ \A m \in covering : Min(covering) <= m
        BY <1>8, <2>1, LeastOne
    <2>3. PICK j \in groups : j <= Min(covering)
        BY <1>7, <2>2
    <2>4. j = Min(covering)
        BY <1>6, <1>8, <2>2, <2>3
    <2>5. \A m \in groups : Min(covering) <= m
        BY <1>6, <2>2
    <2> QED
        BY <1>8, <2>2, <2>3, <2>4, <2>5, MinIs
<1> QED
    BY <1>6, <1>7, <1>9 DEF groups, covering, Indexed, Covering

\* A host in its normal form is a host.
LEMMA NormalHost == ASSUME NEW h, HostName(h) PROVE HostName(normalizeHost(h))
<1>1. h \in Seq(ToSet(h)) /\ Len(h) \in Nat /\ (h = <<>> \/ h[1] # "*")
    BY DEF HostName, IsSeq
<1>2. CASE normalizeHost(h) = h
    BY <1>2
<1>3. CASE Len(h) > 1 /\ normalizeHost(h) = SubSeq(h, 1, Len(h) - 1)
    <2> DEFINE f == SubSeq(h, 1, Len(h) - 1)
    <2>1. f \in Seq(ToSet(h)) /\ Len(f) = Len(h) - 1 /\ \A i \in 1..Len(f) : f[i] = h[i]
        BY <1>1, <1>3
    <2> HIDE DEF f
    <2>0. h # <<>> /\ 1 \in 1..Len(f)
        BY <1>1, <1>3, <2>1
    <2>2. f # <<>> /\ f[1] # "*"
        BY <1>1, <2>0, <2>1
    <2>3. \A i \in 1..Len(f) : f[i] \in ToSet(f)
        BY <2>1 DEF ToSet
    <2>4. f \in Seq(ToSet(f))
        BY <2>1, <2>3
    <2> QED
        BY <1>3, <2>2, <2>4 DEF HostName, IsSeq, f
<1> QED
    BY <1>2, <1>3 DEF normalizeHost, Front

\* With normal keys the tunnel has one table of overrides, the stored one.
LEMMA PlainOverrides ==
    ASSUME NEW rs, PlainRules(rs)
    PROVE  /\ \E o : o \in Overrides(rs.rules)
           /\ \A o \in Overrides(rs.rules) : /\ DOMAIN o = DOMAIN rs.rules
                                             /\ \A k \in DOMAIN o : o[k] = rs.rules[k]
<1> DEFINE rules == rs.rules
           keys == {normalizeHost(k) : k \in DOMAIN rules} \ {<<"">>}
           Modes(k) == {rules[j] : j \in {i \in DOMAIN rules : normalizeHost(i) = k}}
<1>1. keys = DOMAIN rules
    BY DEF PlainRules
<1>2. \A k \in keys : Modes(k) = {rules[k]}
    BY DEF PlainRules
<1>3. Overrides(rules) = {o \in [keys -> UNION {Modes(k) : k \in keys}] : \A k \in keys : o[k] \in Modes(k)}
    BY DEF Overrides
<1> HIDE DEF keys, Modes, rules
<1>4. [k \in keys |-> rules[k]] \in Overrides(rules)
    <2> DEFINE o == [k \in keys |-> rules[k]]
    <2>1. \A k \in keys : o[k] \in Modes(k) /\ o[k] \in UNION {Modes(j) : j \in keys}
        BY <1>2
    <2>2. o \in [keys -> UNION {Modes(j) : j \in keys}]
        BY <2>1
    <2> QED
        BY <1>3, <2>1, <2>2
<1>5. ASSUME NEW o \in Overrides(rules)
      PROVE  DOMAIN o = DOMAIN rules /\ \A k \in DOMAIN o : o[k] = rules[k]
    BY <1>1, <1>2, <1>3
<1> QED
    BY <1>4, <1>5 DEF rules

\* What the tunnel does with a host key, by what the lemmas above say of its
\* candidates and its index.
LEMMA TunnelRoute ==
    ASSUME NEW h, HostName(h), NEW rs, RuleSetOK(rs), PlainRules(rs), NEW o \in Overrides(rs.rules)
    PROVE  LET over == resolveOverride(h, rs.rules)
               covering == Covering(rs.ruleGroups, h)
           IN  lookup(compileRouteTable(rs, o), h) =
                   IF over # <<>> THEN rs.rules[over[1]]
                   ELSE IF covering # {} THEN rs.ruleGroups[Min(covering)].route ELSE rs.finalRoute
<1> DEFINE cr == compileRouteTable(rs, o)
           cands == <<h>> \o wildcardCandidates(h)
           hit == {i \in DOMAIN cands : cands[i] \in DOMAIN rs.rules}
           groups == Indexed(cr, h)
           over == resolveOverride(h, rs.rules)
           covering == Covering(rs.ruleGroups, h)
<1>1. /\ rs = [rules |-> rs.rules, ruleGroups |-> rs.ruleGroups,
               finalRoute |-> rs.finalRoute, knownHosts |-> rs.knownHosts]
      /\ RuleGroupsOK(rs.ruleGroups) /\ rs.finalRoute \in {"direct", "tunnel"} /\ IsSeq(h)
    BY DEF RuleSetOK, HostName
<1>2. /\ cr.table.rules = o /\ cr.table.ruleGroups = rs.ruleGroups
      /\ cr.table.finalRoute = rs.finalRoute
    BY <1>1 DEF compileRouteTable, NormalizeFinalRoute
<1>3. DOMAIN o = DOMAIN rs.rules /\ \A k \in DOMAIN o : o[k] = rs.rules[k]
    BY PlainOverrides
<1>4. lookup(cr, h) = IF hit # {} THEN o[cands[Min(hit)]]
                      ELSE IF groups # {} THEN rs.ruleGroups[Min(groups)].route ELSE rs.finalRoute
    BY <1>2, <1>3 DEF lookup, Indexed
<1>5. /\ hit = {} <=> over = <<>>
      /\ hit # {} => cands[Min(hit)] = over[1]
    BY TunnelOverride
<1>6. over # <<>> => over[1] \in DOMAIN rs.rules
    <2>1. CASE h \in DOMAIN rs.rules
        BY <2>1 DEF resolveOverride
    <2>2. CASE h \notin DOMAIN rs.rules
        <3> DEFINE w == wildcardCandidates(h)
                   wild == {i \in DOMAIN w : w[i] \in DOMAIN rs.rules}
        <3>1. over = IF wild = {} THEN <<>> ELSE <<w[Min(wild)]>>
            BY <2>2 DEF resolveOverride
        <3>2. wild \in SUBSET Nat
            <4>1. PICK L : w \in Seq(L)
                BY Wildcards
            <4> HIDE DEF w
            <4> QED
                BY <4>1
        <3>3. wild # {} => Min(wild) \in wild
            <4> HIDE DEF wild
            <4> QED
                BY <3>2, LeastOne
        <3> HIDE DEF over
        <3> QED
            BY <3>1, <3>3
    <2> QED
        BY <2>1, <2>2
<1>8. /\ groups = {} <=> covering = {}
      /\ groups # {} => Min(groups) = Min(covering) /\ Min(covering) \in covering
    BY <1>1, SameIndex
<1> HIDE DEF cr, cands, hit, groups, over, covering
<1> QED
    BY <1>3, <1>4, <1>5, <1>6, <1>8 DEF cr, over, covering

\* A pattern of a set: what all of its members are.
LEMMA OnlyRoute ==
    ASSUME NEW rs, NEW h, NEW r, \E o : o \in Overrides(rs.rules),
           \A o \in Overrides(rs.rules) : lookup(compileRouteTable(rs, o), normalizeHost(h)) = r
    PROVE  TunnelRoutes(rs, h) = {r}
BY DEF TunnelRoutes

\* The tunnel (internal/stats), the TUI's page and the desktop's interface,
\* each with its own code, resolve hosts alike, whatever the rules, wildcards
\* and rule groups are, if the keys of the overrides are in normal form: the
\* page as long as the host is, too, and the desktop as long as its library
\* takes the same scopes for domains as the tunnel's.
THEOREM OneRouting ==
    ASSUME NEW h, HostName(h), NEW rs, RuleSetOK(rs), PlainRules(rs)
    PROVE  /\ h = normalizeHost(h) => TunnelRoutes(rs, h) = {route(rs, h)}
           /\ SameScopes(rs) => TunnelRoutes(rs, h) = {resolveRoute(h, rs)}
<1> DEFINE k == normalizeHost(h)
           over == resolveOverride(k, rs.rules)
           covering == Covering(rs.ruleGroups, k)
           r == IF over # <<>> THEN rs.rules[over[1]]
                ELSE IF covering # {} THEN rs.ruleGroups[Min(covering)].route ELSE rs.finalRoute
<1>1. /\ RuleGroupsOK(rs.ruleGroups) /\ rs.finalRoute \in {"direct", "tunnel"}
      /\ HostName(k) /\ IsSeq(k)
    BY NormalHost DEF RuleSetOK, HostName
<1>2. TunnelRoutes(rs, h) = {r}
    <2>1. \A o \in Overrides(rs.rules) : lookup(compileRouteTable(rs, o), k) = r
        BY <1>1, TunnelRoute
    <2> HIDE DEF r
    <2> QED
        BY <2>1, PlainOverrides, OnlyRoute
<1>3. ASSUME h = k PROVE route(rs, h) = r
    <2>1. NormalizeFinalRoute(rs.finalRoute) = rs.finalRoute
        BY <1>1 DEF NormalizeFinalRoute
    <2> QED
        BY <1>3, <2>1 DEF route, Covering
<1>4. ASSUME SameScopes(rs) PROVE resolveRoute(h, rs) = r
    <2> DEFINE keys == overrideKeyFor(rs.rules, k)
               longest == CHOOSE i \in keys : \A o \in keys : o # i => i = k \/ (o # k /\ Len(o) < Len(i))
               matching == {i \in DOMAIN rs.ruleGroups :
                               \E d \in ToSet(rs.ruleGroups[i].domains) : matchesDomain(k, d)}
    <2>1. resolveRoute(h, rs) = IF keys # {} THEN rs.rules[longest]
                                ELSE IF matching # {} THEN rs.ruleGroups[Min(matching)].route ELSE rs.finalRoute
        BY DEF resolveRoute
    <2>2. /\ keys = {} <=> over = <<>>
          /\ keys # {} => longest = over[1]
        BY <1>1, DesktopOverride
    <2>3. matching = covering
        <3>1. \A i \in DOMAIN rs.ruleGroups : \A d \in ToSet(rs.ruleGroups[i].domains) :
                 ScopeOK(d) /\ (NormalizeDomain(d) <=> normalizeDomain(d))
            BY <1>1, <1>4 DEF RuleGroupsOK, RuleGroupOK, SameScopes, ToSet
        <3> QED
            BY <1>1, <3>1, SameCover DEF Covering
    <2> HIDE DEF keys, longest, matching, over, covering
    <2> QED
        BY <2>1, <2>2, <2>3
<1> HIDE DEF r
<1> QED
    BY <1>2, <1>3, <1>4

---------------------------------------------------------------------------
(* Flattened and selected sequences                                        *)
\* The concatenation of sequences over S is a sequence over S.
LEMMA Flattened ==
    ASSUME NEW S, NEW q \in Seq(Seq(S))
    PROVE  FlattenSeq(q) \in Seq(S)
<1> DEFINE Is(f, m) == f = [i \in 1..m |-> IF i = 1 THEN q[i] ELSE f[i - 1] \o q[i]]
           n == Len(q)
<1>0. n \in Nat /\ \A i \in 1..n : q[i] \in Seq(S)
    OBVIOUS
<1>1. CASE n = 0
    <2>1. q = <<>> /\ <<>> \in Seq(S)
        BY <1>1
    <2> QED
        BY <1>1, <2>1 DEF FlattenSeq
<1>2. CASE n # 0
    <2> DEFINE P == {m \in Nat : m <= n => \E f : Is(f, m)}
    <2>1. 0 \in P
        <3>1. Is([i \in 1..0 |-> <<>>], 0)
            OBVIOUS
        <3> QED
            BY <3>1
    <2>2. ASSUME NEW k \in P PROVE k + 1 \in P
        <3>0. k \in Nat /\ (k <= n => \E f : Is(f, k))
            <4> HIDE DEF Is
            <4> QED
                OBVIOUS
        <3>1. SUFFICES ASSUME k + 1 <= n PROVE \E f : Is(f, k + 1)
            <4> HIDE DEF Is
            <4> QED
                BY <3>0
        <3>2. PICK f : Is(f, k)
            <4> HIDE DEF Is
            <4> QED
                BY <1>0, <3>0, <3>1
        <3> DEFINE v == IF k = 0 THEN q[1] ELSE f[k] \o q[k + 1]
                   g == [i \in 1..(k + 1) |-> IF i <= k THEN f[i] ELSE v]
        <3>3. \A i \in 1..k : f[i] = IF i = 1 THEN q[i] ELSE f[i - 1] \o q[i]
            BY <3>2
        <3> HIDE DEF Is
        <3>4. ASSUME NEW i \in 1..(k + 1) PROVE g[i] = IF i = 1 THEN q[i] ELSE g[i - 1] \o q[i]
            <4>1. CASE i <= k
                <5>1. g[i] = f[i] /\ (i # 1 => g[i - 1] = f[i - 1]) /\ i \in 1..k
                    BY <4>1
                <5> QED
                    BY <3>3, <5>1
            <4>2. CASE i = k + 1
                <5>1. g[i] = v /\ (i # 1 => g[i - 1] = f[k] /\ k # 0)
                    BY <4>2
                <5> QED
                    BY <4>2, <5>1
            <4> QED
                BY <4>1, <4>2
        <3>5. g = [i \in 1..(k + 1) |-> IF i = 1 THEN q[i] ELSE g[i - 1] \o q[i]]
            <4> DEFINE h == [i \in 1..(k + 1) |-> IF i = 1 THEN q[i] ELSE g[i - 1] \o q[i]]
            <4>1. \A i \in 1..(k + 1) : g[i] = h[i]
                BY <3>4
            <4>2. g = [i \in 1..(k + 1) |-> g[i]]
                OBVIOUS
            <4>3. h = [i \in 1..(k + 1) |-> h[i]]
                OBVIOUS
            <4> HIDE DEF g, h
            <4>4. [i \in 1..(k + 1) |-> g[i]] = [i \in 1..(k + 1) |-> h[i]]
                BY <4>1
            <4>5. g = h
                BY <4>2, <4>3, <4>4
            <4> QED
                BY <4>5 DEF h
        <3> HIDE DEF g
        <3> QED
            BY <3>5 DEF Is
    <2>3. P = Nat
        <3> HIDE DEF Is
        <3> QED
            BY <2>1, <2>2, NatInduct
    <2> DEFINE f == CHOOSE f : Is(f, n)
    <2>4. Is(f, n)
        <3>1. \E g : Is(g, n)
            <4> HIDE DEF Is
            <4> QED
                BY <1>0, <2>3
        <3> HIDE DEF Is
        <3> QED
            BY <3>1
    <2>5. FlattenSeq(q) = f[n]
        BY <1>2 DEF FlattenSeq
    <2>6. \A i \in 1..n : f[i] = IF i = 1 THEN q[i] ELSE f[i - 1] \o q[i]
        <3> HIDE DEF f
        <3> QED
            BY <2>4
    <2> HIDE DEF f, P
    <2> DEFINE Q == {m \in Nat : m \in 1..n => f[m] \in Seq(S)}
    <2>7. 0 \in Q
        OBVIOUS
    <2>8. ASSUME NEW k \in Q PROVE k + 1 \in Q
        <3>1. SUFFICES ASSUME k + 1 \in 1..n PROVE f[k + 1] \in Seq(S)
            OBVIOUS
        <3>2. q[k + 1] \in Seq(S)
            BY <1>0, <3>1
        <3>3. CASE k = 0
            BY <2>6, <3>1, <3>2, <3>3
        <3>4. CASE k # 0
            <4>0. k \in Nat /\ k \in 1..n
                BY <1>0, <3>1, <3>4
            <4>1. f[k] \in Seq(S) /\ f[k + 1] = f[k] \o q[k + 1]
                <5>1. f[k] \in Seq(S)
                    BY <4>0
                <5>2. (k + 1) - 1 = k /\ k + 1 # 1
                    BY <4>0
                <5> QED
                    BY <2>6, <3>1, <5>1, <5>2
            <4> QED
                BY <3>2, <4>1
        <3> QED
            BY <3>3, <3>4
    <2>9. Q = Nat
        <3> HIDE DEF Q
        <3>1. Q \in SUBSET Nat
            BY DEF Q
        <3> QED
            BY <2>7, <2>8, <3>1, NatInduct
    <2>10. f[n] \in Seq(S)
        BY <1>0, <1>2, <2>9
    <2> QED
        BY <2>5, <2>10
<1> QED
    BY <1>1, <1>2

\* Sets of positions are finite.
LEMMA FiniteUpto ==
    ASSUME NEW n \in Nat, NEW I \in SUBSET (1..n)
    PROVE  IsFiniteSet(I) /\ Cardinality(I) \in Nat /\ I \subseteq Nat
<1>1. IsFiniteSet(1..n)
    BY FS_Interval
<1>2. IsFiniteSet(I)
    BY <1>1, FS_Subset
<1> QED
    BY <1>2, FS_CardinalityType

\* Each of the first so many numbers is the rank of an element.
LEMMA Ranks ==
    ASSUME NEW n \in Nat, NEW I \in SUBSET (1..n), NEW k \in 1..Cardinality(I)
    PROVE  \E i \in I : Cardinality({j \in I : j <= i}) = k
<1> DEFINE Upto(i) == {j \in I : j <= i}
<1>0. IsFiniteSet(I) /\ Cardinality(I) \in Nat /\ I \subseteq Nat
    BY FiniteUpto
<1>1. \A i \in I : IsFiniteSet(Upto(i)) /\ Cardinality(Upto(i)) \in Nat
    BY <1>0, FS_Subset, FS_CardinalityType
<1> DEFINE P == {m \in Nat : m <= Cardinality(I) =>
                    \A c \in 1..m : \E i \in I : Cardinality(Upto(i)) = c}
<1>2. 0 \in P
    OBVIOUS
<1>3. ASSUME NEW m \in P PROVE m + 1 \in P
    <2>1. SUFFICES ASSUME m + 1 <= Cardinality(I) PROVE \E i \in I : Cardinality(Upto(i)) = m + 1
        BY <1>0
    \* The elements beyond the m-th, and the least of them.
    <2>2. PICK D \in SUBSET I : /\ Cardinality(D) = m
                                /\ \A i \in D, j \in I : j <= i => j \in D
        <3>1. CASE m = 0
            <4>1. Cardinality({}) = 0
                BY FS_EmptySet
            <4> QED
                BY <3>1, <4>1
        <3>2. CASE m # 0
            <4>1. PICK i \in I : Cardinality(Upto(i)) = m
                BY <1>0, <2>1, <3>2
            <4>2. \A a \in Upto(i), j \in I : j <= a => j \in Upto(i)
                OBVIOUS
            <4> HIDE DEF Upto
            <4> QED
                BY <4>1, <4>2 DEF Upto
        <3> QED
            BY <3>1, <3>2
    <2>3. I \ D # {}
        <3>1. SUFFICES ASSUME D = I PROVE FALSE
            OBVIOUS
        <3>2. m = Cardinality(I) /\ m \in Nat
            BY <2>2, <3>1
        <3> QED
            BY <2>1, <3>2
    <2>4. I \ D \in SUBSET Nat
        OBVIOUS
    <2> DEFINE b == Min(I \ D)
    <2>5. b \in I \ D /\ \A j \in I \ D : b <= j
        BY <2>3, <2>4, LeastOne
    <2> HIDE DEF b
    <2>6. Upto(b) = D \union {b}
        <3>1. \A j \in I : j <= b => j \in D \/ j = b
            BY <1>0, <2>5
        <3>2. \A j \in D : j <= b
            <4> TAKE j \in D
            <4>1. ~(b <= j)
                BY <2>2, <2>5
            <4> QED
                BY <1>0, <2>5, <4>1
        <3> QED
            BY <1>0, <2>5, <3>1, <3>2
    <2>7. IsFiniteSet(D) /\ b \notin D
        BY <1>0, <2>5, FS_Subset
    <2>8. Cardinality(D \union {b}) = m + 1
        BY <2>2, <2>7, FS_AddElement
    <2> QED
        BY <2>5, <2>6, <2>8
<1> HIDE DEF P
<1>4. P \in SUBSET Nat
    BY DEF P
<1>5. P = Nat
    BY <1>2, <1>3, <1>4, NatInduct
<1>6. Cardinality(I) \in P
    BY <1>0, <1>5
<1> QED
    BY <1>0, <1>6 DEF P

\* SubSeqAt selects elements, as many as there are positions.
LEMMA SubSeqType ==
    ASSUME NEW S, NEW s \in Seq(S), NEW I \in SUBSET DOMAIN s
    PROVE  /\ SubSeqAt(s, I) \in Seq(S) /\ Len(SubSeqAt(s, I)) = Cardinality(I)
           /\ \A k \in 1..Cardinality(I) : \E i \in I : SubSeqAt(s, I)[k] = s[i]
<1> DEFINE Of(k) == CHOOSE i \in I : Cardinality({j \in I : j <= i}) = k
           u == [k \in 1..Cardinality(I) |-> s[Of(k)]]
<1>0. Len(s) \in Nat /\ I \in SUBSET (1..Len(s)) /\ Cardinality(I) \in Nat
    <2>1. Len(s) \in Nat /\ I \in SUBSET (1..Len(s))
        OBVIOUS
    <2> QED
        BY <2>1, FiniteUpto
<1>1. ASSUME NEW k \in 1..Cardinality(I) PROVE Of(k) \in I
    BY <1>0, Ranks
<1> HIDE DEF Of
<1>2. u \in [1..Cardinality(I) -> S]
    BY <1>0, <1>1
<1>3. u \in Seq(S) /\ Len(u) = Cardinality(I) /\ \A k \in 1..Cardinality(I) : u[k] = s[Of(k)]
    <2>1. \A k \in 1..Cardinality(I) : u[k] = s[Of(k)]
        OBVIOUS
    <2> HIDE DEF u
    <2> QED
        BY <1>0, <1>2, <2>1
<1>4. SubSeqAt(s, I) = u
    BY DEF SubSeqAt, Of
<1> HIDE DEF u
<1> QED
    BY <1>1, <1>3, <1>4

---------------------------------------------------------------------------
(* The edits and the merges yield rule sets                                *)
\* A sequence of rule groups is a list of rule groups.
LEMMA GroupsOf ==
    ASSUME NEW S, NEW s \in Seq(S), \A i \in 1..Len(s) : RuleGroupOK(s[i])
    PROVE  RuleGroupsOK(s)
<1>1. s \in Seq(ToSet(s))
    <2>1. s \in [1..Len(s) -> ToSet(s)] /\ Len(s) \in Nat
        BY DEF ToSet
    <2> HIDE DEF ToSet
    <2> QED
        BY <2>1
<1>2. \A g \in ToSet(s) : \E i \in 1..Len(s) : g = s[i]
    BY DEF ToSet
<1> QED
    BY <1>1, <1>2 DEF RuleGroupsOK, IsSeq

\* And the reverse, with its length.
LEMMA OfGroups ==
    ASSUME NEW s, RuleGroupsOK(s)
    PROVE  /\ s \in Seq(ToSet(s)) /\ Len(s) \in Nat /\ DOMAIN s = 1..Len(s)
           /\ \A i \in 1..Len(s) : RuleGroupOK(s[i])
<1>1. s \in Seq(ToSet(s)) /\ \A g \in ToSet(s) : RuleGroupOK(g)
    BY DEF RuleGroupsOK, IsSeq
<1>2. \A i \in DOMAIN s : s[i] \in ToSet(s)
    BY DEF ToSet
<1> HIDE DEF ToSet
<1>3. Len(s) \in Nat /\ DOMAIN s = 1..Len(s)
    BY <1>1
<1> QED
    BY <1>1, <1>2, <1>3

\* A rule set with other rules or hosts, other groups, another final route.
LEMMA WithGroups ==
    ASSUME NEW rs, RuleSetOK(rs)
    PROVE  /\ \A x : RuleSetOK([rs EXCEPT !.rules = x])
           /\ \A x : RuleSetOK([rs EXCEPT !.knownHosts = x])
           /\ \A x : RuleGroupsOK(x) => RuleSetOK([rs EXCEPT !.ruleGroups = x])
           /\ \A x \in {"direct", "tunnel"} : RuleSetOK([rs EXCEPT !.finalRoute = x])
           /\ RuleSetOK(normalize(rs)) /\ normalize(rs) = [rs EXCEPT !.knownHosts = capKnownHosts(rs.knownHosts)]
<1>1. rs = [rules |-> rs.rules, ruleGroups |-> rs.ruleGroups,
            finalRoute |-> rs.finalRoute, knownHosts |-> rs.knownHosts]
    BY DEF RuleSetOK
<1>2. RuleGroupsOK(rs.ruleGroups) /\ rs.finalRoute \in {"direct", "tunnel"}
    BY DEF RuleSetOK
<1>3. \A x : RuleSetOK([rs EXCEPT !.rules = x]) /\ RuleSetOK([rs EXCEPT !.knownHosts = x])
    BY <1>1, <1>2 DEF RuleSetOK
<1>4. \A x : RuleGroupsOK(x) => RuleSetOK([rs EXCEPT !.ruleGroups = x])
    BY <1>1, <1>2 DEF RuleSetOK
<1>5. \A x \in {"direct", "tunnel"} : RuleSetOK([rs EXCEPT !.finalRoute = x])
    BY <1>1, <1>2 DEF RuleSetOK
<1>6. NormalizeFinalRoute(rs.finalRoute) = rs.finalRoute
    BY <1>2 DEF NormalizeFinalRoute
<1>7. normalize(rs) = [rs EXCEPT !.knownHosts = capKnownHosts(rs.knownHosts)]
    BY <1>1, <1>6 DEF normalize
<1> QED
    BY <1>3, <1>4, <1>5, <1>7

\* Clamped to a range.
LEMMA Clamp ==
    ASSUME NEW x \in Int, NEW n \in Nat, n >= 1
    PROVE  Min({Max({x, 1}), n}) \in 1..n
<1> DEFINE y == IF x >= 1 THEN x ELSE 1
<1>1. Max({x, 1}) = y
    <2>1. y \in {x, 1} /\ y \in Int /\ y >= x /\ y >= 1
        <3>1. CASE x >= 1
            BY <3>1
        <3>2. CASE ~(x >= 1)
            BY <3>2
        <3> QED
            BY <3>1, <3>2
    <2>2. \A z \in {x, 1} : (\A m \in {x, 1} : z >= m) => z = y
        OBVIOUS
    <2> HIDE DEF y
    <2> QED
        BY <2>1, <2>2 DEF Max
<1>2. y \in Nat /\ y >= 1
    OBVIOUS
<1> HIDE DEF y
<1>3. Min({y, n}) \in {y, n} /\ \A m \in {y, n} : Min({y, n}) <= m
    <2>1. {y, n} \in SUBSET Nat /\ {y, n} # {}
        BY <1>2
    <2> QED
        BY <2>1, LeastOne
<1> QED
    BY <1>1, <1>2, <1>3

\* The first group of an id is one of the list.
LEMMA GroupIndex ==
    ASSUME NEW rs, RuleGroupsOK(rs.ruleGroups), NEW id, RuleGroupIndex(rs, id) # {}
    PROVE  Min(RuleGroupIndex(rs, id)) \in DOMAIN rs.ruleGroups
<1>1. RuleGroupIndex(rs, id) \in SUBSET Nat
    BY OfGroups DEF RuleGroupIndex
<1>2. Min(RuleGroupIndex(rs, id)) \in RuleGroupIndex(rs, id)
    BY <1>1, LeastOne
<1> QED
    BY <1>2 DEF RuleGroupIndex

\* Both MoveRuleGroups permute the groups.
LEMMA MovedGroup ==
    ASSUME NEW rs, RuleSetOK(rs), NEW id, NEW delta \in Int
    PROVE  RuleSetOK(MoveRuleGroup(rs, id, delta)) /\ RuleSetOK(moveRuleGroup(rs, id, delta))
<1> DEFINE s == rs.ruleGroups
           L == ToSet(s)
<1>1. RuleGroupsOK(s)
    BY DEF RuleSetOK
<1>2. s \in Seq(L) /\ Len(s) \in Nat /\ DOMAIN s = 1..Len(s) /\ \A i \in 1..Len(s) : RuleGroupOK(s[i])
    BY <1>1, OfGroups
<1>3. \A x \in L : RuleGroupOK(x)
    BY <1>1 DEF RuleGroupsOK
<1> HIDE DEF L
<1>4. \A x : x \in Seq(L) => RuleGroupsOK(x)
    <2> TAKE x
    <2> HAVE x \in Seq(L)
    <2>1. \A i \in 1..Len(x) : x[i] \in L
        OBVIOUS
    <2> QED
        BY <1>3, <2>1, GroupsOf
<1> DEFINE from == Min(RuleGroupIndex(rs, id))
<1>5. RuleSetOK(MoveRuleGroup(rs, id, delta))
    <2>1. CASE RuleGroupIndex(rs, id) = {}
        BY <2>1 DEF MoveRuleGroup
    <2>2. CASE RuleGroupIndex(rs, id) # {}
        <3> DEFINE to == Min({Max({from + delta, 1}), Len(s)})
                   r == RemoveAt(s, from)
        <3>1. from \in 1..Len(s)
            BY <1>1, <1>2, <2>2, GroupIndex
        <3> HIDE DEF from
        <3>2. to \in 1..Len(s)
            <4>1. from + delta \in Int /\ Len(s) >= 1
                BY <1>2, <3>1
            <4> QED
                BY <1>2, <4>1, Clamp
        <3> HIDE DEF to
        <3>3. r \in Seq(L) /\ Len(r) = Len(s) - 1
            <4> DEFINE a == SubSeq(s, 1, from - 1)
                       b == SubSeq(s, from + 1, Len(s))
            <4>1. a \in Seq(L) /\ Len(a) = from - 1
                BY <1>2, <3>1
            <4>2. b \in Seq(L) /\ Len(b) = Len(s) - from
                BY <1>2, <3>1
            <4>3. r = a \o b
                BY DEF RemoveAt
            <4> HIDE DEF a, b, r
            <4>4. a \o b \in Seq(L) /\ Len(a \o b) = (from - 1) + (Len(s) - from)
                BY <4>1, <4>2
            <4> QED
                BY <1>2, <3>1, <4>3, <4>4
        <3> HIDE DEF r
        <3>4. InsertAt(r, to, s[from]) \in Seq(L)
            <4>1. SubSeq(r, 1, to - 1) \in Seq(L)
                BY <1>2, <3>2, <3>3
            <4>2. SubSeq(r, to, Len(r)) \in Seq(L)
                BY <1>2, <3>2, <3>3
            <4>3. s[from] \in L
                BY <1>2, <3>1
            <4> QED
                BY <4>1, <4>2, <4>3 DEF InsertAt
        <3>5. RuleSetOK([rs EXCEPT !.ruleGroups = InsertAt(r, to, s[from])])
            BY <1>4, <3>4, WithGroups
        <3>6. MoveRuleGroup(rs, id, delta) = [rs EXCEPT !.ruleGroups = InsertAt(r, to, s[from])]
            BY <2>2 DEF MoveRuleGroup, from, to, r, RuleSetOK
        <3> QED
            BY <3>5, <3>6
    <2> QED
        BY <2>1, <2>2
<1>6. RuleSetOK(moveRuleGroup(rs, id, delta))
    <2> DEFINE at == IF RuleGroupIndex(rs, id) = {} THEN 0 ELSE from
               to == at + delta
               u == [s EXCEPT ![at] = s[to], ![to] = s[at]]
    <2>1. at \in 0..Len(s)
        BY <1>1, <1>2, GroupIndex
    <2>2. CASE at = 0 \/ to \notin DOMAIN s
        <3>1. moveRuleGroup(rs, id, delta) = rs
            BY <2>2 DEF moveRuleGroup
        <3> QED
            BY <3>1
    <2>3. CASE ~(at = 0 \/ to \notin DOMAIN s)
        <3> HIDE DEF at
        <3>1. at \in 1..Len(s) /\ to \in 1..Len(s)
            BY <1>2, <2>1, <2>3
        <3> HIDE DEF to
        <3>2. u \in Seq(L)
            BY <1>2, <3>1
        <3>3. moveRuleGroup(rs, id, delta) = [rs EXCEPT !.ruleGroups[at] = s[to], !.ruleGroups[to] = s[at]]
            BY <2>3 DEF moveRuleGroup, at, to
        <3>4. rs = [rules |-> rs.rules, ruleGroups |-> s, finalRoute |-> rs.finalRoute, knownHosts |-> rs.knownHosts]
            BY DEF RuleSetOK
        <3>5. [rs EXCEPT !.ruleGroups[at] = s[to], !.ruleGroups[to] = s[at]] = [rs EXCEPT !.ruleGroups = u]
            BY <3>4
        <3> HIDE DEF u
        <3>6. RuleSetOK([rs EXCEPT !.ruleGroups = u])
            BY <1>4, <3>2, WithGroups
        <3> QED
            BY <3>3, <3>5, <3>6, Zenon
    <2> QED
        BY <2>2, <2>3
<1> QED
    BY <1>5, <1>6

\* Every edit of rule_ops.go and of the desktop's store yields a rule set.
LEMMA EditedOK ==
    ASSUME NEW rs, RuleSetOK(rs), NEW e, EditOK(e), NEW p
    PROVE  RuleSetOK(Edited(p, e, rs))
<1> DEFINE s == rs.ruleGroups
<1>1. RuleGroupsOK(s)
    BY DEF RuleSetOK
<1>2. s \in Seq(ToSet(s)) /\ Len(s) \in Nat /\ DOMAIN s = 1..Len(s) /\ \A i \in 1..Len(s) : RuleGroupOK(s[i])
    BY <1>1, OfGroups
<1>r. rs = [rules |-> rs.rules, ruleGroups |-> s, finalRoute |-> rs.finalRoute, knownHosts |-> rs.knownHosts]
    BY DEF RuleSetOK
<1>3. CASE e.do = "set"
    <2>1. Edited(p, e, rs) = SetRule(rs, e.host, e.mode)
        BY <1>3 DEF Edited
    <2>2. SetRule(rs, e.host, e.mode) = [rs EXCEPT !.rules = (e.host :> e.mode) @@ rs.rules]
        BY DEF SetRule
    <2> DEFINE x == (e.host :> e.mode) @@ rs.rules
    <2> HIDE DEF x
    <2>3. RuleSetOK([rs EXCEPT !.rules = x])
        BY WithGroups
    <2> QED
        BY <2>1, <2>2, <2>3, Zenon DEF x
<1>4. CASE e.do = "del"
    BY <1>4, WithGroups DEF Edited, DeleteRule
<1>5. CASE e.do = "put"
    <2> DEFINE i == Min(RuleGroupIndex(rs, e.group.id))
               u == [s EXCEPT ![i] = e.group]
    <2>0. RuleGroupOK(e.group)
        BY <1>5 DEF EditOK
    <2>1. CASE RuleGroupIndex(rs, e.group.id) = {}
        <3> DEFINE v == Append(s, e.group)
                   L == ToSet(s) \union {e.group}
        <3>0. s \in Seq(L) /\ e.group \in L
            BY <1>2
        <3> HIDE DEF L
        <3>1. v \in Seq(L) /\ \A j \in 1..Len(v) : v[j] = e.group \/ (j \in 1..Len(s) /\ v[j] = s[j])
            BY <1>2, <3>0
        <3> HIDE DEF v
        <3>2. RuleGroupsOK(v)
            BY <1>2, <2>0, <3>1, GroupsOf
        <3>3. Edited(p, e, rs) = [rs EXCEPT !.ruleGroups = v]
            BY <1>5, <2>1 DEF Edited, SaveRuleGroup, v
        <3>4. RuleSetOK([rs EXCEPT !.ruleGroups = v])
            BY <3>2, WithGroups
        <3> QED
            BY <3>3, <3>4, Zenon
    <2>2. CASE RuleGroupIndex(rs, e.group.id) # {}
        <3> DEFINE L == ToSet(s) \union {e.group}
        <3>0. s \in Seq(L) /\ e.group \in L
            BY <1>2
        <3>1. i \in 1..Len(s)
            BY <1>1, <1>2, <2>2, GroupIndex
        <3> HIDE DEF i, L
        <3>2. u \in Seq(L) /\ \A j \in 1..Len(u) : u[j] = e.group \/ (j \in 1..Len(s) /\ u[j] = s[j])
            BY <1>2, <3>0, <3>1
        <3>3. RuleGroupsOK(u)
            <4> HIDE DEF u
            <4> QED
                BY <1>2, <2>0, <3>2, GroupsOf
        <3>4. Edited(p, e, rs) = [rs EXCEPT !.ruleGroups[i] = e.group]
            BY <1>5, <2>2 DEF Edited, SaveRuleGroup, i
        <3>5. [rs EXCEPT !.ruleGroups[i] = e.group] = [rs EXCEPT !.ruleGroups = u]
            BY <1>r
        <3> HIDE DEF u
        <3>6. RuleSetOK([rs EXCEPT !.ruleGroups = u])
            BY <3>3, WithGroups
        <3> QED
            BY <3>4, <3>5, <3>6, Zenon
    <2> QED
        BY <2>1, <2>2
<1>6. CASE e.do = "drop"
    <2> DEFINE I == {i \in DOMAIN s : s[i].id # e.id}
               u == SubSeqAt(s, I)
    <2>0. I \in SUBSET DOMAIN s
        OBVIOUS
    <2>1. /\ u \in Seq(ToSet(s)) /\ \A k \in 1..Len(u) : \E i \in I : u[k] = s[i]
        <3> DEFINE L == ToSet(s)
        <3>1. s \in Seq(L)
            BY <1>2
        <3> HIDE DEF L, I
        <3>2. /\ u \in Seq(L) /\ Len(u) = Cardinality(I)
              /\ \A k \in 1..Cardinality(I) : \E i \in I : u[k] = s[i]
            BY <2>0, <3>1, SubSeqType
        <3> QED
            BY <3>2 DEF L
    <2>2. \A k \in 1..Len(u) : RuleGroupOK(u[k])
        BY <1>2, <2>1
    <2>3. Edited(p, e, rs) = [rs EXCEPT !.ruleGroups = u]
        BY <1>6, <1>r DEF Edited, DeleteRuleGroup
    <2> HIDE DEF u
    <2>4. RuleGroupsOK(u)
        BY <2>1, <2>2, GroupsOf
    <2>5. RuleSetOK([rs EXCEPT !.ruleGroups = u])
        BY <2>4, WithGroups
    <2> QED
        BY <2>3, <2>5, Zenon
<1>7. CASE e.do = "move"
    <2>1. e.delta \in Int
        BY <1>7 DEF EditOK
    <2> QED
        BY <1>7, <2>1, MovedGroup DEF Edited
<1>8. CASE e.do = "final"
    <2>1. NormalizeFinalRoute(e.mode) \in {"direct", "tunnel"}
        BY DEF NormalizeFinalRoute
    <2> QED
        BY <1>8, <2>1, WithGroups DEF Edited, SetFinalRoute
<1>9. CASE e.do = "seen"
    <2>1. Edited(p, e, rs) = RecordKnownHosts(rs, <<e.host>>)
        BY <1>9 DEF Edited
    <2> DEFINE x == capKnownHosts(rs.knownHosts \o SelectSeq(<<e.host>>, LAMBDA h : h \notin ToSet(rs.knownHosts)))
    <2>2. RecordKnownHosts(rs, <<e.host>>) = [rs EXCEPT !.knownHosts = x]
        BY Zenon DEF RecordKnownHosts
    <2> HIDE DEF x
    <2>3. RuleSetOK([rs EXCEPT !.knownHosts = x])
        BY WithGroups
    <2> QED
        BY <2>1, <2>2, <2>3, Zenon
<1> QED
    BY <1>3, <1>4, <1>5, <1>6, <1>7, <1>8, <1>9 DEF EditOK

-----------------------------------------------------------------------------
\* A sequence whose elements are in a smaller set.
LEMMA Narrow ==
    ASSUME NEW S, NEW s \in Seq(S), NEW U, \A i \in 1..Len(s) : s[i] \in U
    PROVE  s \in Seq(U)
<1>1. s \in [1..Len(s) -> U] /\ Len(s) \in Nat
    OBVIOUS
<1> QED
    BY <1>1

\* The order of a merge lists group files, the active one apart.
LEMMA Orders ==
    ASSUME NEW gs, NEW active
    PROVE  /\ Others(gs, active) \in Seq(DOMAIN gs) /\ ActiveOf(gs, active) \in Seq(DOMAIN gs)
           /\ \A k \in 1..Len(Others(gs, active)) : Others(gs, active)[k] # active
<1> DEFINE I == {i \in DOMAIN GroupIds : GroupIds[i] \in DOMAIN gs \ {active}}
           u == SubSeqAt(GroupIds, I)
<1>1. GroupIds \in Seq(STRING) /\ I \in SUBSET DOMAIN GroupIds /\ \A i \in I : GroupIds[i] \in DOMAIN gs \ {active}
    BY RuleSetsAssumption
<1> HIDE DEF I
<1>2. u \in Seq(STRING) /\ Len(u) = Cardinality(I) /\ \A k \in 1..Cardinality(I) : \E i \in I : u[k] = GroupIds[i]
    BY <1>1, SubSeqType
<1> HIDE DEF u
<1>3. \A k \in 1..Len(u) : u[k] \in DOMAIN gs \ {active}
    BY <1>1, <1>2
<1>4. u \in Seq(DOMAIN gs)
    BY <1>2, <1>3, Narrow
<1>5. Others(gs, active) = u
    BY DEF Others, u, I
<1>6. ActiveOf(gs, active) \in Seq(DOMAIN gs)
    <2>1. CASE active \in DOMAIN gs
        <3>1. <<active>> \in Seq(DOMAIN gs)
            BY <2>1
        <3> QED
            BY <2>1, <3>1 DEF ActiveOf
    <2>2. CASE active \notin DOMAIN gs
        BY <2>2 DEF ActiveOf
    <2> QED
        BY <2>1, <2>2
<1> QED
    BY <1>3, <1>4, <1>5, <1>6

\* FirstOfEach keeps elements.
LEMMA FirstsType ==
    ASSUME NEW S, NEW s \in Seq(S), NEW keys
    PROVE  FirstOfEach(s, keys) \in Seq(S)
<1> DEFINE I == {i \in DOMAIN s : \A j \in 1 .. i - 1 : keys[j] # keys[i]}
<1>1. I \in SUBSET DOMAIN s
    OBVIOUS
<1> HIDE DEF I
<1>2. SubSeqAt(s, I) \in Seq(S)
    BY <1>1, SubSeqType
<1> QED
    BY <1>2 DEF FirstOfEach, I

\* The rule groups of some groups, in the order of o.
LEMMA ScopesOK ==
    ASSUME NEW gs, \A g \in DOMAIN gs : RuleGroupsOK(gs[g].ruleGroups), NEW o \in Seq(DOMAIN gs)
    PROVE  RuleGroupsOK(FirstScopes(FlattenSeq([i \in DOMAIN o |-> gs[o[i]].ruleGroups])))
<1> DEFINE L == UNION {ToSet(gs[g].ruleGroups) : g \in DOMAIN gs}
           q == [i \in DOMAIN o |-> gs[o[i]].ruleGroups]
           f == FlattenSeq(q)
<1>1. \A x \in L : RuleGroupOK(x)
    BY DEF RuleGroupsOK
<1>2. ASSUME NEW g \in DOMAIN gs PROVE gs[g].ruleGroups \in Seq(L)
    <2>1. gs[g].ruleGroups \in Seq(ToSet(gs[g].ruleGroups)) /\ ToSet(gs[g].ruleGroups) \subseteq L
        BY OfGroups
    <2> HIDE DEF L
    <2> QED
        BY <2>1
<1> HIDE DEF L
<1>3. q \in Seq(Seq(L))
    <2>1. DOMAIN o = 1..Len(o) /\ Len(o) \in Nat /\ \A i \in 1..Len(o) : o[i] \in DOMAIN gs
        OBVIOUS
    <2>2. q \in [1..Len(o) -> Seq(L)]
        BY <1>2, <2>1
    <2> HIDE DEF q
    <2> QED
        BY <2>1, <2>2
<1> HIDE DEF q
<1>4. f \in Seq(L)
    BY <1>3, Flattened
<1> HIDE DEF f
<1>5. FirstScopes(f) \in Seq(L)
    BY <1>4, FirstsType DEF FirstScopes
<1>6. RuleGroupsOK(FirstScopes(f))
    <2> DEFINE u == FirstScopes(f)
    <2> HIDE DEF u
    <2>1. u \in Seq(L)
        BY <1>5 DEF u
    <2>2. \A i \in 1..Len(u) : RuleGroupOK(u[i])
        BY <1>1, <2>1
    <2>3. RuleGroupsOK(u)
        BY <2>1, <2>2, GroupsOf
    <2> QED
        BY <2>3 DEF u
<1> QED
    BY <1>6 DEF f, q

\* The merge of migrateRules and that of merge_legacy_groups yield rule sets.
LEMMA MergedOK ==
    ASSUME NEW gs, \A g \in DOMAIN gs : RuleGroupsOK(gs[g].ruleGroups), NEW active
    PROVE  RuleSetOK(normalize(migrateRules(gs, active))) /\ RuleSetOK(normalize(merge_legacy_groups(gs, active)))
<1> DEFINE o == ActiveOf(gs, active) \o Others(gs, active)
           scopes == FirstScopes(FlattenSeq([i \in DOMAIN o |-> gs[o[i]].ruleGroups]))
<1>1. o \in Seq(DOMAIN gs)
    <2>1. ActiveOf(gs, active) \in Seq(DOMAIN gs) /\ Others(gs, active) \in Seq(DOMAIN gs)
        BY Orders
    <2> QED
        BY <2>1
<1>2. RuleGroupsOK(scopes)
    <2> HIDE DEF o
    <2> QED
        BY <1>1, ScopesOK
<1>3. \E x, y, z : migrateRules(gs, active) = [rules |-> x, ruleGroups |-> scopes, finalRoute |-> y, knownHosts |-> z]
    <2> HIDE DEF scopes
    <2> QED
        BY DEF migrateRules, scopes
<1>4. \E x, y, z : merge_legacy_groups(gs, active) = [rules |-> x, ruleGroups |-> scopes, finalRoute |-> y, knownHosts |-> z]
    <2> HIDE DEF scopes
    <2> QED
        BY DEF merge_legacy_groups, scopes
<1> HIDE DEF scopes
<1>5. ASSUME NEW x, NEW y, NEW z
      PROVE  RuleSetOK(normalize([rules |-> x, ruleGroups |-> scopes, finalRoute |-> y, knownHosts |-> z]))
    <2>1. NormalizeFinalRoute(y) \in {"direct", "tunnel"}
        BY DEF NormalizeFinalRoute
    <2> DEFINE r == [rules |-> x, ruleGroups |-> scopes, finalRoute |-> y, knownHosts |-> z]
    <2>2. normalize(r) = [rules |-> x, ruleGroups |-> scopes, finalRoute |-> NormalizeFinalRoute(y),
                          knownHosts |-> capKnownHosts(z)]
        BY DEF normalize
    <2> HIDE DEF r
    <2> QED
        BY <1>2, <2>1, <2>2 DEF RuleSetOK, r
<1> QED
    BY <1>3, <1>4, <1>5

---------------------------------------------------------------------------
(* The types of the store, and the phases that keep them                   *)
\* What a program still has to do in its operation.
Phases ==
    [do : {"migrate", "loadRules", "listGroups", "load", "fetch", "rename"}, arg : {0}]
    \cup [do : {"settings", "adopt"}, arg : Settings]
    \cup [do : {"default"}, arg : SUBSET Profiles]
    \cup [do : {"upsert", "remove", "attach", "detach"}, arg : Profiles]
    \cup [do : {"newGroup", "deleteGroup"}, arg : Groups]
    \cup [do : {"renameLoaded"}, arg : [group : Groups, kids : SUBSET Profiles]]
    \cup [do : {"editRules"}, arg : Edits]
    \cup [do : {"putSettings"}, arg : {1}]
    \cup [do : {"priority"}, arg : {<<"a", "com">>} \X {3, 5}]

\* What a file may hold.
ValueOK(file, val) ==
    /\ file \in Files
    /\ file = "rules" => RuleSetOK(val)
    /\ file = "profiles" => val \subseteq Profiles
    /\ file = "settings" => val \in Settings
    /\ file \in Groups => val = Absent \/ FileOK(val)

\* A write that is prepared.
WriteOK(w) ==
    /\ w = [file |-> w.file, val |-> w.val, why |-> w.why, torn |-> w.torn]
    /\ ValueOK(w.file, w.val)

\* What a program has in memory.
MemOK(m) ==
    /\ m = [rules |-> m.rules, settings |-> m.settings, groups |-> m.groups]
    /\ RuleSetOK(m.rules) /\ m.settings \in Settings
    /\ DOMAIN m.groups \subseteq Groups
    /\ \A g \in DOMAIN m.groups : m.groups[g] \subseteq Profiles

\* The types of the store and of the programs' states.
StoreTypes ==
    /\ DiskOK(disk)
    /\ up = [p \in Programs |-> up[p]]
    /\ todo \in [Programs -> Seq(Phases)]
    /\ buf = [p \in Programs |-> buf[p]]
    /\ \A p \in Programs : buf[p] = <<>> \/ \E w : buf[p] = <<w>> /\ WriteOK(w)
    /\ mem = [p \in Programs |-> mem[p]]
    /\ \A p \in Programs : MemOK(mem[p])

-----------------------------------------------------------------------------

\* Writing a value of a file's type.
LEMMA DiskPut ==
    ASSUME NEW d, DiskOK(d), NEW file, NEW val, ValueOK(file, val)
    PROVE  DiskOK([d EXCEPT ![file] = val])
<1> DEFINE e == [d EXCEPT ![file] = val]
<1>1. d = [f \in Files |-> d[f]] /\ file \in Files
    BY DEF DiskOK, ValueOK
<1>2. e = [f \in Files |-> IF f = file THEN val ELSE d[f]]
    BY <1>1
<1>3. e = [f \in Files |-> e[f]] /\ \A f \in Files : e[f] = IF f = file THEN val ELSE d[f]
    BY <1>2
<1>4. "profiles" \in Files /\ "settings" \in Files /\ "rules" \in Files /\ \A g \in Groups : g \in Files
    BY DEF Files
<1> HIDE DEF e
<1>5. e["profiles"] \subseteq Profiles /\ e["settings"] \in Settings
    BY <1>3, <1>4 DEF DiskOK, ValueOK
<1>6. e["rules"] = Absent \/ RuleSetOK(e["rules"])
    BY <1>3, <1>4 DEF DiskOK, ValueOK
<1>7. \A g \in Groups : e[g] = Absent \/ FileOK(e[g])
    BY <1>3, <1>4 DEF DiskOK, ValueOK
<1>8. DiskOK(e)
    BY <1>3, <1>5, <1>6, <1>7 DEF DiskOK
<1> QED
    BY <1>8 DEF e

\* The initial disks and programs have the types.
LEMMA StartsOK == Init => StoreTypes
<1> SUFFICES ASSUME Init PROVE StoreTypes
    OBVIOUS
<1>1. DiskOK(disk)
    BY StoreAssumption DEF Init
<1>2. \A p \in Programs : mem[p] = NoMem /\ buf[p] = <<>> /\ todo[p] = <<>>
    BY DEF Init
<1>3. MemOK(NoMem)
    <2>1. RuleSetOK(EmptyRuleSet)
        <3>1. RuleGroupsOK(<<>>)
            <4>1. <<>> \in Seq({}) /\ \A i \in 1..Len(<<>>) : RuleGroupOK(<<>>[i])
                OBVIOUS
            <4> QED
                BY <4>1, GroupsOf
        <3> QED
            BY <3>1 DEF EmptyRuleSet, RuleSetOK
    <2>2. [active |-> "", lan |-> 0] \in Settings
        BY DEF Settings
    <2>3. DOMAIN <<>> = {}
        OBVIOUS
    <2> DEFINE m == NoMem
    <2>4. /\ m.rules = EmptyRuleSet /\ m.settings = [active |-> "", lan |-> 0] /\ m.groups = <<>>
          /\ m = [rules |-> m.rules, settings |-> m.settings, groups |-> m.groups]
        BY DEF NoMem
    <2> HIDE DEF m
    <2>5. MemOK(m)
        BY <2>1, <2>2, <2>3, <2>4 DEF MemOK
    <2> QED
        BY <2>5 DEF m
<1>4. todo \in [Programs -> Seq(Phases)] /\ buf = [p \in Programs |-> buf[p]] /\ mem = [p \in Programs |-> mem[p]]
      /\ up = [p \in Programs |-> up[p]]
    BY DEF Init
<1> QED
    BY <1>1, <1>2, <1>3, <1>4 DEF StoreTypes

\* What a phase under way may be.
LEMMA HeadOK ==
    ASSUME StoreTypes, NEW p \in Programs, NEW do, Doing(p, do)
    PROVE  /\ todo[p] \in Seq(Phases) /\ todo[p] # <<>> /\ Head(todo[p]) \in Phases /\ Tail(todo[p]) \in Seq(Phases)
           /\ Head(todo[p]).do = do /\ buf[p] = <<>>
           /\ do \in {"settings", "adopt"} => Arg(p) \in Settings
           /\ do = "default" => Arg(p) \subseteq Profiles
           /\ do \in {"upsert", "remove", "attach", "detach"} => Arg(p) \in Profiles
           /\ do \in {"newGroup", "deleteGroup"} => Arg(p) \in Groups
           /\ do = "renameLoaded" => Arg(p).group \in Groups /\ Arg(p).kids \subseteq Profiles
           /\ do = "editRules" => Arg(p) \in Edits
           /\ do = "putSettings" => Arg(p) = 1
<1>1. todo[p] \in Seq(Phases) /\ todo[p] # <<>> /\ Head(todo[p]).do = do /\ buf[p] = <<>>
    BY DEF Doing, StoreTypes
<1>2. Head(todo[p]) \in Phases /\ Tail(todo[p]) \in Seq(Phases)
    BY <1>1
<1> DEFINE h == Head(todo[p])
<1> HIDE DEF h
<1>3. h \in Phases /\ h.do = do
    BY <1>1, <1>2 DEF h
<1>4. /\ do \in {"settings", "adopt"} => h.arg \in Settings
      /\ do = "default" => h.arg \subseteq Profiles
      /\ do \in {"upsert", "remove", "attach", "detach"} => h.arg \in Profiles
      /\ do \in {"newGroup", "deleteGroup"} => h.arg \in Groups
      /\ do = "renameLoaded" => h.arg.group \in Groups /\ h.arg.kids \subseteq Profiles
      /\ do = "editRules" => h.arg \in Edits
      /\ do = "putSettings" => h.arg = 1
    BY <1>3 DEF Phases
<1> QED
    BY <1>1, <1>2, <1>4 DEF Arg, h

\* Another list of phases for one program.
LEMMA TodoPut ==
    ASSUME StoreTypes, NEW p \in Programs, NEW rest \in Seq(Phases),
           todo' = [todo EXCEPT ![p] = rest]
    PROVE  todo' \in [Programs -> Seq(Phases)]
BY DEF StoreTypes

\* Preparing a write of a value of the file's type.
LEMMA WriteKeeps ==
    ASSUME StoreTypes, NEW p \in Programs, NEW file, NEW val, NEW why, NEW rest \in Seq(Phases),
           ValueOK(file, val), Write(p, file, val, why, rest)
    PROVE  StoreTypes'
<1> DEFINE w == [file |-> file, val |-> val, why |-> why, torn |-> FALSE]
<1>1. WriteOK(w)
    BY DEF WriteOK
<1> HIDE DEF w
<1>2. buf' = [buf EXCEPT ![p] = <<w>>] /\ todo' = [todo EXCEPT ![p] = rest] /\ UNCHANGED <<disk, mem, up>>
    BY DEF Write, w
<1>3. buf' = [q \in Programs |-> buf'[q]] /\ \A q \in Programs : buf'[q] = IF q = p THEN <<w>> ELSE buf[q]
    BY <1>2 DEF StoreTypes
<1>4. \A q \in Programs : buf'[q] = <<>> \/ \E x : buf'[q] = <<x>> /\ WriteOK(x)
    BY <1>1, <1>3 DEF StoreTypes
<1>5. todo' \in [Programs -> Seq(Phases)]
    BY <1>2, TodoPut
<1> QED
    BY <1>2, <1>3, <1>4, <1>5 DEF StoreTypes

\* Skipping a phase.
LEMMA SkipKeeps ==
    ASSUME StoreTypes, NEW p \in Programs, NEW do, Doing(p, do), Skip(p)
    PROVE  StoreTypes'
<1>1. Tail(todo[p]) \in Seq(Phases)
    BY HeadOK
<1>2. todo' = [todo EXCEPT ![p] = Tail(todo[p])] /\ UNCHANGED <<disk, buf, mem, up>>
    BY DEF Skip
<1>3. todo' \in [Programs -> Seq(Phases)]
    BY <1>1, <1>2, TodoPut
<1> QED
    BY <1>2, <1>3 DEF StoreTypes

\* The phases that operations are made of.
LEMMA LoadsOK ==
    /\ \A do \in {"migrate", "loadRules", "listGroups", "load", "fetch", "rename"} : Phase(do, 0) \in Phases
    /\ \A do \in {"settings", "adopt"}, s \in Settings : Phase(do, s) \in Phases
    /\ \A do \in {"upsert", "remove", "attach", "detach"}, x \in Profiles : Phase(do, x) \in Phases
    /\ \A do \in {"newGroup", "deleteGroup"}, g \in Groups : Phase(do, g) \in Phases
    /\ \A ps \in SUBSET Profiles : Phase("default", ps) \in Phases
    /\ \A e \in Edits : Phase("editRules", e) \in Phases
    /\ LoadPhases \in Seq(Phases)
<1>1. \A do \in {"migrate", "loadRules", "listGroups", "load", "fetch", "rename"} : Phase(do, 0) \in Phases
    BY DEF Phase, Phases
<1>2. \A do \in {"settings", "adopt"}, s \in Settings : Phase(do, s) \in Phases
    BY DEF Phase, Phases
<1>3. \A do \in {"upsert", "remove", "attach", "detach"}, x \in Profiles : Phase(do, x) \in Phases
    BY DEF Phase, Phases
<1>4. \A do \in {"newGroup", "deleteGroup"}, g \in Groups : Phase(do, g) \in Phases
    BY DEF Phase, Phases
<1>5. \A ps \in SUBSET Profiles : Phase("default", ps) \in Phases
    BY DEF Phase, Phases
<1>6. \A e \in Edits : Phase("editRules", e) \in Phases
    BY DEF Phase, Phases
<1>7. LoadPhases \in Seq(Phases)
    BY <1>1 DEF LoadPhases
<1> QED
    BY <1>1, <1>2, <1>3, <1>4, <1>5, <1>6, <1>7

\* Beginning an operation.
LEMMA BeginKeeps ==
    ASSUME StoreTypes, NEW p \in Programs, NEW phases \in Seq(Phases), Begin(p, phases)
    PROVE  StoreTypes'
<1> DEFINE rest == phases \o (IF p = "tui" THEN LoadPhases ELSE <<Phase("listGroups", 0), Phase("fetch", 0)>>)
<1>1. rest \in Seq(Phases)
    BY LoadsOK
<1>2. todo' = [todo EXCEPT ![p] = rest] /\ UNCHANGED <<disk, buf, mem, up>>
    BY DEF Begin
<1> HIDE DEF rest
<1>3. todo' \in [Programs -> Seq(Phases)]
    BY <1>1, <1>2, TodoPut
<1> QED
    BY <1>2, <1>3 DEF StoreTypes

\* What the migrations read is lists of rule groups.
LEMMA RawOK ==
    ASSUME NEW d, DiskOK(d)
    PROVE  /\ \A g \in DOMAIN RawGroups(d) : RuleGroupsOK(RawGroups(d)[g].ruleGroups)
           /\ \A g \in DOMAIN WithRoutes(d) : RuleGroupsOK(WithRoutes(d)[g].ruleGroups)
<1>0. RuleGroupsOK(<<>>)
    <2>1. <<>> \in Seq({}) /\ \A i \in 1..Len(<<>>) : RuleGroupOK(<<>>[i])
        OBVIOUS
    <2> QED
        BY <2>1, GroupsOf
<1>1. NoLegacyRules.ruleGroups = <<>> /\ RoutesAsGroup(d, "none").ruleGroups = <<>>
    BY DEF NoLegacyRules, RoutesAsGroup
<1>2. ASSUME NEW g \in DOMAIN RawGroups(d) PROVE RuleGroupsOK(RawGroups(d)[g].ruleGroups)
    <2>1. g \in Groups /\ d[g] # Absent /\ RawGroups(d)[g] = IF d[g].carried = Absent THEN NoLegacyRules ELSE d[g].carried
        BY DEF RawGroups
    <2>2. FileOK(d[g])
        BY <2>1 DEF DiskOK
    <2> QED
        BY <1>0, <1>1, <2>1, <2>2 DEF FileOK
<1>3. ASSUME NEW g \in DOMAIN WithRoutes(d) PROVE RuleGroupsOK(WithRoutes(d)[g].ruleGroups)
    <2>1. /\ g \in DOMAIN RawGroups(d) \cup {DefaultGroup}
          /\ WithRoutes(d)[g] = IF g = DefaultGroup THEN RoutesAsGroup(d, "none") ELSE RawGroups(d)[g]
        BY DEF WithRoutes
    <2> QED
        BY <1>0, <1>1, <1>2, <2>1
<1> QED
    BY <1>2, <1>3

\* What ensureRulesMigrated writes is a rule set.
LEMMA MigratedOK ==
    ASSUME DiskOK(disk), NEW p
    PROVE  RuleSetOK(normalize(Migrated(p)))
<1>1. \A g \in DOMAIN RawGroups(disk) : RuleGroupsOK(RawGroups(disk)[g].ruleGroups)
    BY RawOK
<1> QED
    BY <1>1, MergedOK DEF Migrated

\* Preparing the migrated rules.
LEMMA RulesWritten ==
    ASSUME StoreTypes, NEW p \in Programs, NEW why, NEW rest \in Seq(Phases),
           Write(p, "rules", normalize(Migrated(p)), why, rest)
    PROVE  StoreTypes'
<1>1. RuleSetOK(normalize(Migrated(p)))
    BY MigratedOK DEF StoreTypes
<1>2. ValueOK("rules", normalize(Migrated(p)))
    BY <1>1, StoreAssumption DEF ValueOK, Files
<1> QED
    BY <1>2, WriteKeeps

\* SaveGroup, which migrates the rules of the group file first.
LEMMA SavingKeeps ==
    ASSUME StoreTypes, NEW p \in Programs, NEW g \in Groups, NEW kids \in SUBSET Profiles, NEW why,
           NEW rest \in Seq(Phases), SaveGroup(p, g, kids, why, rest)
    PROVE  StoreTypes'
<1>1. CASE disk["rules"] = Absent
    <2>1. Write(p, "rules", normalize(Migrated(p)), [do |-> "migrate"], todo[p])
        BY <1>1 DEF SaveGroup
    <2>2. todo[p] \in Seq(Phases)
        BY DEF StoreTypes
    <2> QED
        BY <2>1, <2>2, RulesWritten
<1>2. CASE disk["rules"] # Absent
    <2>1. Write(p, g, marshalForDisk(kids), why, rest)
        BY <1>2 DEF SaveGroup
    <2>2. ValueOK(g, marshalForDisk(kids))
        BY StoreAssumption DEF ValueOK, Files, FileOK, marshalForDisk
    <2> QED
        BY <2>1, <2>2, WriteKeeps
<1> QED
    BY <1>1, <1>2

\* The children of a group are profiles.
LEMMA LegacyKids ==
    ASSUME DiskOK(disk), NEW g \in Groups, disk[g] # Absent
    PROVE  NormalizeLegacy(disk[g]) \in SUBSET Profiles
BY DEF DiskOK, FileOK, NormalizeLegacy

\* LoadRules.
LEMMA LoadRulesKeeps ==
    ASSUME StoreTypes, NEW p \in Programs, LoadRules(p)
    PROVE  StoreTypes'
<1>1. Doing(p, "loadRules") /\ Tail(todo[p]) \in Seq(Phases)
    BY HeadOK DEF LoadRules
<1>2. CASE disk["rules"] = Absent
    BY <1>1, <1>2, RulesWritten DEF LoadRules
<1>3. CASE disk["rules"] # Absent
    BY <1>1, <1>3, SkipKeeps DEF LoadRules
<1> QED
    BY <1>2, <1>3

\* DeleteGroup.
LEMMA DeleteGroupKeeps ==
    ASSUME StoreTypes, NEW p \in Programs, DeleteGroup(p)
    PROVE  StoreTypes'
<1>1. /\ Doing(p, "deleteGroup") /\ Tail(todo[p]) \in Seq(Phases)
      /\ todo[p] \in Seq(Phases) /\ Arg(p) \in Groups
    BY HeadOK DEF DeleteGroup
<1>2. CASE disk["rules"] = Absent
    BY <1>1, <1>2, RulesWritten DEF DeleteGroup
<1>3. CASE disk["rules"] # Absent
    <2>1. ValueOK(Arg(p), Absent)
        BY <1>1, StoreAssumption DEF ValueOK, Files
    <2> QED
        BY <1>1, <1>3, <2>1, WriteKeeps DEF DeleteGroup
<1> QED
    BY <1>2, <1>3

\* ListGroups, with the group it creates when there is none.
LEMMA ListGroupsKeeps ==
    ASSUME StoreTypes, NEW p \in Programs, ListGroups(p)
    PROVE  StoreTypes'
<1> DEFINE old == {g \in GroupFiles : disk[g].legacyKids # {}}
<1>1. Doing(p, "listGroups")
    BY DEF ListGroups
<1>2. CASE old = {}
    BY <1>1, <1>2, SkipKeeps DEF ListGroups
<1>3. CASE old # {}
    <2>1. PICK g \in old : SaveGroup(p, g, NormalizeLegacy(disk[g]), [do |-> "normalize"], todo[p])
        BY <1>3 DEF ListGroups
    <2>2. g \in Groups /\ disk[g] # Absent
        BY DEF GroupFiles
    <2>3. NormalizeLegacy(disk[g]) \in SUBSET Profiles /\ todo[p] \in Seq(Phases)
        BY <2>2, LegacyKids DEF StoreTypes
    <2> QED
        BY <2>1, <2>2, <2>3, SavingKeeps
<1> QED
    BY <1>2, <1>3

\* The rename, or the second half of fs::write.
LEMMA FlushKeeps ==
    ASSUME StoreTypes, NEW p \in Programs, Flush(p)
    PROVE  StoreTypes'
<1>1. PICK w : buf[p] = <<w>> /\ WriteOK(w)
    BY DEF StoreTypes, Flush
<1>2. disk' = [disk EXCEPT ![w.file] = w.val] /\ buf' = [buf EXCEPT ![p] = <<>>] /\ UNCHANGED <<todo, mem, up>>
    BY <1>1 DEF Flush
<1>3. DiskOK(disk')
    BY <1>1, <1>2, DiskPut DEF StoreTypes, WriteOK
<1>4. buf' = [q \in Programs |-> buf'[q]] /\ \A q \in Programs : buf'[q] = IF q = p THEN <<>> ELSE buf[q]
    BY <1>2 DEF StoreTypes
<1> QED
    BY <1>2, <1>3, <1>4 DEF StoreTypes

\* The first half of fs::write.
LEMMA TruncateKeeps ==
    ASSUME StoreTypes, NEW p \in Programs, Truncate(p)
    PROVE  StoreTypes'
<1>1. PICK w : buf[p] = <<w>> /\ WriteOK(w)
    BY DEF StoreTypes, Truncate
<1> DEFINE v == CASE w.file = "profiles" -> {}
                  [] w.file = "settings" -> NoMem.settings
                  [] OTHER               -> EmptyFile
           x == [w EXCEPT !.torn = TRUE]
<1>2. w.file # "rules" /\ disk' = [disk EXCEPT ![w.file] = v] /\ UNCHANGED <<todo, mem, up>>
    BY <1>1 DEF Truncate
<1>3. buf' = [buf EXCEPT ![p] = <<x>>]
    BY <1>1 DEF Truncate
<1>4. WriteOK(x)
    <2>1. /\ w = [file |-> w.file, val |-> w.val, why |-> w.why, torn |-> w.torn]
          /\ ValueOK(w.file, w.val)
        BY <1>1 DEF WriteOK
    <2>2. x = [file |-> x.file, val |-> x.val, why |-> x.why, torn |-> x.torn] /\ x.file = w.file /\ x.val = w.val
        <3>1. w = [file |-> w.file, val |-> w.val, why |-> w.why, torn |-> w.torn]
            BY <2>1
        <3>2. ASSUME NEW t
              PROVE  LET y == [w EXCEPT !.torn = t]
                     IN  /\ y = [file |-> y.file, val |-> y.val, why |-> y.why, torn |-> y.torn]
                         /\ y.file = w.file /\ y.val = w.val
            BY <3>1
        <3> QED
            BY <3>2
    <2> HIDE DEF x
    <2> QED
        BY <2>1, <2>2 DEF WriteOK
<1>5. ValueOK(w.file, v)
    <2>1. w.file \in Files
        BY <1>1 DEF WriteOK, ValueOK
    <2>2. NoMem.settings \in Settings
        BY DEF NoMem, Settings
    <2>3. FileOK(EmptyFile)
        BY DEF FileOK, EmptyFile
    <2>4. w.file = "profiles" => v = {}
        OBVIOUS
    <2>5. w.file = "settings" => v = NoMem.settings
        OBVIOUS
    <2>6. w.file \in Groups => v = EmptyFile
        BY StoreAssumption
    <2> HIDE DEF v
    <2> QED
        BY <1>2, <2>1, <2>2, <2>3, <2>4, <2>5, <2>6 DEF ValueOK
<1> HIDE DEF v
<1>6. DiskOK(disk')
    BY <1>2, <1>5, DiskPut DEF StoreTypes
<1>7. /\ buf' = [q \in Programs |-> buf'[q]]
      /\ \A q \in Programs : buf'[q] = IF q = p THEN <<x>> ELSE buf[q]
    BY <1>3 DEF StoreTypes
<1> HIDE DEF x
<1>9. \A q \in Programs : buf'[q] = <<>> \/ \E y : buf'[q] = <<y>> /\ WriteOK(y)
    BY <1>4, <1>7 DEF StoreTypes
<1>10. DiskOK(disk)' /\ todo' \in [Programs -> Seq(Phases)] /\ mem' = [q \in Programs |-> mem'[q]]
       /\ (\A q \in Programs : MemOK(mem'[q])) /\ up' = [q \in Programs |-> up'[q]]
    BY <1>2, <1>6 DEF StoreTypes
<1> QED
    BY <1>7, <1>9, <1>10 DEF StoreTypes

---------------------------------------------------------------------------
(* The phases of a launch keep the types                                   *)
\* MigrateV2 of the TUI.
LEMMA MigrateV2Keeps ==
    ASSUME StoreTypes, MigrateV2
    PROVE  StoreTypes'
<1>0. "tui" \in Programs
    BY DEF Programs
<1>1. Doing("tui", "migrate") /\ Tail(todo["tui"]) \in Seq(Phases)
    BY <1>0, HeadOK DEF MigrateV2
<1>2. CASE disk[DefaultGroup] # Absent
    BY <1>0, <1>1, <1>2, SkipKeeps DEF MigrateV2
<1>3. CASE disk[DefaultGroup] = Absent
    <2> DEFINE c == IF disk["rules"] # Absent THEN Absent
                    ELSE RoutesAsGroup(disk, "tunnel")
               v == [kids |-> disk["profiles"], legacyKids |-> {}, blank |-> FALSE, carried |-> c]
               s == [disk["settings"] EXCEPT !.active = DefaultGroup]
               rest == IF disk["settings"].active = "" THEN <<Phase("settings", s)>> \o Tail(todo["tui"])
                       ELSE Tail(todo["tui"])
    <2>1. s \in Settings
        BY StoreAssumption DEF StoreTypes, DiskOK, Settings
    <2> HIDE DEF s
    <2>2. Phase("settings", s) \in Phases
        BY <2>1, LoadsOK
    <2>3. rest \in Seq(Phases)
        <3> DEFINE t == Tail(todo["tui"])
                   x == Phase("settings", s)
        <3>1. t \in Seq(Phases) /\ x \in Phases
            BY <1>1, <2>2
        <3> HIDE DEF t, x
        <3>2. <<x>> \o t \in Seq(Phases)
            BY <3>1
        <3> QED
            BY <3>1, <3>2 DEF t, x
    <2> HIDE DEF rest
    <2>4. c = Absent \/ RuleGroupsOK(c.ruleGroups)
        <3>1. RuleGroupsOK(<<>>)
            <4>1. <<>> \in Seq({}) /\ \A i \in 1..Len(<<>>) : RuleGroupOK(<<>>[i])
                OBVIOUS
            <4> QED
                BY <4>1, GroupsOf
        <3>2. RoutesAsGroup(disk, "tunnel").ruleGroups = <<>>
            BY DEF RoutesAsGroup
        <3> QED
            BY <3>1, <3>2
    <2> HIDE DEF c
    <2>5. FileOK(v)
        <3> DEFINE q == disk["profiles"]
        <3>1. q \subseteq Profiles
            BY DEF StoreTypes, DiskOK
        <3> HIDE DEF q
        <3>2. v.kids = q /\ v.legacyKids = {} /\ v.carried = c
            BY DEF q
        <3> HIDE DEF v
        <3> QED
            BY <2>4, <3>1, <3>2 DEF FileOK
    <2> HIDE DEF v
    <2>6. ValueOK(DefaultGroup, v)
        BY <2>5, StoreAssumption DEF ValueOK, Files
    <2>7. Write("tui", DefaultGroup, v, [do |-> "default"], rest)
        BY <1>3, Zenon DEF MigrateV2, v, c, rest, s
    <2> QED
        BY <1>0, <2>3, <2>6, <2>7, WriteKeeps
<1> QED
    BY <1>2, <1>3

\* migrate_v2::run of the desktop.
LEMMA MigrateV2RunKeeps ==
    ASSUME StoreTypes, MigrateV2Run
    PROVE  StoreTypes'
<1> DEFINE active == disk["settings"].active
           act    == IF active = "" THEN DefaultGroup ELSE active
           s      == [disk["settings"] EXCEPT !.active = DefaultGroup]
           rest   == <<Phase("default", disk["profiles"])>>
                     \o (IF active = "" THEN <<Phase("settings", s)>> ELSE <<>>)
                     \o Tail(todo["desk"])
<1>0. "desk" \in Programs
    BY DEF Programs
<1>1. Doing("desk", "migrate") /\ Tail(todo["desk"]) \in Seq(Phases)
    BY <1>0, HeadOK DEF MigrateV2Run
<1>2. rest \in Seq(Phases)
    <2>1. s \in Settings
        BY StoreAssumption DEF StoreTypes, DiskOK, Settings
    <2> HIDE DEF s
    <2>2. Phase("settings", s) \in Phases /\ Phase("default", disk["profiles"]) \in Phases
        BY <2>1, LoadsOK DEF StoreTypes, DiskOK
    <2> DEFINE t == Tail(todo["desk"])
               x == Phase("default", disk["profiles"])
               y == IF active = "" THEN <<Phase("settings", s)>> ELSE <<>>
    <2>3. t \in Seq(Phases) /\ x \in Phases /\ y \in Seq(Phases)
        <3>1. <<Phase("settings", s)>> \in Seq(Phases)
            <4> DEFINE z == Phase("settings", s)
            <4>1. z \in Phases
                BY <2>2
            <4> HIDE DEF z
            <4>2. <<z>> \in Seq(Phases)
                BY <4>1
            <4> QED
                BY <4>2 DEF z
        <3>2. <<>> \in Seq(Phases)
            OBVIOUS
        <3> QED
            BY <1>1, <2>2, <3>1, <3>2
    <2> HIDE DEF t, x, y
    <2>4. <<x>> \o y \o t \in Seq(Phases)
        BY <2>3
    <2> QED
        BY <2>4 DEF t, x, y
<1>3. CASE disk[DefaultGroup] # Absent
    BY <1>0, <1>1, <1>3, SkipKeeps DEF MigrateV2Run
<1>4. CASE disk[DefaultGroup] = Absent /\ disk["rules"] = Absent
    <2> DEFINE v == normalize(merge_legacy_groups(WithRoutes(disk), act))
    <2>1. RuleSetOK(v)
        <3> HIDE DEF act
        <3>1. \A g \in DOMAIN WithRoutes(disk) : RuleGroupsOK(WithRoutes(disk)[g].ruleGroups)
            BY RawOK DEF StoreTypes
        <3> QED
            BY <3>1, MergedOK
    <2>2. Write("desk", "rules", v, [do |-> "migrate"], rest)
        <3> HIDE DEF v, rest
        <3> QED
            BY <1>4 DEF MigrateV2Run, v, rest
    <2> HIDE DEF v, rest
    <2>3. ValueOK("rules", v)
        BY <2>1, StoreAssumption DEF ValueOK, Files
    <2> QED
        BY <1>0, <1>2, <2>2, <2>3, WriteKeeps
<1>5. CASE disk[DefaultGroup] = Absent /\ disk["rules"] # Absent
    <2>1. todo' = [todo EXCEPT !["desk"] = rest] /\ UNCHANGED <<disk, buf, mem, up>>
        BY <1>5 DEF MigrateV2Run
    <2> HIDE DEF rest
    <2>2. todo' \in [Programs -> Seq(Phases)]
        BY <1>0, <1>2, <2>1, TodoPut
    <2> QED
        BY <2>1, <2>2 DEF StoreTypes
<1> QED
    BY <1>3, <1>4, <1>5

\* A step that only puts down what a program keeps in memory.
LEMMA MemKeeps ==
    ASSUME StoreTypes, NEW p \in Programs, NEW m, MemOK(m), mem' = [mem EXCEPT ![p] = m],
           NEW rest \in Seq(Phases), todo' = [todo EXCEPT ![p] = rest], UNCHANGED <<disk, buf>>,
           up' = up \/ up' = [up EXCEPT ![p] = "ready"]
    PROVE  StoreTypes'
<1>1. mem' = [q \in Programs |-> mem'[q]] /\ \A q \in Programs : mem'[q] = IF q = p THEN m ELSE mem[q]
    BY DEF StoreTypes
<1>2. todo' \in [Programs -> Seq(Phases)]
    BY TodoPut
<1>3. up' = [q \in Programs |-> up'[q]]
    BY DEF StoreTypes
<1> QED
    BY <1>1, <1>2, <1>3 DEF StoreTypes

\* The empty rule set, and a program without data.
LEMMA EmptyRuleSetOK == RuleSetOK(EmptyRuleSet) /\ MemOK(NoMem)
<1>1. RuleSetOK(EmptyRuleSet)
    <2>1. RuleGroupsOK(<<>>)
        <3>1. <<>> \in Seq({}) /\ \A i \in 1..Len(<<>>) : RuleGroupOK(<<>>[i])
            OBVIOUS
        <3> QED
            BY <3>1, GroupsOf
    <2> QED
        BY <2>1 DEF EmptyRuleSet, RuleSetOK
<1>2. [active |-> "", lan |-> 0] \in Settings
    BY DEF Settings
<1>3. DOMAIN <<>> = {}
    OBVIOUS
<1> DEFINE m == NoMem
<1>4. /\ m.rules = EmptyRuleSet /\ m.settings = [active |-> "", lan |-> 0] /\ m.groups = <<>>
      /\ m = [rules |-> m.rules, settings |-> m.settings, groups |-> m.groups]
    BY DEF NoMem
<1> HIDE DEF m
<1>5. MemOK(m)
    BY <1>1, <1>2, <1>3, <1>4 DEF MemOK
<1> QED
    BY <1>1, <1>5 DEF m

\* Listing the groups: the children of those that have a file.
LEMMA ListedOK ==
    ASSUME DiskOK(disk)
    PROVE  LET gs == [g \in Listed |-> NormalizeLegacy(disk[g])]
           IN  DOMAIN gs \subseteq Groups /\ \A g \in DOMAIN gs : gs[g] \subseteq Profiles
<1>1. \A g \in Listed : g \in Groups /\ disk[g] # Absent
    BY DEF Listed, GroupFiles
<1>2. \A g \in Listed : NormalizeLegacy(disk[g]) \in SUBSET Profiles
    BY <1>1, LegacyKids
<1> QED
    BY <1>1, <1>2

\* LoadData.
LEMMA LoadDataKeeps ==
    ASSUME StoreTypes, NEW p \in Programs, LoadData(p)
    PROVE  StoreTypes'
<1> DEFINE r == IF disk["rules"] = Absent THEN EmptyRuleSet ELSE disk["rules"]
           gs == [g \in Listed |-> NormalizeLegacy(disk[g])]
           m == [rules |-> r, settings |-> disk["settings"], groups |-> gs]
<1>1. Tail(todo[p]) \in Seq(Phases)
    BY HeadOK DEF LoadData
<1>2. RuleSetOK(r) /\ disk["settings"] \in Settings
    BY EmptyRuleSetOK DEF StoreTypes, DiskOK
<1>3. DOMAIN gs \subseteq Groups /\ \A g \in DOMAIN gs : gs[g] \subseteq Profiles
    BY ListedOK DEF StoreTypes
<1>4. mem' = [mem EXCEPT ![p] = m] /\ todo' = [todo EXCEPT ![p] = Tail(todo[p])] /\ UNCHANGED <<disk, buf>>
      /\ up' = [up EXCEPT ![p] = "ready"]
    BY DEF LoadData
<1> HIDE DEF r, gs
<1>5. m.rules = r /\ m.settings = disk["settings"] /\ m.groups = gs
    OBVIOUS
<1>6. MemOK(m)
    BY <1>2, <1>3, <1>5 DEF MemOK
<1> HIDE DEF m
<1> QED
    BY <1>1, <1>4, <1>6, MemKeeps

\* updateSettings of the desktop.
LEMMA updateSettingsKeeps ==
    ASSUME StoreTypes, updateSettings
    PROVE  StoreTypes'
<1> DEFINE m0 == mem["desk"]
           s == Arg("desk")
           m == [m0 EXCEPT !.settings = s]
<1>0. "desk" \in Programs
    BY DEF Programs
<1>1. Tail(todo["desk"]) \in Seq(Phases) /\ s \in Settings
    BY <1>0, HeadOK DEF updateSettings
<1>2. mem' = [mem EXCEPT !["desk"] = m] /\ todo' = [todo EXCEPT !["desk"] = Tail(todo["desk"])] /\ UNCHANGED <<disk, buf, up>>
    BY DEF updateSettings
<1>3. MemOK(m0)
    BY <1>0 DEF StoreTypes
<1> HIDE DEF m0, s
<1>4. MemOK(m)
    BY <1>1, <1>3 DEF MemOK
<1> HIDE DEF m
<1> QED
    BY <1>0, <1>1, <1>2, <1>4, MemKeeps

\* fetch of the desktop's group store.
LEMMA fetchKeeps ==
    ASSUME StoreTypes, fetch
    PROVE  StoreTypes'
<1> DEFINE m0 == mem["desk"]
           gs == [g \in Listed |-> NormalizeLegacy(disk[g])]
           m == [m0 EXCEPT !.groups = gs]
<1>0. "desk" \in Programs
    BY DEF Programs
<1>1. Tail(todo["desk"]) \in Seq(Phases)
    BY <1>0, HeadOK DEF fetch
<1>2. mem' = [mem EXCEPT !["desk"] = m] /\ todo' = [todo EXCEPT !["desk"] = Tail(todo["desk"])] /\ UNCHANGED <<disk, buf, up>>
    BY DEF fetch
<1>3. MemOK(m0)
    BY <1>0 DEF StoreTypes
<1>4. DOMAIN gs \subseteq Groups /\ \A g \in DOMAIN gs : gs[g] \subseteq Profiles
    BY ListedOK DEF StoreTypes
<1> HIDE DEF m0, gs
<1>5. MemOK(m)
    BY <1>3, <1>4 DEF MemOK
<1> HIDE DEF m
<1> QED
    BY <1>0, <1>1, <1>2, <1>5, MemKeeps

\* Starting and killing a program.
LEMMA RunKeeps ==
    ASSUME StoreTypes, NEW p \in Programs, Run(p) \/ Crash(p)
    PROVE  StoreTypes'
<1>1. CASE Run(p)
    <2>1. <<Phase("migrate", 0)>> \o LoadPhases \in Seq(Phases)
        BY LoadsOK
    <2>2. todo' = [todo EXCEPT ![p] = <<Phase("migrate", 0)>> \o LoadPhases] /\ UNCHANGED <<disk, buf, mem>>
          /\ up' = [up EXCEPT ![p] = "starting"]
        BY <1>1 DEF Run
    <2>3. todo' \in [Programs -> Seq(Phases)]
        BY <2>1, <2>2, TodoPut
    <2>4. up' = [q \in Programs |-> up'[q]]
        BY <2>2 DEF StoreTypes
    <2> QED
        BY <2>2, <2>3, <2>4 DEF StoreTypes
<1>2. CASE Crash(p)
    <2>1. /\ todo' = [todo EXCEPT ![p] = <<>>] /\ buf' = [buf EXCEPT ![p] = <<>>]
          /\ mem' = [mem EXCEPT ![p] = NoMem] /\ disk' = disk
          /\ up' = [up EXCEPT ![p] = "off"]
        BY <1>2 DEF Crash
    <2>2. <<>> \in Seq(Phases)
        OBVIOUS
    <2>3. todo' \in [Programs -> Seq(Phases)]
        BY <2>1, <2>2, TodoPut
    <2>4. /\ buf' = [q \in Programs |-> buf'[q]] /\ \A q \in Programs : buf'[q] = IF q = p THEN <<>> ELSE buf[q]
          /\ mem' = [q \in Programs |-> mem'[q]] /\ \A q \in Programs : mem'[q] = IF q = p THEN NoMem ELSE mem[q]
          /\ up' = [q \in Programs |-> up'[q]]
        BY <2>1 DEF StoreTypes
    <2> QED
        BY <2>1, <2>3, <2>4, EmptyRuleSetOK DEF StoreTypes
<1> QED
    BY <1>1, <1>2

---------------------------------------------------------------------------
(* The operations keep the types; the three routes agree always            *)
\* SetToSeq lists the elements of a finite set.
LEMMA AsSequence ==
    ASSUME NEW T, NEW S \in SUBSET T, IsFiniteSet(S)
    PROVE  SetToSeq(S) \in Seq(T)
<1>1. Cardinality(S) \in Nat /\ ExistsBijection(1..Cardinality(S), S)
    BY FS_CardinalityType
<1>2. PICK f \in [1..Cardinality(S) -> S] : \A a, b \in 1..Cardinality(S) : f[a] = f[b] => a = b
    <2>1. PICK f : f \in Bijection(1..Cardinality(S), S)
        BY <1>1 DEF ExistsBijection
    <2>2. f \in [1..Cardinality(S) -> S] /\ IsInjective(f)
        BY <2>1 DEF Bijection, Injection
    <2> QED
        BY <2>2 DEF IsInjective
<1>3. IsInjective(f)
    BY <1>2 DEF IsInjective
<1>4. SetToSeq(S) \in [1..Cardinality(S) -> S]
    BY <1>3 DEF SetToSeq
<1> DEFINE g == SetToSeq(S)
<1> HIDE DEF g
<1>5. g \in [1..Cardinality(S) -> T]
    BY <1>4 DEF g
<1>6. g \in Seq(T)
    BY <1>1, <1>5
<1> QED
    BY <1>6 DEF g

\* Operations are concatenations of phases.
LEMMA Three ==
    ASSUME NEW S, NEW a \in Seq(S), NEW b \in Seq(S), NEW c \in Seq(S)
    PROVE  a \o b \o c \in Seq(S)
OBVIOUS

\* Lists of one or two phases.
LEMMA Two ==
    ASSUME NEW a \in Phases, NEW b \in Phases
    PROVE  <<a>> \in Seq(Phases) /\ <<a, b>> \in Seq(Phases) /\ \A s \in Seq(Phases) : <<a>> \o s \in Seq(Phases)
OBVIOUS

\* save_settings.
LEMMA SavingOK ==
    ASSUME NEW p, NEW s \in Settings
    PROVE  Saving(p, s) \in Seq(Phases)
<1>1. Phase("settings", s) \in Phases /\ Phase("adopt", s) \in Phases
    BY LoadsOK
<1> QED
    BY <1>1, Two DEF Saving

\* Data.SelectGroup.
LEMMA SelectingOK ==
    ASSUME StoreTypes, NEW p \in Programs, NEW g \in Groups \cup {""}
    PROVE  Selecting(p, g) \in Seq(Phases)
<1>1. mem[p].settings \in Settings
    BY DEF StoreTypes, MemOK
<1>2. [mem[p].settings EXCEPT !.active = g] \in Settings
    BY <1>1 DEF Settings
<1> QED
    BY <1>2, SavingOK DEF Selecting

\* UpsertProfile and RemoveProfile.
LEMMA UpsertKeeps ==
    ASSUME StoreTypes, NEW p \in Programs, UpsertProfile(p) \/ RemoveProfile(p)
    PROVE  StoreTypes'
<1>0. disk["profiles"] \subseteq Profiles
    BY DEF StoreTypes, DiskOK
<1>1. CASE UpsertProfile(p)
    <2>1. Tail(todo[p]) \in Seq(Phases) /\ Arg(p) \in Profiles
        BY <1>1, HeadOK DEF UpsertProfile
    <2>2. ValueOK("profiles", disk["profiles"] \cup {Arg(p)})
        BY <1>0, <2>1, StoreAssumption DEF ValueOK, Files
    <2> QED
        BY <1>1, <2>1, <2>2, WriteKeeps DEF UpsertProfile
<1>2. CASE RemoveProfile(p)
    <2>1. Tail(todo[p]) \in Seq(Phases)
        BY <1>2, HeadOK DEF RemoveProfile
    <2>2. ValueOK("profiles", disk["profiles"] \ {Arg(p)})
        BY <1>0, StoreAssumption DEF ValueOK, Files
    <2> QED
        BY <1>2, <2>1, <2>2, WriteKeeps DEF RemoveProfile
<1> QED
    BY <1>1, <1>2

\* SaveSettings.
LEMMA SaveSettingsKeeps ==
    ASSUME StoreTypes, NEW p \in Programs, SaveSettings(p)
    PROVE  StoreTypes'
<1>1. Tail(todo[p]) \in Seq(Phases) /\ Arg(p) \in Settings
    BY HeadOK DEF SaveSettings
<1>2. ValueOK("settings", Arg(p))
    BY <1>1, StoreAssumption DEF ValueOK, Files
<1> QED
    BY <1>1, <1>2, WriteKeeps DEF SaveSettings

\* add_profile_to_group and remove_profile_from_group, and the TUI's way.
LEMMA EditActiveGroupKeeps ==
    ASSUME StoreTypes, NEW p \in Programs, EditActiveGroup(p)
    PROVE  StoreTypes'
<1>1. PICK do \in {"attach", "detach", "rename"} : Doing(p, do)
    BY DEF EditActiveGroup
<1>2. Tail(todo[p]) \in Seq(Phases) /\ (Head(todo[p]).do = do) /\ (do \in {"attach", "detach"} => Arg(p) \in Profiles)
    BY <1>1, HeadOK
<1> DEFINE kids == NormalizeLegacy(ActiveFile(p))
           next == CASE Head(todo[p]).do = "attach" -> kids \cup {Arg(p)}
                     [] Head(todo[p]).do = "detach" -> kids \ {Arg(p)}
                     [] OTHER -> kids
           g == mem[p].settings.active
<1>3. CASE Skip(p)
    BY <1>1, <1>3, SkipKeeps
<1>4. CASE ~Skip(p)
    <2>1. ActiveFile(p) # Absent /\ SaveGroup(p, g, next, Head(todo[p]), Tail(todo[p]))
        BY <1>4 DEF EditActiveGroup
    <2>2. g # "" /\ ActiveFile(p) = disk[g]
        BY <2>1 DEF ActiveFile
    <2>3. g \in Groups
        BY <2>2 DEF StoreTypes, MemOK, Settings
    <2>4. kids \in SUBSET Profiles
        BY <2>1, <2>2, <2>3, LegacyKids DEF StoreTypes
    <2> HIDE DEF kids
    <2>5. next \in SUBSET Profiles
        BY <1>2, <2>4
    <2> HIDE DEF next, g
    <2> QED
        BY <1>2, <2>1, <2>3, <2>5, SavingKeeps
<1> QED
    BY <1>3, <1>4

\* Creating a group.
LEMMA NewGroupKeeps ==
    ASSUME StoreTypes, NEW p \in Programs, NewGroup(p)
    PROVE  StoreTypes'
<1>1. Tail(todo[p]) \in Seq(Phases) /\ Arg(p) \in Groups
    BY HeadOK DEF NewGroup
<1>2. {} \in SUBSET Profiles
    OBVIOUS
<1> QED
    BY <1>1, <1>2, SavingKeeps DEF NewGroup

\* The desktop's default group and its rename.
LEMMA DeskWritesKeep ==
    ASSUME StoreTypes, WriteDefault \/ RenameLoadedGroup
    PROVE  StoreTypes'
<1>0. "desk" \in Programs
    BY DEF Programs
<1>1. CASE WriteDefault
    <2>1. Tail(todo["desk"]) \in Seq(Phases) /\ Arg("desk") \in SUBSET Profiles
        BY <1>0, <1>1, HeadOK DEF WriteDefault
    <2>2. DefaultGroup \in Groups
        BY StoreAssumption
    <2> QED
        BY <1>0, <1>1, <2>1, <2>2, SavingKeeps DEF WriteDefault
<1>2. CASE RenameLoadedGroup
    <2>1. /\ Tail(todo["desk"]) \in Seq(Phases)
          /\ Arg("desk").group \in Groups /\ Arg("desk").kids \in SUBSET Profiles
        BY <1>0, <1>2, HeadOK DEF RenameLoadedGroup
    <2> QED
        BY <1>0, <1>2, <2>1, SavingKeeps DEF RenameLoadedGroup
<1> QED
    BY <1>1, <1>2

\* SaveRules after an edit.
LEMMA ApplyEditKeeps ==
    ASSUME StoreTypes, NEW p \in Programs, ApplyEdit(p)
    PROVE  StoreTypes'
<1>1. Tail(todo[p]) \in Seq(Phases) /\ Arg(p) \in Edits
    BY HeadOK DEF ApplyEdit
<1>2. RuleSetOK(disk["rules"]) /\ EditOK(Arg(p))
    BY <1>1, StoreAssumption DEF ApplyEdit, StoreTypes, DiskOK
<1>3. RuleSetOK(normalize(Edited(p, Arg(p), disk["rules"])))
    BY <1>2, EditedOK, WithGroups
<1>4. ValueOK("rules", normalize(Edited(p, Arg(p), disk["rules"])))
    BY <1>3, StoreAssumption DEF ValueOK, Files
<1> QED
    BY <1>1, <1>4, WriteKeeps DEF ApplyEdit

\* commit of the desktop's rule store.
LEMMA commitKeeps ==
    ASSUME StoreTypes, NEW e \in Edits, commit(e)
    PROVE  StoreTypes'
<1> DEFINE m0 == mem["desk"]
           next == Edited("desk", e, m0.rules)
           n == normalize(next)
           w == [file |-> "rules", val |-> n,
                 why |-> [do |-> "commit", arg |-> e, base |-> m0.rules], torn |-> FALSE]
           m == [m0 EXCEPT !.rules = next]
<1>0. "desk" \in Programs
    BY DEF Programs
<1>1. MemOK(m0) /\ EditOK(e)
    BY <1>0, StoreAssumption DEF StoreTypes
<1>2. RuleSetOK(next) /\ RuleSetOK(n)
    BY <1>1, EditedOK, WithGroups DEF MemOK
<1>3. mem' = [mem EXCEPT !["desk"] = m] /\ buf' = [buf EXCEPT !["desk"] = <<w>>] /\ UNCHANGED <<disk, todo, up>>
    BY DEF commit
<1> HIDE DEF n
<1>4. WriteOK(w)
    <2> DEFINE why == [do |-> "commit", arg |-> e, base |-> m0.rules]
    <2> HIDE DEF why
    <2>1. ValueOK("rules", n)
        BY <1>2, StoreAssumption DEF ValueOK, Files
    <2>2. w = [file |-> "rules", val |-> n, why |-> why, torn |-> FALSE]
        BY Zenon DEF why
    <2> HIDE DEF w
    <2> QED
        BY <2>1, <2>2 DEF WriteOK
<1> HIDE DEF w, next, m0
<1>5. MemOK(m)
    BY <1>1, <1>2 DEF MemOK
<1> HIDE DEF m
<1>6. /\ mem' = [q \in Programs |-> mem'[q]] /\ \A q \in Programs : mem'[q] = IF q = "desk" THEN m ELSE mem[q]
      /\ buf' = [q \in Programs |-> buf'[q]] /\ \A q \in Programs : buf'[q] = IF q = "desk" THEN <<w>> ELSE buf[q]
    BY <1>3 DEF StoreTypes
<1> QED
    BY <1>3, <1>4, <1>5, <1>6 DEF StoreTypes

\* The writes of the TUI's settings page and of the priorities.
LEMMA PageKeeps ==
    ASSUME StoreTypes, PutSettings \/ SavePriorities
    PROVE  StoreTypes'
<1>0. "tui" \in Programs
    BY DEF Programs
<1>1. CASE PutSettings
    <2>1. Tail(todo["tui"]) \in Seq(Phases) /\ Arg("tui") = 1
        BY <1>0, <1>1, HeadOK DEF PutSettings
    <2>2. [disk["settings"] EXCEPT !.lan = 1] \in Settings
        BY DEF StoreTypes, DiskOK, Settings
    <2>3. ValueOK("settings", [disk["settings"] EXCEPT !.lan = Arg("tui")])
        BY <2>1, <2>2, StoreAssumption DEF ValueOK, Files
    <2> QED
        BY <1>0, <1>1, <2>1, <2>3, WriteKeeps DEF PutSettings
<1>2. CASE SavePriorities
    <2>1. Tail(todo["tui"]) \in Seq(Phases)
        BY <1>0, <1>2, HeadOK DEF SavePriorities
    <2>2. PICK v : Write("tui", "priorities", v, Head(todo["tui"]), Tail(todo["tui"]))
        BY <1>2, Zenon DEF SavePriorities
    <2>3. ValueOK("priorities", v)
        BY StoreAssumption DEF ValueOK, Files
    <2> QED
        BY <1>0, <2>1, <2>2, <2>3, WriteKeeps
<1> QED
    BY <1>1, <1>2

-----------------------------------------------------------------------------

\* Deleting a group and selecting the next one.
LEMMA DeletingKeeps ==
    ASSUME StoreTypes, NEW p \in Programs, NEW g \in Groups, NEW kids \in SUBSET Profiles, Deleting(p, g, kids)
    PROVE  StoreTypes'
<1> DEFINE others == DOMAIN mem[p].groups \ {g}
           R == {Phase("remove", x) : x \in kids}
<1>1. PICK next \in (IF others = {} THEN {""} ELSE others) :
         Begin(p, SetToSeq(R) \o <<Phase("deleteGroup", g)>> \o Selecting(p, next))
    BY Zenon DEF Deleting
<1>2. others \subseteq Groups
    BY DEF StoreTypes, MemOK
<1> HIDE DEF others
<1>3. next \in Groups \cup {""}
    BY <1>1, <1>2
<1>4. Selecting(p, next) \in Seq(Phases)
    BY <1>3, SelectingOK
<1>5. R \in SUBSET Phases /\ IsFiniteSet(R)
    <2>1. IsFiniteSet(kids)
        BY StoreAssumption, FS_Subset
    <2>2. IsFiniteSet(R)
        <3> DEFINE f == [x \in kids |-> Phase("remove", x)]
        <3>1. f \in [kids -> R] /\ \A r \in R : \E x \in kids : f[x] = r
            OBVIOUS
        <3>2. f \in Surjection(kids, R)
            BY <3>1 DEF Surjection
        <3> QED
            BY <2>1, <3>2, FS_Surjection
    <2> QED
        BY <2>2, LoadsOK
<1>6. SetToSeq(R) \in Seq(Phases)
    BY <1>5, AsSequence
<1>7. <<Phase("deleteGroup", g)>> \in Seq(Phases)
    BY LoadsOK, Two
<1> DEFINE a == SetToSeq(R)
           b == <<Phase("deleteGroup", g)>>
           c == Selecting(p, next)
<1> HIDE DEF a, b, c
<1>8. a \in Seq(Phases) /\ b \in Seq(Phases) /\ c \in Seq(Phases) /\ Begin(p, a \o b \o c)
    BY <1>1, <1>4, <1>6, <1>7 DEF a, b, c
<1>9. a \o b \o c \in Seq(Phases)
    BY <1>8, Three
<1> QED
    BY <1>8, <1>9, BeginKeeps

\* The operations on profiles.
LEMMA ProfileOps ==
    ASSUME StoreTypes, NEW x \in Profiles,
           \/ AddProfile(x) \/ UpdateProfile(x) \/ DeleteProfile(x) \/ RemoveFromActiveGroup(x)
           \/ attachNewProfilesToActiveGroup(x) \/ remove_profile_from_group(x) \/ removeProfile(x)
    PROVE  StoreTypes'
<1> DEFINE up1 == Phase("upsert", x)
           att == Phase("attach", x)
           rem == Phase("remove", x)
           det == Phase("detach", x)
<1>1. up1 \in Phases /\ att \in Phases /\ rem \in Phases /\ det \in Phases
    BY LoadsOK
<1>2. \E p \in Programs : Begin(p, <<up1, att>>) \/ Begin(p, <<up1>>) \/ Begin(p, <<rem>>) \/ Begin(p, <<det>>)
    BY DEF AddProfile, UpdateProfile, DeleteProfile, RemoveFromActiveGroup, attachNewProfilesToActiveGroup,
           remove_profile_from_group, removeProfile, Programs
<1> HIDE DEF up1, att, rem, det
<1> QED
    BY <1>1, <1>2, Two, BeginKeeps

\* The operations on groups.
LEMMA GroupOps ==
    ASSUME StoreTypes,
           \/ \E g \in Groups : SelectGroup(g) \/ handleSelectGroup(g)
           \/ RenameActiveGroup \/ CreateGroup \/ DeleteActiveGroup
           \/ handleRenameGroup \/ handleCreateEmptyGroup \/ handleDeleteActiveGroup
    PROVE  StoreTypes'
<1>0. "tui" \in Programs /\ "desk" \in Programs
    BY DEF Programs
<1>d. \A p \in Programs : DOMAIN mem[p].groups \subseteq Groups /\ \A g \in DOMAIN mem[p].groups : mem[p].groups[g] \in SUBSET Profiles
    BY DEF StoreTypes, MemOK
<1>1. ASSUME NEW g \in Groups, SelectGroup(g) \/ handleSelectGroup(g) PROVE StoreTypes'
    <2>1. \E p \in Programs : Begin(p, Selecting(p, g))
        BY <1>0, <1>1 DEF SelectGroup, handleSelectGroup
    <2> QED
        BY <2>1, SelectingOK, BeginKeeps
<1>2. CASE RenameActiveGroup
    <2>1. <<Phase("rename", 0)>> \in Seq(Phases)
        BY LoadsOK, Two
    <2> QED
        BY <1>0, <1>2, <2>1, BeginKeeps DEF RenameActiveGroup
<1>3. CASE CreateGroup \/ handleCreateEmptyGroup
    <2>1. PICK p \in Programs, g \in Groups : Begin(p, <<Phase("newGroup", g)>> \o Selecting(p, g))
        BY <1>0, <1>3 DEF CreateGroup, handleCreateEmptyGroup
    <2> DEFINE a == Phase("newGroup", g)
               c == Selecting(p, g)
    <2>2. a \in Phases /\ c \in Seq(Phases)
        BY LoadsOK, SelectingOK
    <2> HIDE DEF a, c
    <2>3. <<a>> \o c \in Seq(Phases)
        BY <2>2, Two
    <2>4. Begin(p, <<a>> \o c)
        BY <2>1 DEF a, c
    <2> QED
        BY <2>3, <2>4, BeginKeeps
<1>4. CASE DeleteActiveGroup
    <2> DEFINE g == mem["tui"].settings.active
    <2>1. ActiveFile("tui") # Absent /\ Deleting("tui", g, NormalizeLegacy(ActiveFile("tui")))
        BY <1>4 DEF DeleteActiveGroup
    <2>2. g # "" /\ ActiveFile("tui") = disk[g]
        BY <2>1 DEF ActiveFile
    <2>3. g \in Groups
        BY <1>0, <2>2 DEF StoreTypes, MemOK, Settings
    <2>4. NormalizeLegacy(ActiveFile("tui")) \in SUBSET Profiles
        BY <2>1, <2>2, <2>3, LegacyKids DEF StoreTypes
    <2> QED
        BY <1>0, <2>1, <2>3, <2>4, DeletingKeeps
<1>5. CASE handleRenameGroup
    <2> DEFINE g == mem["desk"].settings.active
               ks == mem["desk"].groups[g]
               a == Phase("renameLoaded", [group |-> g, kids |-> ks])
    <2>1. g \in DOMAIN mem["desk"].groups /\ Begin("desk", <<a>>)
        BY <1>5 DEF handleRenameGroup
    <2>2. g \in Groups /\ ks \in SUBSET Profiles
        BY <1>0, <1>d, <2>1
    <2> HIDE DEF g, ks
    <2>3. a \in Phases
        BY <2>2 DEF Phase, Phases
    <2> HIDE DEF a
    <2> QED
        BY <1>0, <2>1, <2>3, Two, BeginKeeps
<1>6. CASE handleDeleteActiveGroup
    <2> DEFINE g == mem["desk"].settings.active
    <2>1. g \in DOMAIN mem["desk"].groups /\ Deleting("desk", g, mem["desk"].groups[g])
        BY <1>6 DEF handleDeleteActiveGroup
    <2> QED
        BY <1>0, <1>d, <2>1, DeletingKeeps
<1> QED
    BY <1>1, <1>2, <1>3, <1>4, <1>5, <1>6

\* The operations on rules, settings and priorities.
LEMMA RuleOps ==
    ASSUME StoreTypes,
           \/ \E e \in Edits : editRules(e) \/ recordObservedHosts(e)
           \/ saveSettingsPage(1)
           \/ \E v \in {3, 5} : SetHostPriority(<<"a", "com">>, v)
    PROVE  StoreTypes'
<1>0. "tui" \in Programs /\ "desk" \in Programs
    BY DEF Programs
<1>1. ASSUME NEW e \in Edits, editRules(e) \/ recordObservedHosts(e) PROVE StoreTypes'
    <2> DEFINE a == Phase("loadRules", 0)
               b == Phase("editRules", e)
    <2>1. a \in Phases /\ b \in Phases /\ Begin("tui", <<a, b>>)
        BY <1>1, LoadsOK DEF editRules, recordObservedHosts
    <2> HIDE DEF a, b
    <2> QED
        BY <1>0, <2>1, Two, BeginKeeps
<1>2. CASE saveSettingsPage(1)
    <2> DEFINE a == Phase("putSettings", 1)
               s == [mem["desk"].settings EXCEPT !.lan = 1]
    <2>1. Begin("tui", <<a>>) \/ Begin("desk", Saving("desk", s))
        BY <1>2 DEF saveSettingsPage
    <2>2. a \in Phases
        BY DEF Phase, Phases
    <2>3. s \in Settings
        <3>1. mem["desk"].settings \in Settings
            BY <1>0 DEF StoreTypes, MemOK
        <3> QED
            BY <3>1 DEF Settings
    <2> HIDE DEF a, s
    <2>4. Saving("desk", s) \in Seq(Phases)
        BY <2>3, SavingOK
    <2> QED
        BY <1>0, <2>1, <2>2, <2>4, Two, BeginKeeps
<1>3. ASSUME NEW v \in {3, 5}, SetHostPriority(<<"a", "com">>, v) PROVE StoreTypes'
    <2> DEFINE a == Phase("priority", <<<<"a", "com">>, v>>)
    <2>1. a \in Phases
        BY DEF Phase, Phases
    <2>2. Begin("tui", <<a>>)
        BY <1>3 DEF SetHostPriority
    <2> HIDE DEF a
    <2> QED
        BY <1>0, <2>1, <2>2, Two, BeginKeeps
<1> QED
    BY <1>1, <1>2, <1>3

\* The types hold always.
LEMMA StoreTyped == Spec => []StoreTypes
<1>1. StoreTypes /\ [Next]_vars => StoreTypes'
    <2>1. CASE UNCHANGED vars
        BY <2>1 DEF vars, StoreTypes
    <2>2. CASE StoreTypes /\ Next
        <3>1. ASSUME NEW p \in Programs, Step(p) PROVE StoreTypes'
            BY <2>2, <3>1, RunKeeps, FlushKeeps, TruncateKeeps, LoadRulesKeeps, ListGroupsKeeps, LoadDataKeeps,
               SaveSettingsKeeps, UpsertKeeps, EditActiveGroupKeeps, NewGroupKeeps, DeleteGroupKeeps,
               ApplyEditKeeps DEF Step
        <3> QED
            BY <2>2, <3>1, MigrateV2Keeps, MigrateV2RunKeeps, DeskWritesKeep, updateSettingsKeeps, fetchKeeps,
               PageKeeps, ProfileOps, GroupOps, RuleOps, commitKeeps DEF Next
    <2> QED
        BY <2>1, <2>2
<1> QED
    BY <1>1, StartsOK, PTL DEF Spec

\* For every rule set that launches, migrations, edits and crashes of the two
\* programs lead to: with overrides whose keys are normal, the tunnel routes a
\* host the way the TUI page shows it, and, for scopes both libraries know as
\* domains, the way the desktop shows it: compileRouteTable and lookup, route of
\* dest_model.go, resolveRoute of ruleGroups.ts.
THEOREM RoutesAgree == Spec => []RouteShown
<1>1. StoreTypes => RouteShown
    <2> SUFFICES ASSUME StoreTypes PROVE RouteShown
        OBVIOUS
    <2> DEFINE rs == RulesInForce(disk)
    <2>1. RuleSetOK(rs)
        <3>1. CASE disk["rules"] # Absent
            BY <3>1 DEF RulesInForce, StoreTypes, DiskOK
        <3>2. CASE disk["rules"] = Absent
            <4> DEFINE active == IF disk["settings"].active = "" THEN DefaultGroup ELSE disk["settings"].active
                       files == IF disk[DefaultGroup] = Absent THEN WithRoutes(disk) ELSE RawGroups(disk)
            <4>1. \A g \in DOMAIN files : RuleGroupsOK(files[g].ruleGroups)
                BY RawOK DEF StoreTypes
            <4>2. rs = normalize(merge_legacy_groups(files, active))
                BY <3>2 DEF RulesInForce
            <4> HIDE DEF files, active
            <4> QED
                BY <4>1, <4>2, MergedOK
        <3> QED
            BY <3>1, <3>2
    <2> HIDE DEF rs
    <2>2. PlainRules(rs) => \A h \in Hosts :
              /\ h = normalizeHost(h) => TunnelRoutes(rs, h) = {route(rs, h)}
              /\ SameScopes(rs) => TunnelRoutes(rs, h) = {resolveRoute(h, rs)}
        BY <2>1, StoreAssumption, OneRouting
    <2> QED
        BY <2>2 DEF RouteShown, rs
<1> QED
    BY <1>1, StoreTyped, PTL

---------------------------------------------------------------------------
(* The two merges of the old group files                                   *)
\* Every chosen element is taken.
LEMMA SubSeqOnto ==
    ASSUME NEW S, NEW s \in Seq(S), NEW I \in SUBSET DOMAIN s, NEW i \in I
    PROVE  \E k \in 1..Cardinality(I) : SubSeqAt(s, I)[k] = s[i]
<1> DEFINE Upto(m) == {j \in I : j <= m}
           k == Cardinality(Upto(i))
<1>0. Len(s) \in Nat /\ I \in SUBSET (1..Len(s))
    OBVIOUS
<1>1. IsFiniteSet(I) /\ Cardinality(I) \in Nat /\ I \subseteq Nat
    BY <1>0, FiniteUpto
<1>2. \A m \in I : /\ IsFiniteSet(Upto(m)) /\ Cardinality(Upto(m)) \in Nat
                   /\ Cardinality(Upto(m)) <= Cardinality(I)
    BY <1>1, FS_Subset, FS_CardinalityType
<1>3. k >= 1
    <2>1. i \in Upto(i)
        BY <1>1
    <2>2. Cardinality(Upto(i)) # 0
        BY <1>2, <2>1, FS_EmptySet
    <2> HIDE DEF Upto
    <2> QED
        BY <1>2, <2>2
<1>4. \A m \in I : Cardinality(Upto(m)) = k => m = i
    <2> SUFFICES ASSUME NEW m \in I, Cardinality(Upto(m)) = k, m # i PROVE FALSE
        OBVIOUS
    <2> DEFINE a == IF m < i THEN m ELSE i
               b == IF m < i THEN i ELSE m
    <2>1. a \in I /\ b \in I /\ a < b /\ Cardinality(Upto(a)) = Cardinality(Upto(b))
        <3>0. m \in Nat /\ i \in Nat
            BY <1>1
        <3>1. CASE m < i
            <4>1. a = m /\ b = i
                BY <3>1
            <4> HIDE DEF a, b, Upto
            <4> QED
                BY <3>1, <4>1
        <3>2. CASE ~(m < i)
            <4>1. a = i /\ b = m /\ i < m
                BY <3>0, <3>2
            <4> HIDE DEF a, b, Upto
            <4> QED
                BY <4>1
        <3> QED
            BY <3>1, <3>2
    <2> HIDE DEF a, b
    <2>2. Upto(a) \subseteq Upto(b) /\ b \in Upto(b) /\ b \notin Upto(a)
        BY <1>1, <2>1
    <2>3. Upto(a) = Upto(b)
        <3> HIDE DEF Upto
        <3> QED
            BY <1>2, <2>1, <2>2, FS_Subset
    <2> QED
        BY <2>2, <2>3
<1>5. (CHOOSE m \in I : Cardinality({j \in I : j <= m}) = k) = i
    BY <1>4
<1>6. k \in 1..Cardinality(I)
    <2> HIDE DEF Upto
    <2> QED
        BY <1>1, <1>2, <1>3
<1> HIDE DEF k
<1>7. SubSeqAt(s, I)[k] = s[CHOOSE m \in I : Cardinality({j \in I : j <= m}) = k]
    BY <1>6 DEF SubSeqAt
<1> QED
    BY <1>5, <1>6, <1>7

\* The chain of the merge names every group that has a file.
LEMMA ChainCovers ==
    ASSUME NEW gs, DOMAIN gs \subseteq Groups, NEW active
    PROVE  LET chain == Others(gs, active) \o ActiveOf(gs, active)
           IN  chain \in Seq(DOMAIN gs) /\ \A g \in DOMAIN gs : \E k \in 1..Len(chain) : chain[k] = g
<1> DEFINE a == Others(gs, active)
           b == ActiveOf(gs, active)
<1>1. a \in Seq(DOMAIN gs) /\ b \in Seq(DOMAIN gs)
    BY Orders
<1>2. ASSUME NEW g \in DOMAIN gs, g # active PROVE \E k \in 1..Len(a) : a[k] = g
    <2> DEFINE I == {i \in DOMAIN GroupIds : GroupIds[i] \in DOMAIN gs \ {active}}
    <2>1. GroupIds \in Seq(STRING) /\ I \in SUBSET DOMAIN GroupIds
        BY RuleSetsAssumption
    <2>2. PICK i \in I : GroupIds[i] = g
        BY <1>2 DEF Groups, ToSet
    <2> HIDE DEF I
    <2>3. PICK k \in 1..Cardinality(I) : SubSeqAt(GroupIds, I)[k] = GroupIds[i]
        BY <2>1, SubSeqOnto
    <2>4. Len(SubSeqAt(GroupIds, I)) = Cardinality(I)
        BY <2>1, SubSeqType
    <2>5. a = SubSeqAt(GroupIds, I)
        BY DEF Others, I
    <2> HIDE DEF a
    <2> QED
        BY <2>2, <2>3, <2>4, <2>5
<1>3. active \in DOMAIN gs => b = <<active>>
    BY DEF ActiveOf
<1> HIDE DEF a, b
<1>4. a \o b \in Seq(DOMAIN gs)
    BY <1>1
<1>5. \A k \in 1..Len(a) : k \in 1..Len(a \o b) /\ (a \o b)[k] = a[k]
    BY <1>1
<1>6. active \in DOMAIN gs => Len(a) + 1 \in 1..Len(a \o b) /\ (a \o b)[Len(a) + 1] = active
    <2> HAVE active \in DOMAIN gs
    <2>1. b = <<active>>
        BY <1>3
    <2> QED
        BY <1>1, <2>1
<1>7. \A g \in DOMAIN gs : \E k \in 1..Len(a \o b) : (a \o b)[k] = g
    <2> TAKE g \in DOMAIN gs
    <2>1. CASE g = active
        BY <1>6, <2>1
    <2>2. CASE g # active
        BY <1>2, <1>5, <2>2
    <2> QED
        BY <2>1, <2>2
<1> QED
    BY <1>4, <1>7 DEF a, b

\* The greatest of a set that has a greatest member.
LEMMA GreatestOne ==
    ASSUME NEW n \in Nat, NEW S \in SUBSET (0..n), n \in S
    PROVE  Max(S) = n
<1>1. \A x \in S : (\A y \in S : x >= y) => x = n
    OBVIOUS
<1>2. \A y \in S : n >= y
    OBVIOUS
<1> QED
    BY <1>1, <1>2 DEF Max

\* The Go merge, group by group, is the Rust merge: the last group of the
\* chain that has a mode for a host gives it.
THEOREM MergesAgree ==
    ASSUME NEW gs, DOMAIN gs \subseteq Groups, NEW active
    PROVE  migrateRules(gs, active) = merge_legacy_groups(gs, active)
<1> DEFINE others == Others(gs, active)
           act == ActiveOf(gs, active)
           o == others \o act
           L == Len(o)
           Of(n) == gs[o[n]].rules
           Is(f) == f = [n \in 0..L |-> IF n = 0 THEN <<>>
                                         ELSE [h \in DOMAIN Of(n) \cup DOMAIN f[n - 1] |->
                                                  IF h \in DOMAIN Of(n) THEN Of(n)[h] ELSE f[n - 1][h]]]
           By(n, h) == {i \in 1..n : h \in DOMAIN Of(i)}
           G(n) == [h \in UNION {DOMAIN Of(i) : i \in 1..n} |-> Of(Max(By(n, h)))[h]]
           g == [n \in 0..L |-> G(n)]
           m == CHOOSE f : Is(f)
<1>1. L \in Nat /\ o \in Seq(DOMAIN gs) /\ \A x \in DOMAIN gs : \E k \in 1..L : o[k] = x
    <2>1. o \in Seq(DOMAIN gs) /\ \A x \in DOMAIN gs : \E k \in 1..Len(o) : o[k] = x
        BY ChainCovers
    <2> HIDE DEF o
    <2> QED
        BY <2>1
<1> HIDE DEF o, L
<1> HIDE DEF Of
<1>2. G(0) = <<>>
    OBVIOUS
<1>3. ASSUME NEW n \in 1..L
      PROVE  G(n) = [h \in DOMAIN Of(n) \cup DOMAIN G(n - 1) |-> IF h \in DOMAIN Of(n) THEN Of(n)[h] ELSE G(n - 1)[h]]
    <2>0. n \in Nat /\ n - 1 \in Nat /\ 1..n = (1..(n - 1)) \cup {n}
        BY <1>1
    <2> DEFINE D == DOMAIN Of(n) \cup UNION {DOMAIN Of(i) : i \in 1..(n - 1)}
    <2>1. UNION {DOMAIN Of(i) : i \in 1..n} = D
        BY <2>0
    <2>2. ASSUME NEW h \in DOMAIN Of(n) PROVE Max(By(n, h)) = n
        <3>1. By(n, h) \in SUBSET (0..n) /\ n \in By(n, h)
            BY <2>0, <2>2
        <3> HIDE DEF By
        <3> QED
            BY <2>0, <3>1, GreatestOne
    <2>3. ASSUME NEW h, h \notin DOMAIN Of(n) PROVE By(n, h) = By(n - 1, h)
        BY <2>0, <2>3
    <2> HIDE DEF By
    <2>4. ASSUME NEW h \in D
          PROVE  Of(Max(By(n, h)))[h] = IF h \in DOMAIN Of(n) THEN Of(n)[h] ELSE G(n - 1)[h]
        <3>1. CASE h \in DOMAIN Of(n)
            BY <2>2, <3>1
        <3>2. CASE h \notin DOMAIN Of(n)
            <4>1. h \in UNION {DOMAIN Of(i) : i \in 1..(n - 1)}
                BY <2>4, <3>2
            <4>2. G(n - 1)[h] = Of(Max(By(n - 1, h)))[h]
                BY <4>1
            <4> QED
                BY <2>3, <3>2, <4>2
        <3> QED
            BY <3>1, <3>2
    <2>5. DOMAIN G(n - 1) = UNION {DOMAIN Of(i) : i \in 1..(n - 1)}
        OBVIOUS
    <2>6. G(n) = [h \in D |-> Of(Max(By(n, h)))[h]]
        BY <2>1
    <2> HIDE DEF G
    <2>7. G(n) = [h \in D |-> IF h \in DOMAIN Of(n) THEN Of(n)[h] ELSE G(n - 1)[h]]
        BY <2>4, <2>6
    <2> QED
        BY <2>5, <2>7
<1> HIDE DEF G
<1>4. Is(g)
    <2>1. \A n \in 0..L : g[n] = IF n = 0 THEN <<>>
                                  ELSE [h \in DOMAIN Of(n) \cup DOMAIN g[n - 1] |->
                                           IF h \in DOMAIN Of(n) THEN Of(n)[h] ELSE g[n - 1][h]]
        <3> TAKE n \in 0..L
        <3>1. CASE n = 0
            BY <1>1, <1>2, <3>1
        <3>2. CASE n # 0
            <4>1. n \in 1..L /\ n - 1 \in 0..L /\ g[n] = G(n) /\ g[n - 1] = G(n - 1)
                BY <1>1, <3>2
            <4>2. G(n) = [h \in DOMAIN Of(n) \cup DOMAIN G(n - 1) |->
                             IF h \in DOMAIN Of(n) THEN Of(n)[h] ELSE G(n - 1)[h]]
                BY <1>3, <4>1
            <4> HIDE DEF g
            <4>3. g[n] = [h \in DOMAIN Of(n) \cup DOMAIN g[n - 1] |->
                             IF h \in DOMAIN Of(n) THEN Of(n)[h] ELSE g[n - 1][h]]
                BY <4>1, <4>2, Zenon
            <4> QED
                BY <3>2, <4>3, Zenon
        <3> QED
            BY <3>1, <3>2
    <2>2. g = [n \in 0..L |-> g[n]]
        OBVIOUS
    <2> HIDE DEF g
    <2> QED
        BY <2>1, <2>2
<1>5. Is(m)
    <2> HIDE DEF Is, g
    <2> QED
        BY <1>4
<1> DEFINE P == {n \in Nat : n <= L => m[n] = G(n)}
<1>6. P = Nat
    <2>0. \A n \in 0..L : m[n] = IF n = 0 THEN <<>>
                                  ELSE [h \in DOMAIN Of(n) \cup DOMAIN m[n - 1] |->
                                           IF h \in DOMAIN Of(n) THEN Of(n)[h] ELSE m[n - 1][h]]
        <3> HIDE DEF m
        <3> QED
            BY <1>5
    <2> HIDE DEF m
    <2>1. 0 \in P
        <3>1. 0 \in 0..L
            BY <1>1
        <3>2. m[0] = <<>>
            BY <2>0, <3>1
        <3>3. m[0] = G(0)
            BY <1>2, <3>2, Zenon
        <3> QED
            BY <3>3
    <2>2. ASSUME NEW n \in P PROVE n + 1 \in P
        <3>1. SUFFICES ASSUME n + 1 <= L PROVE m[n + 1] = G(n + 1)
            OBVIOUS
        <3>2. n \in Nat /\ n + 1 \in 1..L /\ n + 1 \in 0..L /\ (n + 1) - 1 = n /\ n + 1 # 0 /\ m[n] = G(n)
            BY <1>1, <3>1
        <3>3. m[n + 1] = [h \in DOMAIN Of(n + 1) \cup DOMAIN m[n] |-> IF h \in DOMAIN Of(n + 1) THEN Of(n + 1)[h] ELSE m[n][h]]
            BY <2>0, <3>2
        <3>4. G(n + 1) = [h \in DOMAIN Of(n + 1) \cup DOMAIN G(n) |-> IF h \in DOMAIN Of(n + 1) THEN Of(n + 1)[h] ELSE G(n)[h]]
            BY <1>3, <3>2
        <3> QED
            BY <3>2, <3>3, <3>4
    <2> HIDE DEF P
    <2>3. P \in SUBSET Nat
        BY DEF P
    <2> QED
        BY <2>1, <2>2, <2>3, NatInduct
<1>7. m[L] = G(L)
    <2> HIDE DEF m
    <2>1. L \in P
        BY <1>1, <1>6
    <2> QED
        BY <1>1, <2>1
<1> DEFINE hosts == UNION {DOMAIN gs[x].rules : x \in DOMAIN gs}
           Giver(h) == o[Max({i \in DOMAIN o : h \in DOMAIN gs[o[i]].rules})]
<1>8. G(L) = [h \in hosts |-> gs[Giver(h)].rules[h]]
    <2>1. DOMAIN o = 1..L
        BY <1>1 DEF L
    <2>2. UNION {DOMAIN Of(i) : i \in 1..L} = hosts
        <3>1. \A i \in 1..L : o[i] \in DOMAIN gs
            BY <1>1, <2>1
        <3> QED
            BY <1>1, <3>1 DEF Of
    <2>3. \A h : {i \in DOMAIN o : h \in DOMAIN gs[o[i]].rules} = By(L, h)
        BY <2>1 DEF Of
    <2>4. G(L) = [h \in UNION {DOMAIN Of(i) : i \in 1..L} |-> Of(Max(By(L, h)))[h]]
        BY DEF G
    <2>5. \A h : Of(Max(By(L, h)))[h] = gs[Giver(h)].rules[h]
        BY <2>3 DEF Of
    <2> HIDE DEF hosts, Giver, By
    <2> QED
        BY <2>2, <2>4, <2>5
<1> DEFINE known == capKnownHosts(FirstHosts(FlattenSeq([i \in DOMAIN o |-> gs[o[i]].knownHosts])))
           scopes == FirstScopes(FlattenSeq([i \in DOMAIN (act \o others) |-> gs[(act \o others)[i]].ruleGroups]))
           f == gs[active].finalRoute
           final == IF act = <<>> \/ f = "none" THEN "tunnel" ELSE NormalizeFinalRoute(f)
<1>9. migrateRules(gs, active) = [rules |-> m[L], ruleGroups |-> scopes, finalRoute |-> final, knownHosts |-> known]
    <2>1. migrateRules(gs, active) =
            [rules |-> m[L], ruleGroups |-> scopes,
             finalRoute |-> IF act # <<>> /\ f # "none" THEN NormalizeFinalRoute(f) ELSE "tunnel",
             knownHosts |-> known]
        BY Zenon DEF migrateRules, o, L, Of
    <2> HIDE DEF known, scopes, m, act, f
    <2>2. (IF act # <<>> /\ f # "none" THEN NormalizeFinalRoute(f) ELSE "tunnel") = final
        OBVIOUS
    <2> HIDE DEF final
    <2> QED
        BY <2>1, <2>2
<1>10. merge_legacy_groups(gs, active) =
          [rules |-> [h \in hosts |-> gs[Giver(h)].rules[h]], ruleGroups |-> scopes, finalRoute |-> final, knownHosts |-> known]
    BY Zenon DEF merge_legacy_groups, o
<1> HIDE DEF hosts, Giver, m, known, scopes, final
<1> QED
    BY <1>7, <1>8, <1>9, <1>10

---------------------------------------------------------------------------
(* What a merge depends on                                                 *)
\* A set of positions has a greatest one.
LEMMA GreatestIn ==
    ASSUME NEW n \in Nat, NEW S \in SUBSET (1..n), S # {}
    PROVE  Max(S) \in S
<1> DEFINE T == {y \in Nat : \A x \in S : x <= y}
           m == Min(T)
<1>1. n \in T
    OBVIOUS
<1>2. m \in T /\ \A y \in T : m <= y
    <2>1. T \in SUBSET Nat /\ T # {}
        BY <1>1
    <2> HIDE DEF T
    <2> QED
        BY <2>1, LeastOne
<1> HIDE DEF m
<1>3. m \in S
    <2> SUFFICES ASSUME m \notin S PROVE FALSE
        OBVIOUS
    <2>1. PICK x \in S : TRUE
        OBVIOUS
    <2>2. m \in Nat /\ \A y \in S : y <= m
        BY <1>2
    <2>3. m - 1 \in Nat /\ \A y \in S : y <= m - 1
        <3>1. \A y \in S : y \in Nat /\ y >= 1 /\ y # m
            OBVIOUS
        <3> QED
            BY <2>1, <2>2, <3>1
    <2>4. m - 1 \in T
        BY <2>3
    <2> QED
        BY <1>2, <2>2, <2>4
<1>4. \A y \in S : m >= y
    BY <1>2
<1> QED
    BY <1>3, <1>4 DEF Max

\* A list of one.
LEMMA OneSeq ==
    ASSUME NEW S, NEW x \in S
    PROVE  <<x>> \in Seq(S)
OBVIOUS

\* Short lists, and lists joined to the empty one.
LEMMA ShortSeq ==
    ASSUME NEW S, NEW s \in Seq(S)
    PROVE  /\ Len(s) = 0 => s = <<>>
           /\ Len(s) = 1 => s = <<s[1]>>
           /\ s \o <<>> = s /\ <<>> \o s = s
<1>1. Len(s) = 0 => s = <<>>
    OBVIOUS
<1>2. Len(s) = 1 => s = <<s[1]>>
    OBVIOUS
<1>3. s \o <<>> = s
    OBVIOUS
<1>4. <<>> \o s = s
    OBVIOUS
<1> QED
    BY <1>1, <1>2, <1>3, <1>4

\* No position, and one position.
LEMMA SubSeqSmall ==
    ASSUME NEW S, NEW s \in Seq(S)
    PROVE  SubSeqAt(s, {}) = <<>> /\ \A i \in DOMAIN s : SubSeqAt(s, {i}) = <<s[i]>>
<1>1. SubSeqAt(s, {}) = <<>>
    <2>1. Cardinality({}) = 0 /\ {} \in SUBSET DOMAIN s
        BY FS_EmptySet
    <2>2. Len(SubSeqAt(s, {})) = 0 /\ SubSeqAt(s, {}) \in Seq(S)
        BY <2>1, SubSeqType
    <2> QED
        BY <2>2, ShortSeq
<1>2. ASSUME NEW i \in DOMAIN s PROVE SubSeqAt(s, {i}) = <<s[i]>>
    <2> DEFINE t == SubSeqAt(s, {i})
    <2>1. Cardinality({i}) = 1 /\ {i} \in SUBSET DOMAIN s
        BY FS_Singleton
    <2>2. Len(t) = 1 /\ t \in Seq(S)
        BY <2>1, SubSeqType
    <2>3. PICK k \in 1..1 : t[k] = s[i]
        BY <2>1, SubSeqOnto
    <2> HIDE DEF t
    <2>4. k = 1
        OBVIOUS
    <2>5. t[1] = s[i] /\ t = <<t[1]>>
        BY <2>2, <2>3, <2>4, ShortSeq
    <2>6. t = <<s[i]>>
        BY <2>5, Zenon
    <2> QED
        BY <2>6 DEF t
<1> QED
    BY <1>1, <1>2

\* What the merge depends on.
LEMMA MergeSame ==
    ASSUME NEW gs, NEW hs, DOMAIN gs = DOMAIN hs, DOMAIN gs \subseteq Groups, NEW active,
           \A g \in DOMAIN gs : gs[g].rules = hs[g].rules /\ gs[g].ruleGroups = hs[g].ruleGroups
                                /\ gs[g].knownHosts = hs[g].knownHosts,
           active \in DOMAIN gs =>
              (IF gs[active].finalRoute = "none" THEN "tunnel" ELSE NormalizeFinalRoute(gs[active].finalRoute))
              = (IF hs[active].finalRoute = "none" THEN "tunnel" ELSE NormalizeFinalRoute(hs[active].finalRoute))
    PROVE  merge_legacy_groups(gs, active) = merge_legacy_groups(hs, active)
<1> DEFINE others == Others(gs, active)
           act == ActiveOf(gs, active)
           o == others \o act
           r == act \o others
           Who(k, h) == {i \in DOMAIN o : h \in DOMAIN k[o[i]].rules}
           Giver(k, h) == o[Max(Who(k, h))]
           hosts(k) == UNION {DOMAIN k[x].rules : x \in DOMAIN gs}
           rules(k) == [h \in hosts(k) |-> k[Giver(k, h)].rules[h]]
           scopes(k) == FirstScopes(FlattenSeq([i \in DOMAIN r |-> k[r[i]].ruleGroups]))
           known(k) == capKnownHosts(FirstHosts(FlattenSeq([i \in DOMAIN o |-> k[o[i]].knownHosts])))
           final(k) == IF act = <<>> \/ k[active].finalRoute = "none" THEN "tunnel"
                       ELSE NormalizeFinalRoute(k[active].finalRoute)
<1>1. Others(hs, active) = others /\ ActiveOf(hs, active) = act
    BY DEF Others, ActiveOf
<1>2. merge_legacy_groups(gs, active) =
         [rules |-> rules(gs), ruleGroups |-> scopes(gs), finalRoute |-> final(gs), knownHosts |-> known(gs)]
    BY Zenon DEF merge_legacy_groups
<1>3. merge_legacy_groups(hs, active) =
         [rules |-> rules(hs), ruleGroups |-> scopes(hs), finalRoute |-> final(hs), knownHosts |-> known(hs)]
    <2> HIDE DEF others, act
    <2>1. merge_legacy_groups(hs, active) =
         [rules |-> [h \in UNION {DOMAIN hs[x].rules : x \in DOMAIN hs} |-> hs[Giver(hs, h)].rules[h]],
          ruleGroups |-> scopes(hs), finalRoute |-> final(hs), knownHosts |-> known(hs)]
        BY <1>1, Zenon DEF merge_legacy_groups
    <2>2. UNION {DOMAIN hs[x].rules : x \in DOMAIN hs} = hosts(hs)
        OBVIOUS
    <2> HIDE DEF Giver, hosts, scopes, known, final
    <2> QED
        BY <2>1, <2>2
<1>4. o \in Seq(DOMAIN gs) /\ r \in Seq(DOMAIN gs) /\ \A x \in DOMAIN gs : \E k \in 1..Len(o) : o[k] = x
    <2>1. others \in Seq(DOMAIN gs) /\ act \in Seq(DOMAIN gs)
        BY Orders
    <2>2. r \in Seq(DOMAIN gs)
        <3> HIDE DEF others, act
        <3> QED
            BY <2>1
    <2>3. o \in Seq(DOMAIN gs) /\ \A x \in DOMAIN gs : \E k \in 1..Len(o) : o[k] = x
        <3> DEFINE c == Others(gs, active) \o ActiveOf(gs, active)
        <3>1. c \in Seq(DOMAIN gs) /\ \A x \in DOMAIN gs : \E k \in 1..Len(c) : c[k] = x
            <4> DEFINE D == DOMAIN gs
            <4>1. D \subseteq Groups
                OBVIOUS
            <4> QED
                BY <4>1, ChainCovers
        <3> HIDE DEF c
        <3>2. o = c
            BY DEF c
        <3> QED
            BY <3>1, <3>2
    <2> QED
        BY <2>2, <2>3
<1>5. final(gs) = final(hs)
    <2>1. CASE active \in DOMAIN gs
        <3> HIDE DEF act
        <3> QED
            BY <2>1
    <2>2. CASE active \notin DOMAIN gs
        <3>1. act = <<>>
            BY <2>2 DEF ActiveOf
        <3> HIDE DEF act
        <3> QED
            BY <3>1
    <2> QED
        BY <2>1, <2>2
<1> HIDE DEF o, r
<1>6. DOMAIN o = 1..Len(o) /\ Len(o) \in Nat /\ \A i \in DOMAIN o : o[i] \in DOMAIN gs
    BY <1>4
<1>7. \A i \in DOMAIN r : r[i] \in DOMAIN gs
    BY <1>4
<1>8. [i \in DOMAIN r |-> gs[r[i]].ruleGroups] = [i \in DOMAIN r |-> hs[r[i]].ruleGroups]
    BY <1>7
<1>9. [i \in DOMAIN o |-> gs[o[i]].knownHosts] = [i \in DOMAIN o |-> hs[o[i]].knownHosts]
    BY <1>6
<1>10. hosts(gs) = hosts(hs)
    OBVIOUS
<1>11. \A h : Who(gs, h) = Who(hs, h)
    BY <1>6
<1>12. ASSUME NEW h \in hosts(gs) PROVE Giver(gs, h) \in DOMAIN gs
    <2>1. PICK x \in DOMAIN gs : h \in DOMAIN gs[x].rules
        OBVIOUS
    <2>2. PICK k \in 1..Len(o) : o[k] = x
        BY <1>4
    <2>3. k \in Who(gs, h) /\ Who(gs, h) \in SUBSET (1..Len(o))
        BY <1>6, <2>1, <2>2
    <2>4. Max(Who(gs, h)) \in Who(gs, h)
        <3> HIDE DEF Who
        <3> QED
            BY <1>6, <2>3, GreatestIn
    <2> QED
        BY <1>6, <2>4
<1>13. rules(gs) = rules(hs)
    <2>1. \A h \in hosts(gs) : Giver(hs, h) = Giver(gs, h)
        <3> HIDE DEF Who
        <3> QED
            BY <1>11
    <2>2. \A h \in hosts(gs) : gs[Giver(gs, h)].rules[h] = hs[Giver(hs, h)].rules[h]
        <3> HIDE DEF Giver, hosts
        <3> QED
            BY <1>12, <2>1
    <2> HIDE DEF Giver, hosts
    <2> QED
        BY <1>10, <2>2
<1>14. scopes(gs) = scopes(hs) /\ known(gs) = known(hs)
    BY <1>8, <1>9, Zenon
<1> HIDE DEF rules, scopes, known, final
<1> QED
    BY <1>2, <1>3, <1>5, <1>13, <1>14

\* A lone default group without a final route of its own merges in the same
\* way whether the settings name it or no group.
LEMMA LoneDefault ==
    ASSUME NEW gs, NEW g \in Groups, DOMAIN gs = {g}, g # "", gs[g].finalRoute \in {"tunnel", "none"}
    PROVE  merge_legacy_groups(gs, "") = merge_legacy_groups(gs, g)
<1>1. Others(gs, "") = <<g>>
    <2> DEFINE I == {i \in DOMAIN GroupIds : GroupIds[i] \in DOMAIN gs \ {""}}
    <2>1. GroupIds \in Seq(STRING) /\ I \in SUBSET DOMAIN GroupIds
        BY RuleSetsAssumption
    <2>2. PICK i \in DOMAIN GroupIds : GroupIds[i] = g
        BY DEF Groups, ToSet
    <2>3. I = {i}
        <3>1. \A j \in DOMAIN GroupIds : GroupIds[j] = g => j = i
            BY <2>2, RuleSetsAssumption DEF IsInjective
        <3> QED
            BY <2>2, <3>1
    <2> HIDE DEF I
    <2>4. SubSeqAt(GroupIds, I) = <<g>>
        BY <2>1, <2>2, <2>3, SubSeqSmall, Zenon
    <2> QED
        BY <2>4 DEF Others, I
<1>2. Others(gs, g) = <<>>
    <2> DEFINE I == {i \in DOMAIN GroupIds : GroupIds[i] \in DOMAIN gs \ {g}}
    <2>1. I = {} /\ GroupIds \in Seq(STRING)
        BY RuleSetsAssumption
    <2> HIDE DEF I
    <2>2. SubSeqAt(GroupIds, I) = <<>>
        BY <2>1, SubSeqSmall, Zenon
    <2> QED
        BY <2>2 DEF Others, I
<1>3. ActiveOf(gs, "") = <<>> /\ ActiveOf(gs, g) = <<g>>
    BY DEF ActiveOf
<1>4. <<g>> \o <<>> = <<g>> /\ <<>> \o <<g>> = <<g>>
    <2>1. <<g>> \in Seq({g})
        BY OneSeq
    <2> QED
        BY <2>1, ShortSeq
<1> DEFINE o == <<g>>
           Giver(h) == o[Max({i \in DOMAIN o : h \in DOMAIN gs[o[i]].rules})]
           rules == [h \in UNION {DOMAIN gs[x].rules : x \in DOMAIN gs} |-> gs[Giver(h)].rules[h]]
           scopes == FirstScopes(FlattenSeq([i \in DOMAIN o |-> gs[o[i]].ruleGroups]))
           known == capKnownHosts(FirstHosts(FlattenSeq([i \in DOMAIN o |-> gs[o[i]].knownHosts])))
<1>5. merge_legacy_groups(gs, "") = [rules |-> rules, ruleGroups |-> scopes, finalRoute |-> "tunnel", knownHosts |-> known]
    <2> DEFINE final == IF <<>> = <<>> \/ gs[""].finalRoute = "none" THEN "tunnel"
                        ELSE NormalizeFinalRoute(gs[""].finalRoute)
    <2>1. merge_legacy_groups(gs, "") =
             [rules |-> rules, ruleGroups |-> scopes, finalRoute |-> final, knownHosts |-> known]
        BY <1>1, <1>3, <1>4, Zenon DEF merge_legacy_groups
    <2> HIDE DEF rules, scopes, known
    <2>2. final = "tunnel"
        OBVIOUS
    <2> HIDE DEF final
    <2> QED
        BY <2>1, <2>2
<1>6. merge_legacy_groups(gs, g) = [rules |-> rules, ruleGroups |-> scopes, finalRoute |-> "tunnel", knownHosts |-> known]
    <2> DEFINE final == IF <<g>> = <<>> \/ gs[g].finalRoute = "none" THEN "tunnel"
                        ELSE NormalizeFinalRoute(gs[g].finalRoute)
    <2>1. merge_legacy_groups(gs, g) =
             [rules |-> rules, ruleGroups |-> scopes, finalRoute |-> final, knownHosts |-> known]
        BY <1>2, <1>3, <1>4, Zenon DEF merge_legacy_groups
    <2> HIDE DEF rules, scopes, known
    <2>2. final = "tunnel"
        BY DEF NormalizeFinalRoute
    <2> HIDE DEF final
    <2> QED
        BY <2>1, <2>2
<1> QED
    BY <1>5, <1>6, Zenon

---------------------------------------------------------------------------
(* The invariant of the launches                                           *)
\* The group a launch would take for the active one.
Active(d) == IF d["settings"].active = "" THEN DefaultGroup ELSE d["settings"].active

\* One program is at work at a time.
Solo == \A p, q \in Programs : p # q => Idle(p) \/ Idle(q)

\* The default group that a migration from routes.json writes.
Moved(k) ==
    [kids |-> k, legacyKids |-> {}, blank |-> FALSE, carried |-> RoutesAsGroup(disk, "tunnel")]

\* A store whose active group was never chosen holds no group files, but for
\* the default group of a migration that was cut.
Fresh ==
    disk["settings"].active = "" =>
       /\ \A g \in Groups \ {DefaultGroup} : disk[g] = Absent
       /\ disk[DefaultGroup] = Absent \/ \E k \in SUBSET Profiles : disk[DefaultGroup] = Moved(k)

\* The rules that a program is about to write: those in force, or one edit of
\* them.
Pending(p) ==
    buf[p] # <<>> /\ buf[p][1].file = "rules" =>
       LET w == buf[p][1]
       IN  \/ w.why.do = "migrate" /\ w.val = RulesInForce(disk)
           \/ /\ w.why.do = "editRules" /\ disk["rules"] # Absent
              /\ w.val = normalize(Edited(p, w.why.arg, disk["rules"]))
           \/ w.why.do = "commit" /\ w.val = normalize(Edited(p, w.why.arg, w.why.base))

\* The settings that select the default group.
Selects(s) == s.active = DefaultGroup /\ disk["settings"].active = ""

\* What is left of a launch once default.json is written.
AfterDefault(p) ==
    \/ todo[p] = LoadPhases
    \/ \E s \in Settings : Selects(s) /\ todo[p] = <<Phase("settings", s)>> \o LoadPhases

\* Before rules.json exists a program is off or in its launch, and its launch
\* has one of these shapes.
Launching(p) ==
    \/ up[p] = "off" /\ Idle(p)
    \/ /\ up[p] = "starting" /\ buf[p] = <<>>
       /\ \/ todo[p] = <<Phase("migrate", 0)>> \o LoadPhases
          \/ disk[DefaultGroup] # Absent /\ todo[p] = LoadPhases
          \/ disk[DefaultGroup] # Absent /\ p = "tui" /\ AfterDefault(p)
    \/ /\ up[p] = "starting" /\ buf[p] # <<>>
       /\ LET w == buf[p][1]
          IN  \/ w.file = "rules"
              \/ /\ p = "tui" /\ disk[DefaultGroup] = Absent /\ AfterDefault(p)
                 /\ w.file = DefaultGroup /\ \E k \in SUBSET Profiles : w.val = Moved(k)
              \/ /\ p = "tui" /\ disk[DefaultGroup] # Absent /\ todo[p] = LoadPhases
                 /\ w.file = "settings" /\ Selects(w.val)

\* The inductive invariant of RulesOnlyEdited.
StoreInv ==
    /\ StoreTypes /\ Solo
    /\ \A p \in Programs : Pending(p)
    /\ disk["rules"] = Absent => Fresh /\ \A p \in Programs : Launching(p)

\* A file that is there is not one that is not.
AbsentIsNoFile ==
    /\ \A k, l, b, c : Absent # [kids |-> k, legacyKids |-> l, blank |-> b, carried |-> c]
    /\ \A r, g, f, h : Absent # [rules |-> r, ruleGroups |-> g, finalRoute |-> f, knownHosts |-> h]

\* A rule set is not an absent file.
LEMMA Present ==
    ASSUME AbsentIsNoFile, NEW rs, RuleSetOK(rs)
    PROVE  rs # Absent
BY DEF AbsentIsNoFile, RuleSetOK

\* The rules in force when there is no rules.json.
LEMMA FromFiles ==
    ASSUME NEW d, d["rules"] = Absent
    PROVE  /\ d[DefaultGroup] = Absent => RulesInForce(d) = normalize(merge_legacy_groups(WithRoutes(d), Active(d)))
           /\ d[DefaultGroup] # Absent => RulesInForce(d) = normalize(merge_legacy_groups(RawGroups(d), Active(d)))
<1> DEFINE a == IF d["settings"].active = "" THEN DefaultGroup ELSE d["settings"].active
           f == IF d[DefaultGroup] = Absent THEN WithRoutes(d) ELSE RawGroups(d)
<1>1. RulesInForce(d) = normalize(merge_legacy_groups(f, a))
    BY DEF RulesInForce
<1>2. Active(d) = a
    BY DEF Active
<1>3. /\ d[DefaultGroup] = Absent => f = WithRoutes(d)
      /\ d[DefaultGroup] # Absent => f = RawGroups(d)
    OBVIOUS
<1> HIDE DEF f, a
<1> QED
    BY <1>1, <1>2, <1>3

\* Only group files are merged.
LEMMA RawIn ==
    ASSUME NEW d
    PROVE  DOMAIN RawGroups(d) \subseteq Groups /\ DOMAIN WithRoutes(d) \subseteq Groups
BY StoreAssumption DEF RawGroups, WithRoutes

\* What is in force depends on the rules, the group files, the routes of old
\* versions and the active group, on nothing else.
LEMMA SameInForce ==
    ASSUME NEW d, NEW e, e["rules"] = d["rules"], \A g \in Groups : e[g] = d[g], e["routes"] = d["routes"],
           d["rules"] = Absent => Active(e) = Active(d)
    PROVE  RulesInForce(e) = RulesInForce(d)
<1>1. CASE d["rules"] # Absent
    BY <1>1 DEF RulesInForce
<1>2. CASE d["rules"] = Absent
    <2>1. RawGroups(e) = RawGroups(d)
        BY DEF RawGroups
    <2>2. RoutesAsGroup(e, "none") = RoutesAsGroup(d, "none")
        BY DEF RoutesAsGroup
    <2>3. WithRoutes(e) = WithRoutes(d)
        BY <2>1, <2>2 DEF WithRoutes
    <2>4. e[DefaultGroup] = d[DefaultGroup] /\ e["rules"] = Absent /\ Active(e) = Active(d)
        BY <1>2, StoreAssumption
    <2> QED
        BY <1>2, <2>1, <2>3, <2>4, FromFiles
<1> QED
    BY <1>1, <1>2

\* The merge a program makes before rules.json exists gives the rules in force.
LEMMA MigratedInForce ==
    ASSUME StoreTypes, Fresh, AbsentIsNoFile, disk["rules"] = Absent, disk[DefaultGroup] # Absent, NEW p
    PROVE  normalize(Migrated(p)) = RulesInForce(disk)
<1> DEFINE gs == RawGroups(disk)
           a == disk["settings"].active
<1>1. Migrated(p) = merge_legacy_groups(gs, a)
    <2>1. DOMAIN gs \subseteq Groups
        BY RawIn
    <2>2. migrateRules(gs, a) = merge_legacy_groups(gs, a)
        BY <2>1, MergesAgree
    <2> QED
        BY <2>2 DEF Migrated
<1>2. RulesInForce(disk) = normalize(merge_legacy_groups(gs, Active(disk)))
    BY FromFiles
<1>3. CASE a # ""
    BY <1>1, <1>2, <1>3 DEF Active
<1>4. CASE a = ""
    <2>1. PICK k \in SUBSET Profiles : disk[DefaultGroup] = Moved(k)
        BY <1>4 DEF Fresh
    <2>2. \A g \in Groups : g # DefaultGroup => disk[g] = Absent
        BY <1>4 DEF Fresh
    <2>3. Moved(k) # EmptyFile
        BY DEF Moved, EmptyFile
    <2>4. RoutesAsGroup(disk, "tunnel") # Absent
        BY DEF AbsentIsNoFile, RoutesAsGroup
    <2>5. DOMAIN gs = {DefaultGroup}
        BY <2>1, <2>2, <2>3, StoreAssumption DEF RawGroups
    <2>6. disk[DefaultGroup].carried = RoutesAsGroup(disk, "tunnel")
        BY <2>1 DEF Moved
    <2>7. gs[DefaultGroup] = RoutesAsGroup(disk, "tunnel")
        BY <2>4, <2>5, <2>6 DEF RawGroups
    <2>8. gs[DefaultGroup].finalRoute = "tunnel"
        BY <2>7 DEF RoutesAsGroup
    <2>9. DefaultGroup \in Groups /\ DefaultGroup # ""
        BY StoreAssumption
    <2> HIDE DEF gs
    <2>10. merge_legacy_groups(gs, "") = merge_legacy_groups(gs, DefaultGroup)
        BY <2>5, <2>8, <2>9, LoneDefault
    <2> QED
        BY <1>1, <1>2, <1>4, <2>10 DEF Active
<1> QED
    BY <1>3, <1>4

\* Moving routes.json into the default group's file changes nothing.
LEMMA DefaultInForce ==
    ASSUME StoreTypes, AbsentIsNoFile, disk["rules"] = Absent, disk[DefaultGroup] = Absent,
           NEW k, disk' = [disk EXCEPT ![DefaultGroup] = Moved(k)]
    PROVE  RulesInForce(disk') = RulesInForce(disk)
<1> DEFINE e == disk'
           gs == WithRoutes(disk)
           hs == RawGroups(e)
<1>0. DefaultGroup \in Groups /\ DefaultGroup \notin {"", "profiles", "rules", "settings", "priorities", "routes"}
    BY StoreAssumption
<1>1. disk = [f \in Files |-> disk[f]] /\ \A g \in Groups : g \in Files
    BY DEF StoreTypes, DiskOK, Files
<1>2. /\ e["rules"] = Absent /\ e["routes"] = disk["routes"] /\ e["settings"] = disk["settings"]
      /\ \A g \in Groups : e[g] = IF g = DefaultGroup THEN Moved(k) ELSE disk[g]
    BY <1>0, <1>1 DEF Files
<1>3. Moved(k) # EmptyFile /\ Moved(k) # Absent /\ Moved(k).carried = RoutesAsGroup(disk, "tunnel")
    BY DEF Moved, EmptyFile, AbsentIsNoFile
<1>4. RoutesAsGroup(disk, "tunnel") # Absent
    BY DEF AbsentIsNoFile, RoutesAsGroup
<1> HIDE DEF e
<1>5. DOMAIN hs = DOMAIN gs
    <2>1. DOMAIN hs = {g \in Groups : e[g] # Absent /\ e[g] # EmptyFile}
        BY DEF RawGroups
    <2>2. DOMAIN gs = {g \in Groups : disk[g] # Absent /\ disk[g] # EmptyFile} \cup {DefaultGroup}
        BY DEF RawGroups, WithRoutes
    <2> HIDE DEF gs, hs
    <2> QED
        BY <1>0, <1>2, <1>3, <2>1, <2>2
<1>6. \A g \in DOMAIN hs : hs[g] = IF e[g].carried = Absent THEN NoLegacyRules ELSE e[g].carried
    BY DEF RawGroups
<1>7. \A g \in DOMAIN gs : gs[g] = IF g = DefaultGroup THEN RoutesAsGroup(disk, "none")
                                   ELSE IF disk[g].carried = Absent THEN NoLegacyRules ELSE disk[g].carried
    BY DEF RawGroups, WithRoutes
<1>8. DOMAIN gs \subseteq Groups /\ DefaultGroup \in DOMAIN gs
    BY RawIn DEF WithRoutes
<1> HIDE DEF gs, hs
<1>9. \A g \in DOMAIN gs : IF g = DefaultGroup THEN gs[g] = RoutesAsGroup(disk, "none") /\ hs[g] = RoutesAsGroup(disk, "tunnel")
                           ELSE hs[g] = gs[g]
    BY <1>2, <1>3, <1>4, <1>5, <1>6, <1>7, <1>8
<1>10. /\ RoutesAsGroup(disk, "none").rules = RoutesAsGroup(disk, "tunnel").rules
       /\ RoutesAsGroup(disk, "none").ruleGroups = RoutesAsGroup(disk, "tunnel").ruleGroups
       /\ RoutesAsGroup(disk, "none").knownHosts = RoutesAsGroup(disk, "tunnel").knownHosts
       /\ RoutesAsGroup(disk, "none").finalRoute = "none" /\ RoutesAsGroup(disk, "tunnel").finalRoute = "tunnel"
    BY DEF RoutesAsGroup
<1> DEFINE Final(f) == IF f = "none" THEN "tunnel" ELSE NormalizeFinalRoute(f)
<1>11. Final("none") = Final("tunnel")
    BY DEF NormalizeFinalRoute
<1>12. \A g \in DOMAIN gs : gs[g].rules = hs[g].rules /\ gs[g].ruleGroups = hs[g].ruleGroups /\ gs[g].knownHosts = hs[g].knownHosts
    BY <1>9, <1>10
<1>13. \A g \in DOMAIN gs : Final(gs[g].finalRoute) = Final(hs[g].finalRoute)
    <2> TAKE g \in DOMAIN gs
    <2> HIDE DEF Final
    <2> QED
        BY <1>9, <1>10, <1>11
<1>14. ASSUME NEW a PROVE merge_legacy_groups(gs, a) = merge_legacy_groups(hs, a)
    <2>1. a \in DOMAIN gs => Final(gs[a].finalRoute) = Final(hs[a].finalRoute)
        BY <1>13
    <2> QED
        BY <1>5, <1>8, <1>12, <2>1, MergeSame
<1>15. Active(e) = Active(disk)
    BY <1>2 DEF Active
<1>16. e[DefaultGroup] # Absent
    BY <1>0, <1>2, <1>3
<1>17. /\ RulesInForce(disk) = normalize(merge_legacy_groups(gs, Active(disk)))
       /\ RulesInForce(e) = normalize(merge_legacy_groups(hs, Active(e)))
    BY <1>2, <1>16, FromFiles DEF gs, hs
<1> QED
    BY <1>14, <1>15, <1>17 DEF e

---------------------------------------------------------------------------
(* The kinds of steps a program takes once rules.json exists               *)
\* The invariant holds at first, before either program runs.
LEMMA StartsInv == Init => StoreInv
<1> SUFFICES ASSUME Init PROVE StoreInv
    OBVIOUS
<1>1. \A p \in Programs : todo[p] = <<>> /\ buf[p] = <<>> /\ up[p] = "off"
    BY DEF Init
<1>2. Solo /\ \A p \in Programs : Pending(p) /\ Launching(p)
    BY <1>1 DEF Solo, Pending, Launching, Idle
<1>3. disk["rules"] = Absent => Fresh
    <2> HAVE disk["rules"] = Absent
    <2>1. disk["settings"].active = "" => \A g \in Groups : disk[g] = Absent
        BY StoreAssumption DEF Init
    <2>2. DefaultGroup \in Groups
        BY StoreAssumption
    <2> QED
        BY <2>1, <2>2 DEF Fresh
<1> QED
    BY <1>2, <1>3, StartsOK DEF StoreInv

\* The kinds of steps, as far as the rules in force go.
Working(p) == buf[p] = <<>> /\ todo[p] # <<>>

\* It goes on to its next phase, or begins an operation, and writes nothing.
Advances(p) ==
    /\ Working(p) \/ \A q \in Programs : Idle(q)
    /\ \E rest : todo' = [todo EXCEPT ![p] = rest]
    /\ UNCHANGED <<disk, buf>>

\* A write that is an edit of the rules on disk.
Edits1(p, w) == w.why.do = "editRules" /\ w.val = normalize(Edited(p, w.why.arg, disk["rules"]))

\* It prepares a write, of the rules only as an edit.
Prepares(p) ==
    /\ Working(p) /\ UNCHANGED disk
    /\ \E rest : todo' = [todo EXCEPT ![p] = rest]
    /\ \E w : buf' = [buf EXCEPT ![p] = <<w>>] /\ (w.file = "rules" => Edits1(p, w))

\* A write of another file.
LEMMA WritePrepares ==
    ASSUME NEW p, Working(p), NEW file, file # "rules", NEW val, NEW why, NEW rest,
           Write(p, file, val, why, rest)
    PROVE  Prepares(p)
<1> DEFINE w == [file |-> file, val |-> val, why |-> why, torn |-> FALSE]
<1>1. buf' = [buf EXCEPT ![p] = <<w>>] /\ todo' = [todo EXCEPT ![p] = rest] /\ UNCHANGED disk
    BY DEF Write
<1>2. w.file = file
    OBVIOUS
<1> HIDE DEF w
<1> QED
    BY <1>1, <1>2 DEF Prepares

\* A skipped phase.
LEMMA SkipAdvances ==
    ASSUME NEW p, Working(p), Skip(p)
    PROVE  Advances(p)
BY DEF Skip, Advances

\* A program with a phase at hand works.
LEMMA DoingWorks ==
    ASSUME NEW p, NEW do, Doing(p, do)
    PROVE  Working(p)
BY DEF Doing, Working

\* Without overlap an operation begins when all programs are idle.
LEMMA BeginAdvances ==
    ASSUME ~Overlap, NEW p, NEW phases, Begin(p, phases)
    PROVE  Advances(p)
<1>1. up[p] = "ready" /\ \A q \in Programs : Idle(q)
    BY DEF Begin, MayRun
<1>2. (\E rest : todo' = [todo EXCEPT ![p] = rest]) /\ UNCHANGED <<disk, buf>>
    BY Zenon DEF Begin
<1> QED
    BY <1>1, <1>2 DEF Advances

\* SaveGroup, when there is nothing to migrate.
LEMMA GroupSaved ==
    ASSUME NEW p, Working(p), disk["rules"] # Absent, NEW g, g # "rules", NEW kids, NEW why, NEW rest,
           SaveGroup(p, g, kids, why, rest)
    PROVE  Prepares(p)
BY WritePrepares DEF SaveGroup

\* No group has the name of rules.json.
LEMMA NotRules == \A g \in Groups : g # "rules"
BY StoreAssumption

\* All a program does to the disk and to its writes.
Kind(p) == Advances(p) \/ Prepares(p) \/ Flush(p) \/ Truncate(p) \/ Crash(p)

\* Every phase is of a kind.
LEMMA PhaseKinds ==
    ASSUME StoreTypes, ~Overlap, disk["rules"] # Absent, NEW p \in Programs, Step(p)
    PROVE  Kind(p)
<1>1. CASE Run(p)
    <2>1. MayRun(p) /\ (\E rest : todo' = [todo EXCEPT ![p] = rest]) /\ UNCHANGED <<disk, buf>>
        BY <1>1, Zenon DEF Run
    <2> QED
        BY <1>1, <2>1 DEF MayRun, Advances, Kind
<1>2. CASE Crash(p) \/ Flush(p) \/ Truncate(p)
    BY <1>2 DEF Kind
<1>3. CASE LoadRules(p)
    BY <1>3, DoingWorks, SkipAdvances DEF LoadRules, Kind
<1>4. CASE ListGroups(p)
    <2>1. Working(p)
        BY <1>4, DoingWorks DEF ListGroups
    <2>2. Skip(p) \/ \E g \in GroupFiles : SaveGroup(p, g, NormalizeLegacy(disk[g]), [do |-> "normalize"], todo[p])
        BY <1>4 DEF ListGroups
    <2>3. \A g \in GroupFiles : g # "rules"
        BY NotRules DEF GroupFiles
    <2> QED
        BY <2>1, <2>2, <2>3, SkipAdvances, GroupSaved DEF Kind
<1>5. CASE LoadData(p)
    <2>1. Working(p) /\ (\E rest : todo' = [todo EXCEPT ![p] = rest]) /\ UNCHANGED <<disk, buf>>
        BY <1>5, DoingWorks DEF LoadData
    <2> QED
        BY <2>1 DEF Advances, Kind
<1>6. CASE SaveSettings(p)
    BY <1>6, DoingWorks, WritePrepares DEF SaveSettings, Kind
<1>7. CASE UpsertProfile(p)
    BY <1>7, DoingWorks, WritePrepares DEF UpsertProfile, Kind
<1>8. CASE RemoveProfile(p)
    BY <1>8, DoingWorks, WritePrepares DEF RemoveProfile, Kind
<1>9. CASE EditActiveGroup(p)
    <2>1. Working(p)
        BY <1>9, DoingWorks DEF EditActiveGroup
    <2>2. Skip(p) \/ (\E kids, why, rest : SaveGroup(p, mem[p].settings.active, kids, why, rest))
        BY <1>9 DEF EditActiveGroup
    <2>3. mem[p].settings.active # "rules"
        BY StoreAssumption DEF StoreTypes, MemOK, Settings
    <2> QED
        BY <2>1, <2>2, <2>3, SkipAdvances, GroupSaved DEF Kind
<1>10. CASE NewGroup(p)
    <2>1. Working(p) /\ Arg(p) # "rules"
        BY <1>10, DoingWorks, HeadOK, NotRules DEF NewGroup
    <2> QED
        BY <1>10, <2>1, GroupSaved DEF NewGroup, Kind
<1>11. CASE DeleteGroup(p)
    <2>1. Working(p) /\ Arg(p) # "rules"
        BY <1>11, DoingWorks, HeadOK, NotRules DEF DeleteGroup
    <2> QED
        BY <1>11, <2>1, WritePrepares DEF DeleteGroup, Kind
<1>12. CASE ApplyEdit(p)
    <2> DEFINE n == normalize(Edited(p, Arg(p), disk["rules"]))
               y == Head(todo[p])
               w == [file |-> "rules", val |-> n, why |-> y, torn |-> FALSE]
    <2>1. Working(p) /\ y.do = "editRules" /\ y.arg = Arg(p)
        BY <1>12, DoingWorks DEF ApplyEdit, Doing, Arg
    <2>2. /\ buf' = [buf EXCEPT ![p] = <<w>>] /\ todo' = [todo EXCEPT ![p] = Tail(todo[p])] /\ UNCHANGED disk
        BY <1>12, Zenon DEF ApplyEdit, Write
    <2>3. n = normalize(Edited(p, y.arg, disk["rules"]))
        BY DEF Arg
    <2> HIDE DEF n, y
    <2>4. w.val = n /\ w.why = y
        OBVIOUS
    <2>5. Edits1(p, w)
        <3> HIDE DEF w
        <3> QED
            BY <2>1, <2>3, <2>4 DEF Edits1
    <2> HIDE DEF w
    <2> QED
        BY <2>1, <2>2, <2>5 DEF Prepares, Kind
<1> QED
    BY <1>1, <1>2, <1>3, <1>4, <1>5, <1>6, <1>7, <1>8, <1>9, <1>10, <1>11, <1>12 DEF Step

\* Every step is of a kind, or a commit of the desktop.
LEMMA NextKinds ==
    ASSUME StoreTypes, ~Overlap, disk["rules"] # Absent, Next
    PROVE  (\E p \in Programs : Kind(p)) \/ (\E e \in Edits : commit(e))
<1>0. "tui" \in Programs /\ "desk" \in Programs
    BY DEF Programs
<1>1. CASE \E p \in Programs : Step(p)
    BY <1>1, PhaseKinds
<1>2. CASE MigrateV2
    <2>1. Working("tui")
        BY <1>2, DoingWorks DEF MigrateV2
    <2>2. Skip("tui") \/ \E val, why, rest : Write("tui", DefaultGroup, val, why, rest)
        BY <1>2, Zenon DEF MigrateV2
    <2>3. DefaultGroup # "rules"
        BY StoreAssumption, NotRules
    <2> QED
        BY <1>0, <2>1, <2>2, <2>3, SkipAdvances, WritePrepares DEF Kind
<1>3. CASE MigrateV2Run
    <2>1. Working("desk")
        BY <1>3, DoingWorks DEF MigrateV2Run
    <2>2. Skip("desk") \/ ((\E rest : todo' = [todo EXCEPT !["desk"] = rest]) /\ UNCHANGED <<disk, buf>>)
        BY <1>3 DEF MigrateV2Run
    <2> QED
        BY <1>0, <2>1, <2>2, SkipAdvances DEF Kind, Advances
<1>4. CASE WriteDefault
    <2>1. DefaultGroup # "rules"
        BY StoreAssumption, NotRules
    <2> QED
        BY <1>0, <1>4, <2>1, DoingWorks, GroupSaved DEF WriteDefault, Kind
<1>5. CASE updateSettings \/ fetch
    <2>1. Working("desk") /\ (\E rest : todo' = [todo EXCEPT !["desk"] = rest]) /\ UNCHANGED <<disk, buf>>
        BY <1>5, DoingWorks DEF updateSettings, fetch
    <2> QED
        BY <1>0, <2>1 DEF Advances, Kind
<1>6. CASE RenameLoadedGroup
    <2>1. Working("desk") /\ Arg("desk").group # "rules"
        BY <1>0, <1>6, DoingWorks, HeadOK, NotRules DEF RenameLoadedGroup
    <2> QED
        BY <1>0, <1>6, <2>1, GroupSaved DEF RenameLoadedGroup, Kind
<1>7. CASE PutSettings
    BY <1>0, <1>7, DoingWorks, WritePrepares DEF PutSettings, Kind
<1>8. CASE SavePriorities
    <2>1. Working("tui")
        BY <1>8, DoingWorks DEF SavePriorities
    <2>2. \E val, why, rest : Write("tui", "priorities", val, why, rest)
        BY <1>8, Zenon DEF SavePriorities
    <2> QED
        BY <1>0, <2>1, <2>2, WritePrepares DEF Kind
<1>9. CASE \E e \in Edits : commit(e)
    BY <1>9
<1>10. CASE \E p \in Programs : \E phases : Begin(p, phases)
    BY <1>10, BeginAdvances DEF Kind
<1>11. ASSUME NEW x \in Profiles,
              \/ AddProfile(x) \/ UpdateProfile(x) \/ DeleteProfile(x) \/ RemoveFromActiveGroup(x)
              \/ attachNewProfilesToActiveGroup(x) \/ remove_profile_from_group(x) \/ removeProfile(x)
       PROVE  \E p \in Programs : \E phases : Begin(p, phases)
    BY <1>0, <1>11, Zenon DEF AddProfile, UpdateProfile, DeleteProfile, RemoveFromActiveGroup, attachNewProfilesToActiveGroup,
           remove_profile_from_group, removeProfile
<1>12. ASSUME \/ \E g \in Groups : SelectGroup(g) \/ handleSelectGroup(g)
              \/ RenameActiveGroup \/ CreateGroup \/ DeleteActiveGroup
              \/ handleRenameGroup \/ handleCreateEmptyGroup \/ handleDeleteActiveGroup
       PROVE  \E p \in Programs : \E phases : Begin(p, phases)
    BY <1>0, <1>12, Zenon DEF SelectGroup, handleSelectGroup, RenameActiveGroup, CreateGroup, DeleteActiveGroup,
           handleRenameGroup, handleCreateEmptyGroup, handleDeleteActiveGroup, Deleting
<1>13. ASSUME \/ \E e \in Edits : editRules(e) \/ recordObservedHosts(e)
              \/ saveSettingsPage(1)
              \/ \E v \in {3, 5} : SetHostPriority(<<"a", "com">>, v)
       PROVE  \E p \in Programs : \E phases : Begin(p, phases)
    BY <1>0, <1>13, Zenon DEF editRules, recordObservedHosts, saveSettingsPage, SetHostPriority
<1> QED
    BY <1>1, <1>2, <1>3, <1>4, <1>5, <1>6, <1>7, <1>8, <1>9, <1>10, <1>11, <1>12, <1>13 DEF Next

---------------------------------------------------------------------------
(* Edits, once rules.json exists                                           *)
\* What RulesOnlyEdited says of a step.
OneEdit ==
    \/ RulesInForce(disk') = RulesInForce(disk)
    \/ \E p \in Programs : \E b \in EditBy(p) :
          \/ RulesInForce(disk') = normalize(Edited(p, b.why.arg, RulesInForce(disk)))
          \/ b.why.do = "commit" /\ b.why.base # RulesInForce(disk)

\* A program that is at work is alone.
LEMMA Alone ==
    ASSUME Solo, NEW p \in Programs, ~Idle(p), NEW q \in Programs, q # p
    PROVE  Idle(q) /\ todo[q] = <<>> /\ buf[q] = <<>>
BY DEF Solo, Idle

\* One program stays alone at work.
LEMMA SoloKept ==
    ASSUME Solo, NEW p \in Programs, \A q \in Programs : q # p => Idle(q) /\ todo'[q] = todo[q] /\ buf'[q] = buf[q]
    PROVE  Solo'
<1>1. \A q \in Programs : q # p => Idle(q)'
    BY DEF Idle
<1> QED
    BY <1>1 DEF Solo

\* As long as no one writes the disk, a write of rules.json stays good.
LEMMA PendingKept ==
    ASSUME NEW p \in Programs, Pending(p), buf'[p] = buf[p], disk' = disk
    PROVE  Pending(p)'
BY DEF Pending

\* A program without a prepared write.
LEMMA NoPending ==
    ASSUME NEW p \in Programs, buf'[p] = <<>>
    PROVE  Pending(p)'
BY DEF Pending

\* The write of rules.json is one edit, or changes nothing.
LEMMA FlushEdits ==
    ASSUME StoreTypes, AbsentIsNoFile, NEW p \in Programs, Pending(p), Flush(p), buf[p][1].file = "rules"
    PROVE  OneEdit /\ disk'["rules"] # Absent
<1>1. PICK w : buf[p] = <<w>> /\ WriteOK(w)
    BY DEF StoreTypes, Flush
<1>2. w = buf[p][1] /\ w.file = "rules" /\ RuleSetOK(w.val) /\ w.val # Absent
    BY <1>1, Present DEF WriteOK, ValueOK
<1>3. disk' = [disk EXCEPT !["rules"] = w.val]
    BY <1>1, <1>2 DEF Flush
<1>4. disk'["rules"] = w.val
    BY <1>3 DEF StoreTypes, DiskOK, Files
<1>5. RulesInForce(disk') = w.val
    BY <1>2, <1>4 DEF RulesInForce
<1>6. w.why.do \in {"editRules", "commit"} => w \in EditBy(p)
    BY <1>1, <1>2 DEF EditBy, ToSet
<1>7. \/ w.why.do = "migrate" /\ w.val = RulesInForce(disk)
      \/ /\ w.why.do = "editRules" /\ disk["rules"] # Absent
         /\ w.val = normalize(Edited(p, w.why.arg, disk["rules"]))
      \/ w.why.do = "commit" /\ w.val = normalize(Edited(p, w.why.arg, w.why.base))
    BY <1>1, <1>2 DEF Pending
<1>8. CASE w.why.do = "migrate" /\ w.val = RulesInForce(disk)
    BY <1>2, <1>4, <1>5, <1>8 DEF OneEdit
<1>9. CASE /\ w.why.do = "editRules" /\ disk["rules"] # Absent
           /\ w.val = normalize(Edited(p, w.why.arg, disk["rules"]))
    <2>1. RulesInForce(disk) = disk["rules"]
        BY <1>9 DEF RulesInForce
    <2> QED
        BY <1>2, <1>4, <1>5, <1>6, <1>9, <2>1 DEF OneEdit
<1>10. CASE w.why.do = "commit" /\ w.val = normalize(Edited(p, w.why.arg, w.why.base))
    <2>1. w.why.base # RulesInForce(disk) \/ w.val = normalize(Edited(p, w.why.arg, RulesInForce(disk)))
        BY <1>10
    <2> QED
        BY <1>2, <1>4, <1>5, <1>6, <1>10, <2>1 DEF OneEdit
<1> QED
    BY <1>7, <1>8, <1>9, <1>10

\* A write that is not of rules.json, once rules.json exists.
LEMMA OtherWrites ==
    ASSUME StoreTypes, disk["rules"] # Absent, NEW file, file # "rules", NEW v, disk' = [disk EXCEPT ![file] = v]
    PROVE  RulesInForce(disk') = RulesInForce(disk) /\ disk'["rules"] # Absent
<1>1. disk'["rules"] = disk["rules"]
    BY DEF StoreTypes, DiskOK, Files
<1> QED
    BY <1>1 DEF RulesInForce

\* With rules.json there, every step keeps the invariant and is one edit.
LEMMA PresentKeeps ==
    ASSUME StoreInv, AbsentIsNoFile, ~Overlap, disk["rules"] # Absent, Next
    PROVE  Solo' /\ (\A q \in Programs : Pending(q)') /\ disk'["rules"] # Absent /\ OneEdit
<1>0. StoreTypes /\ Solo /\ \A q \in Programs : Pending(q)
    BY DEF StoreInv
<1>b. buf = [q \in Programs |-> buf[q]] /\ todo = [q \in Programs |-> todo[q]]
    BY <1>0 DEF StoreTypes
<1>s. disk' = disk => disk'["rules"] # Absent /\ OneEdit
    BY DEF OneEdit
<1>1. ASSUME NEW p \in Programs, Advances(p)
      PROVE  Solo' /\ (\A q \in Programs : Pending(q)') /\ disk'["rules"] # Absent /\ OneEdit
    <2>1. \A q \in Programs : q # p => Idle(q)
        BY <1>0, <1>1 DEF Advances, Working, Solo, Idle
    <2>2. PICK rest : todo' = [todo EXCEPT ![p] = rest]
        BY <1>1 DEF Advances
    <2>3. UNCHANGED <<disk, buf>>
        BY <1>1 DEF Advances
    <2>4. \A q \in Programs : buf'[q] = buf[q] /\ (q # p => todo'[q] = todo[q])
        BY <1>b, <2>2, <2>3
    <2> QED
        BY <1>0, <1>s, <2>1, <2>3, <2>4, SoloKept, PendingKept
<1>2. ASSUME NEW p \in Programs, Prepares(p)
      PROVE  Solo' /\ (\A q \in Programs : Pending(q)') /\ disk'["rules"] # Absent /\ OneEdit
    <2>1. ~Idle(p) /\ disk' = disk
        BY <1>2 DEF Prepares, Working, Idle
    <2>2. PICK rest : todo' = [todo EXCEPT ![p] = rest]
        BY <1>2 DEF Prepares
    <2>3. PICK w : buf' = [buf EXCEPT ![p] = <<w>>] /\ (w.file = "rules" => Edits1(p, w))
        BY <1>2 DEF Prepares
    <2>4. \A q \in Programs : q # p => Idle(q) /\ todo'[q] = todo[q] /\ buf'[q] = buf[q]
        BY <1>0, <1>b, <2>1, <2>2, <2>3, Alone
    <2>5. buf'[p] = <<w>>
        BY <1>b, <2>3
    <2>6. Pending(p)'
        <3> SUFFICES ASSUME w.file = "rules" PROVE Pending(p)'
            BY <2>5 DEF Pending
        <3>1. w.why.do = "editRules" /\ w.val = normalize(Edited(p, w.why.arg, disk["rules"]))
            BY <2>3 DEF Edits1
        <3> QED
            BY <2>1, <2>5, <3>1 DEF Pending
    <2>7. \A q \in Programs : Pending(q)'
        BY <1>0, <2>1, <2>4, <2>6, PendingKept
    <2> QED
        BY <1>0, <1>s, <2>1, <2>4, <2>7, SoloKept
<1>3. ASSUME NEW p \in Programs, Flush(p)
      PROVE  Solo' /\ (\A q \in Programs : Pending(q)') /\ disk'["rules"] # Absent /\ OneEdit
    <2>1. ~Idle(p) /\ todo' = todo /\ buf' = [buf EXCEPT ![p] = <<>>] /\ disk' = [disk EXCEPT ![buf[p][1].file] = buf[p][1].val]
        BY <1>3 DEF Flush, Idle
    <2>2. \A q \in Programs : q # p => Idle(q) /\ todo'[q] = todo[q] /\ buf'[q] = buf[q] /\ buf[q] = <<>>
        BY <1>0, <1>b, <2>1, Alone
    <2>3. \A q \in Programs : buf'[q] = <<>>
        BY <1>b, <2>1, <2>2
    <2>4. disk'["rules"] # Absent /\ OneEdit
        <3>1. CASE buf[p][1].file = "rules"
            BY <1>0, <1>3, <3>1, FlushEdits
        <3>2. CASE buf[p][1].file # "rules"
            BY <1>0, <2>1, <3>2, OtherWrites DEF OneEdit
        <3> QED
            BY <3>1, <3>2
    <2> QED
        BY <1>0, <2>2, <2>3, <2>4, SoloKept, NoPending
<1>4. ASSUME NEW p \in Programs, Truncate(p)
      PROVE  Solo' /\ (\A q \in Programs : Pending(q)') /\ disk'["rules"] # Absent /\ OneEdit
    <2> DEFINE w == buf[p][1]
               x == [w EXCEPT !.torn = TRUE]
    <2>1. ~Idle(p) /\ todo' = todo /\ buf' = [buf EXCEPT ![p] = <<x>>] /\ w.file # "rules"
        BY <1>4 DEF Truncate, Idle
    <2>2. \E v : disk' = [disk EXCEPT ![w.file] = v]
        BY <1>4, Zenon DEF Truncate
    <2>3. x.file = w.file
        <3>1. \E y : buf[p] = <<y>> /\ WriteOK(y)
            BY <1>0, <1>4 DEF StoreTypes, Truncate
        <3>2. DOMAIN w = {"file", "val", "why", "torn"}
            BY <3>1 DEF WriteOK
        <3> HIDE DEF w
        <3> QED
            BY <3>2
    <2> HIDE DEF x, w
    <2>4. \A q \in Programs : q # p => Idle(q) /\ todo'[q] = todo[q] /\ buf'[q] = buf[q] /\ buf[q] = <<>>
        BY <1>0, <1>b, <2>1, Alone
    <2>5. buf'[p] = <<x>>
        BY <1>b, <2>1
    <2>6. \A q \in Programs : Pending(q)'
        BY <2>1, <2>3, <2>4, <2>5, NoPending DEF Pending
    <2>7. disk'["rules"] # Absent /\ OneEdit
        BY <1>0, <2>1, <2>2, OtherWrites DEF OneEdit
    <2> QED
        BY <1>0, <2>4, <2>6, <2>7, SoloKept
<1>5. ASSUME NEW p \in Programs, Crash(p)
      PROVE  Solo' /\ (\A q \in Programs : Pending(q)') /\ disk'["rules"] # Absent /\ OneEdit
    <2>1. /\ todo' = [todo EXCEPT ![p] = <<>>] /\ buf' = [buf EXCEPT ![p] = <<>>] /\ disk' = disk
        BY <1>5 DEF Crash
    <2>2. \A q \in Programs : IF q = p THEN todo'[q] = <<>> /\ buf'[q] = <<>>
                              ELSE todo'[q] = todo[q] /\ buf'[q] = buf[q]
        BY <1>b, <2>1
    <2>3. Solo'
        BY <1>0, <2>2 DEF Solo, Idle
    <2>4. \A q \in Programs : Pending(q)'
        BY <1>0, <2>1, <2>2, PendingKept, NoPending
    <2> QED
        BY <1>s, <2>1, <2>3, <2>4
<1>6. ASSUME NEW e \in Edits, commit(e)
      PROVE  Solo' /\ (\A q \in Programs : Pending(q)') /\ disk'["rules"] # Absent /\ OneEdit
    <2> DEFINE base == mem["desk"].rules
               n == normalize(Edited("desk", e, base))
               why == [do |-> "commit", arg |-> e, base |-> base]
               w == [file |-> "rules", val |-> n, why |-> why, torn |-> FALSE]
    <2>1. /\ \A q \in Programs : Idle(q)
          /\ buf' = [buf EXCEPT !["desk"] = <<w>>] /\ UNCHANGED <<disk, todo>>
        BY <1>6, Zenon DEF commit, MayRun
    <2> HIDE DEF base
    <2>2. why.do = "commit" /\ why.arg = e /\ why.base = base
        OBVIOUS
    <2> HIDE DEF n, why
    <2>3. w.file = "rules" /\ w.val = n /\ w.why = why
        OBVIOUS
    <2> HIDE DEF w
    <2>4. buf'["desk"] = <<w>> /\ \A q \in Programs : q # "desk" => buf'[q] = buf[q]
        BY <1>b, <2>1 DEF Programs
    <2>5. Solo'
        BY <1>0, <2>1, <2>4, SoloKept DEF Programs
    <2>6. Pending("desk")'
        <3>1. w.why.do = "commit" /\ w.val = normalize(Edited("desk", w.why.arg, w.why.base))
            BY <2>2, <2>3 DEF n
        <3> QED
            BY <2>4, <3>1 DEF Pending
    <2>7. \A q \in Programs : Pending(q)'
        BY <1>0, <2>1, <2>4, <2>6, PendingKept
    <2> QED
        BY <1>s, <2>1, <2>5, <2>7
<1> QED
    BY <1>0, <1>1, <1>2, <1>3, <1>4, <1>5, <1>6, NextKinds DEF Kind

---------------------------------------------------------------------------
(* Before rules.json exists: the shapes of a launch                        *)
\* The part of StoreInv that is about launches.
Launched == disk["rules"] = Absent => Fresh /\ \A p \in Programs : Launching(p)

\* StoreInv, without the types.
Good == Solo /\ (\A q \in Programs : Pending(q)) /\ Launched

\* The phases of a launch, one by one.
LEMMA LoadHeads ==
    /\ LoadPhases # <<>> /\ Head(LoadPhases) = Phase("loadRules", 0)
    /\ \A x : <<x>> \o LoadPhases # <<>> /\ Head(<<x>> \o LoadPhases) = x /\ Tail(<<x>> \o LoadPhases) = LoadPhases
<1>1. LoadPhases \in Seq({Phase("loadRules", 0), Phase("listGroups", 0), Phase("load", 0)})
    BY DEF LoadPhases
<1>2. LoadPhases # <<>> /\ Head(LoadPhases) = Phase("loadRules", 0)
    BY DEF LoadPhases
<1>3. ASSUME NEW x
      PROVE  <<x>> \o LoadPhases # <<>> /\ Head(<<x>> \o LoadPhases) = x /\ Tail(<<x>> \o LoadPhases) = LoadPhases
    <2> DEFINE S == {Phase("loadRules", 0), Phase("listGroups", 0), Phase("load", 0), x}
               l == LoadPhases
    <2>1. l \in Seq(S) /\ x \in S
        BY <1>1
    <2> HIDE DEF S, l
    <2>2. <<x>> \o l # <<>> /\ Head(<<x>> \o l) = x /\ Tail(<<x>> \o l) = l
        <3>1. <<x>> \in Seq(S)
            BY <2>1
        <3> QED
            BY <2>1, <3>1
    <2> QED
        BY <2>2 DEF l
<1> QED
    BY <1>2, <1>3

\* What a program does before rules.json exists.
LEMMA LaunchHeads ==
    ASSUME NEW p \in Programs, Launching(p), NEW do, Doing(p, do)
    PROVE  /\ up[p] = "starting" /\ buf[p] = <<>>
           /\ \/ do = "migrate" /\ todo[p] = <<Phase("migrate", 0)>> \o LoadPhases
              \/ do = "loadRules" /\ disk[DefaultGroup] # Absent /\ todo[p] = LoadPhases
              \/ /\ do = "settings" /\ p = "tui" /\ disk[DefaultGroup] # Absent
                 /\ \E s \in Settings : Selects(s) /\ todo[p] = <<Phase("settings", s)>> \o LoadPhases
<1>1. buf[p] = <<>> /\ todo[p] # <<>> /\ Head(todo[p]).do = do
    BY DEF Doing
<1>2. up[p] = "starting"
    BY <1>1 DEF Launching, Idle
<1>3. CASE todo[p] = <<Phase("migrate", 0)>> \o LoadPhases
    BY <1>1, <1>2, <1>3, LoadHeads DEF Phase
<1>4. CASE disk[DefaultGroup] # Absent /\ todo[p] = LoadPhases
    BY <1>1, <1>2, <1>4, LoadHeads DEF Phase
<1>5. CASE disk[DefaultGroup] # Absent /\ p = "tui" /\ AfterDefault(p)
    <2>1. CASE todo[p] = LoadPhases
        BY <1>4, <1>5, <2>1
    <2>2. ASSUME NEW s \in Settings, Selects(s), todo[p] = <<Phase("settings", s)>> \o LoadPhases
          PROVE  /\ do = "settings" /\ p = "tui" /\ disk[DefaultGroup] # Absent
                 /\ \E t \in Settings : Selects(t) /\ todo[p] = <<Phase("settings", t)>> \o LoadPhases
        BY <1>1, <1>5, <2>2, LoadHeads DEF Phase
    <2> QED
        BY <1>1, <1>2, <1>5, <2>1, <2>2 DEF AfterDefault
<1> QED
    BY <1>1, <1>3, <1>4, <1>5 DEF Launching, Idle

\* Which steps there are without rules.json.
LEMMA AbsentKinds ==
    ASSUME StoreInv, disk["rules"] = Absent, Next
    PROVE  \/ \E p \in Programs : Run(p) \/ Crash(p) \/ Flush(p) \/ LoadRules(p)
           \/ SaveSettings("tui") \/ MigrateV2 \/ MigrateV2Run
<1>0. \A p \in Programs : Launching(p)
    BY DEF StoreInv
<1>1. \A p \in Programs : up[p] # "ready"
    BY <1>0 DEF Launching
<1>2. \A p \in Programs : \A do : Doing(p, do) => do \in {"migrate", "loadRules", "settings"} /\ (do = "settings" => p = "tui")
    BY <1>0, LaunchHeads
<1>3. \A p \in Programs : \A phases : ~Begin(p, phases)
    BY <1>1 DEF Begin
<1>4. "tui" \in Programs /\ "desk" \in Programs
    BY DEF Programs
<1>5. \A p \in Programs : ~Truncate(p)
    <2> SUFFICES ASSUME NEW p \in Programs, Truncate(p) PROVE FALSE
        OBVIOUS
    <2>1. p = "desk" /\ buf[p] # <<>> /\ buf[p][1].file # "rules"
        BY DEF Truncate
    <2> QED
        BY <1>0, <2>1 DEF Launching, Idle
<1>6. ASSUME NEW p \in Programs, Step(p)
      PROVE  Run(p) \/ Crash(p) \/ Flush(p) \/ LoadRules(p) \/ (p = "tui" /\ SaveSettings("tui"))
    <2>1. /\ ~ListGroups(p) /\ ~LoadData(p) /\ ~UpsertProfile(p) /\ ~RemoveProfile(p) /\ ~EditActiveGroup(p)
          /\ ~NewGroup(p) /\ ~DeleteGroup(p) /\ ~ApplyEdit(p)
        BY <1>2 DEF ListGroups, LoadData, UpsertProfile, RemoveProfile, EditActiveGroup, NewGroup, DeleteGroup, ApplyEdit
    <2>2. SaveSettings(p) => p = "tui"
        BY <1>2 DEF SaveSettings
    <2> QED
        BY <1>5, <1>6, <2>1, <2>2 DEF Step
<1>7. ~WriteDefault /\ ~updateSettings /\ ~fetch /\ ~RenameLoadedGroup /\ ~PutSettings /\ ~SavePriorities
    BY <1>2, <1>4 DEF WriteDefault, updateSettings, fetch, RenameLoadedGroup, PutSettings, SavePriorities
<1>8. ~\E x \in Profiles :
        \/ AddProfile(x) \/ UpdateProfile(x) \/ DeleteProfile(x) \/ RemoveFromActiveGroup(x)
        \/ attachNewProfilesToActiveGroup(x) \/ remove_profile_from_group(x) \/ removeProfile(x)
    BY <1>3, <1>4 DEF AddProfile, UpdateProfile, DeleteProfile, RemoveFromActiveGroup, attachNewProfilesToActiveGroup,
           remove_profile_from_group, removeProfile
<1>9. /\ ~(\E g \in Groups : SelectGroup(g) \/ handleSelectGroup(g))
      /\ ~RenameActiveGroup /\ ~CreateGroup /\ ~DeleteActiveGroup
      /\ ~handleRenameGroup /\ ~handleCreateEmptyGroup /\ ~handleDeleteActiveGroup
    BY <1>3, <1>4, Zenon DEF SelectGroup, handleSelectGroup, RenameActiveGroup, CreateGroup, DeleteActiveGroup,
           handleRenameGroup, handleCreateEmptyGroup, handleDeleteActiveGroup, Deleting
<1>10. /\ ~\E e \in Edits : editRules(e) \/ recordObservedHosts(e) \/ commit(e)
       /\ ~saveSettingsPage(1)
       /\ ~\E v \in {3, 5} : SetHostPriority(<<"a", "com">>, v)
    BY <1>1, <1>3, <1>4, Zenon DEF editRules, recordObservedHosts, commit, saveSettingsPage, SetHostPriority
<1> QED
    BY <1>6, <1>7, <1>8, <1>9, <1>10 DEF Next

\* The other program has not been started.
LEMMA OthersOff ==
    ASSUME StoreInv, disk["rules"] = Absent, NEW p \in Programs, ~Idle(p), NEW q \in Programs, q # p
    PROVE  up[q] = "off" /\ Idle(q) /\ todo[q] = <<>> /\ buf[q] = <<>>
<1>1. Idle(q) /\ todo[q] = <<>> /\ buf[q] = <<>> /\ Launching(q)
    BY Alone DEF StoreInv
<1>2. todo[q] # <<Phase("migrate", 0)>> \o LoadPhases /\ todo[q] # LoadPhases
      /\ \A s : todo[q] # <<Phase("settings", s)>> \o LoadPhases
    BY <1>1, LoadHeads
<1> QED
    BY <1>1, <1>2 DEF Launching, AfterDefault

\* An idle program has not been started.
LEMMA IdleOff ==
    ASSUME NEW q \in Programs, Launching(q), Idle(q)
    PROVE  up[q] = "off"
<1>1. todo[q] = <<>> /\ buf[q] = <<>>
    BY DEF Idle
<1>2. todo[q] # <<Phase("migrate", 0)>> \o LoadPhases /\ todo[q] # LoadPhases
      /\ \A s : todo[q] # <<Phase("settings", s)>> \o LoadPhases
    BY <1>1, LoadHeads
<1> QED
    BY <1>1, <1>2 DEF Launching, AfterDefault

\* A program that is off, and stays so in this step.
Off(q) == Idle(q) /\ up[q] = "off" /\ todo'[q] = todo[q] /\ buf'[q] = buf[q] /\ up'[q] = up[q]

\* A step of one program before rules.json exists, while the other is off.
LEMMA AbsentKept ==
    ASSUME StoreInv, disk["rules"] = Absent, NEW p \in Programs, \A q \in Programs : q # p => Off(q),
           RulesInForce(disk') = RulesInForce(disk), Fresh', Launching(p)', Pending(p)'
    PROVE  Good' /\ OneEdit
<1>1. \A q \in Programs : q # p => Launching(q)' /\ Pending(q)'
    BY DEF Off, Idle, Launching, Pending
<1>2. Solo'
    BY SoloKept DEF Off, StoreInv
<1> QED
    BY <1>1, <1>2 DEF Good, Launched, OneEdit

\* Starting a program.
LEMMA RunsFirst ==
    ASSUME StoreInv, ~Overlap, disk["rules"] = Absent, NEW p \in Programs, Run(p)
    PROVE  Good' /\ OneEdit
<1>1. /\ \A q \in Programs : Idle(q)
      /\ up' = [up EXCEPT ![p] = "starting"] /\ UNCHANGED <<disk, buf>>
      /\ todo' = [todo EXCEPT ![p] = <<Phase("migrate", 0)>> \o LoadPhases]
    BY DEF Run, MayRun
<1>2. /\ up'[p] = "starting" /\ todo'[p] = <<Phase("migrate", 0)>> \o LoadPhases /\ buf'[p] = <<>>
      /\ \A q \in Programs : q # p => up'[q] = up[q] /\ todo'[q] = todo[q] /\ buf'[q] = buf[q]
    BY <1>1 DEF StoreInv, StoreTypes, Idle
<1>3. \A q \in Programs : q # p => Off(q)
    BY <1>1, <1>2, IdleOff DEF Off, StoreInv
<1>4. Launching(p)' /\ Pending(p)'
    BY <1>2 DEF Launching, Pending
<1>5. RulesInForce(disk') = RulesInForce(disk) /\ Fresh'
    BY <1>1 DEF StoreInv, Fresh, Moved, RoutesAsGroup
<1> QED
    BY <1>3, <1>4, <1>5, AbsentKept

\* Killing one.
LEMMA CrashesFirst ==
    ASSUME StoreInv, disk["rules"] = Absent, NEW p \in Programs, Crash(p)
    PROVE  Good' /\ OneEdit
<1>1. /\ up[p] # "off" /\ up' = [up EXCEPT ![p] = "off"] /\ todo' = [todo EXCEPT ![p] = <<>>]
      /\ buf' = [buf EXCEPT ![p] = <<>>] /\ disk' = disk
    BY DEF Crash
<1>2. /\ up'[p] = "off" /\ todo'[p] = <<>> /\ buf'[p] = <<>>
      /\ \A q \in Programs : q # p => up'[q] = up[q] /\ todo'[q] = todo[q] /\ buf'[q] = buf[q]
    BY <1>1 DEF StoreInv, StoreTypes
<1>3. ~Idle(p)
    BY <1>1, IdleOff DEF StoreInv
<1>4. \A q \in Programs : q # p => Off(q)
    BY <1>2, <1>3, OthersOff DEF Off
<1>5. Launching(p)' /\ Pending(p)'
    BY <1>2 DEF Launching, Pending, Idle
<1>6. RulesInForce(disk') = RulesInForce(disk) /\ Fresh'
    BY <1>1 DEF StoreInv, Fresh, Moved, RoutesAsGroup
<1> QED
    BY <1>4, <1>5, <1>6, AbsentKept

\* A phase of the launch: what it leaves to do, and the write it prepares.
LEMMA PhaseFrame ==
    ASSUME StoreInv, disk["rules"] = Absent, NEW p \in Programs, Working(p), NEW rest,
           todo' = [todo EXCEPT ![p] = rest], UNCHANGED <<disk, up>>,
           buf' = buf \/ \E w : buf' = [buf EXCEPT ![p] = <<w>>]
    PROVE  /\ todo'[p] = rest /\ (buf' = buf => buf'[p] = <<>>)
           /\ \A w : buf' = [buf EXCEPT ![p] = <<w>>] => buf'[p] = <<w>>
           /\ up'[p] = up[p] /\ (\A q \in Programs : q # p => Off(q))
           /\ RulesInForce(disk') = RulesInForce(disk) /\ Fresh'
<1>1. ~Idle(p)
    BY DEF Working, Idle
<1>2. /\ todo'[p] = rest /\ (buf' = buf => buf'[p] = <<>>) /\ up'[p] = up[p]
      /\ \A w : buf' = [buf EXCEPT ![p] = <<w>>] => buf'[p] = <<w>>
      /\ \A q \in Programs : q # p => up'[q] = up[q] /\ todo'[q] = todo[q] /\ buf'[q] = buf[q]
    BY DEF StoreInv, StoreTypes, Working
<1>3. \A q \in Programs : q # p => Off(q)
    BY <1>1, <1>2, OthersOff DEF Off
<1>4. RulesInForce(disk') = RulesInForce(disk) /\ Fresh'
    BY DEF StoreInv, Fresh, Moved, RoutesAsGroup
<1> QED
    BY <1>2, <1>3, <1>4

\* The merge that creates rules.json is under way.
LEMMA MergePrepared ==
    ASSUME StoreInv, disk["rules"] = Absent, NEW p \in Programs, Working(p), up[p] = "starting",
           NEW val, val = RulesInForce(disk), NEW rest, Write(p, "rules", val, [do |-> "migrate"], rest)
    PROVE  Good' /\ OneEdit
<1> DEFINE w == [file |-> "rules", val |-> val, why |-> [do |-> "migrate"], torn |-> FALSE]
<1>1. w.file = "rules" /\ w.val = val /\ w.why.do = "migrate"
    OBVIOUS
<1>2. buf' = [buf EXCEPT ![p] = <<w>>] /\ todo' = [todo EXCEPT ![p] = rest] /\ UNCHANGED <<disk, up>>
    BY DEF Write
<1> HIDE DEF w
<1>3. /\ buf'[p] = <<w>> /\ up'[p] = "starting" /\ (\A q \in Programs : q # p => Off(q))
      /\ RulesInForce(disk') = RulesInForce(disk) /\ Fresh'
    BY <1>2, PhaseFrame
<1>4. Launching(p)' /\ Pending(p)'
    BY <1>1, <1>3 DEF Launching, Pending
<1> QED
    BY <1>3, <1>4, AbsentKept

\* LoadRules migrates.
LEMMA LoadsFirst ==
    ASSUME StoreInv, AbsentIsNoFile, disk["rules"] = Absent, NEW p \in Programs, LoadRules(p)
    PROVE  Good' /\ OneEdit
<1>1. Doing(p, "loadRules") /\ Working(p)
    BY DoingWorks DEF LoadRules
<1>2. up[p] = "starting" /\ disk[DefaultGroup] # Absent
    BY <1>1, LaunchHeads DEF StoreInv
<1>3. normalize(Migrated(p)) = RulesInForce(disk)
    BY <1>2, MigratedInForce DEF StoreInv
<1>4. Write(p, "rules", normalize(Migrated(p)), [do |-> "migrate"], Tail(todo[p]))
    BY DEF LoadRules
<1> QED
    BY <1>1, <1>2, <1>3, <1>4, MergePrepared

\* SaveSettings selects the default group.
LEMMA SettlesFirst ==
    ASSUME StoreInv, disk["rules"] = Absent, SaveSettings("tui")
    PROVE  Good' /\ OneEdit
<1> DEFINE p == "tui"
           y == Head(todo[p])
<1>0. p \in Programs
    BY DEF Programs
<1>1. Doing(p, "settings") /\ Working(p)
    BY DoingWorks DEF SaveSettings
<1>2. /\ up[p] = "starting" /\ disk[DefaultGroup] # Absent
      /\ \E s \in Settings : Selects(s) /\ todo[p] = <<Phase("settings", s)>> \o LoadPhases
    BY <1>0, <1>1, LaunchHeads DEF StoreInv
<1>3. Selects(Arg(p)) /\ Tail(todo[p]) = LoadPhases
    BY <1>2, LoadHeads DEF Arg, Phase
<1>4. todo' = [todo EXCEPT ![p] = Tail(todo[p])] /\ UNCHANGED <<disk, up>>
    BY DEF SaveSettings, Write
<1>5. PICK w : buf' = [buf EXCEPT ![p] = <<w>>] /\ w.file = "settings" /\ Selects(w.val)
    <2> DEFINE v == [file |-> "settings", val |-> Arg(p), why |-> y, torn |-> FALSE]
    <2>1. buf' = [buf EXCEPT ![p] = <<v>>]
        BY DEF SaveSettings, Write
    <2>2. v.file = "settings" /\ v.val = Arg(p)
        OBVIOUS
    <2> HIDE DEF v
    <2> QED
        BY <1>3, <2>1, <2>2
<1>6. /\ buf'[p] = <<w>> /\ up'[p] = "starting" /\ todo'[p] = LoadPhases /\ (\A q \in Programs : q # p => Off(q))
      /\ RulesInForce(disk') = RulesInForce(disk) /\ Fresh'
    BY <1>0, <1>1, <1>2, <1>3, <1>4, <1>5, PhaseFrame
<1>7. Selects(w.val)'
    BY <1>4, <1>5 DEF Selects
<1>8. Launching(p)' /\ Pending(p)'
    <2>1. buf'[p] # <<>> /\ buf'[p][1] = w
        BY <1>6
    <2>2. disk'[DefaultGroup] # Absent
        BY <1>2, <1>4
    <2> QED
        BY <1>5, <1>6, <1>7, <2>1, <2>2 DEF Launching, Pending
<1> QED
    BY <1>0, <1>6, <1>8, AbsentKept

---------------------------------------------------------------------------
(* Before rules.json exists: the migration and the writes                  *)
\* MigrateV2 of the TUI.
LEMMA MigratesFirst ==
    ASSUME StoreInv, disk["rules"] = Absent, MigrateV2
    PROVE  Good' /\ OneEdit
<1> DEFINE p == "tui"
           s == [disk["settings"] EXCEPT !.active = DefaultGroup]
<1>0. p \in Programs /\ disk["settings"] \in Settings /\ disk["profiles"] \in SUBSET Profiles
    BY DEF Programs, StoreInv, StoreTypes, DiskOK
<1>1. Doing(p, "migrate") /\ Working(p)
    BY DoingWorks DEF MigrateV2
<1>2. up[p] = "starting" /\ buf[p] = <<>> /\ todo[p] = <<Phase("migrate", 0)>> \o LoadPhases
    BY <1>0, <1>1, LaunchHeads DEF StoreInv
<1>3. Tail(todo[p]) = LoadPhases
    BY <1>2, LoadHeads
<1>4. CASE disk[DefaultGroup] # Absent
    <2>1. todo' = [todo EXCEPT ![p] = LoadPhases] /\ UNCHANGED <<disk, up>> /\ buf' = buf
        BY <1>3, <1>4 DEF MigrateV2, Skip
    <2>2. /\ buf'[p] = <<>> /\ up'[p] = "starting" /\ todo'[p] = LoadPhases /\ (\A q \in Programs : q # p => Off(q))
          /\ RulesInForce(disk') = RulesInForce(disk) /\ Fresh'
        BY <1>0, <1>1, <1>2, <2>1, PhaseFrame
    <2>3. Launching(p)' /\ Pending(p)'
        <3>1. disk'[DefaultGroup] # Absent
            BY <1>4, <2>1
        <3> QED
            BY <2>2, <3>1 DEF Launching, Pending
    <2> QED
        BY <1>0, <2>2, <2>3, AbsentKept
<1>5. CASE disk[DefaultGroup] = Absent
    <2>1. s \in Settings /\ s.active = DefaultGroup
        BY <1>0, StoreAssumption DEF Settings
    <2> HIDE DEF s
    <2>2. PICK rest : /\ todo' = [todo EXCEPT ![p] = rest]
                      /\ \/ rest = LoadPhases
                         \/ \E t \in Settings : Selects(t) /\ rest = <<Phase("settings", t)>> \o LoadPhases
        <3>1. CASE disk["settings"].active = ""
            <4>1. todo' = [todo EXCEPT ![p] = <<Phase("settings", s)>> \o LoadPhases]
                BY <1>3, <1>5, <3>1 DEF MigrateV2, Write, s
            <4> QED
                BY <2>1, <3>1, <4>1 DEF Selects
        <3>2. CASE disk["settings"].active # ""
            <4>1. todo' = [todo EXCEPT ![p] = LoadPhases]
                BY <1>3, <1>5, <3>2 DEF MigrateV2, Write
            <4> QED
                BY <4>1
        <3> QED
            BY <3>1, <3>2
    <2>3. PICK w : buf' = [buf EXCEPT ![p] = <<w>>] /\ w.file = DefaultGroup /\ \E k \in SUBSET Profiles : w.val = Moved(k)
        <3> DEFINE c == IF disk["rules"] # Absent THEN Absent ELSE RoutesAsGroup(disk, "tunnel")
                   v == [kids |-> disk["profiles"], legacyKids |-> {}, blank |-> FALSE, carried |-> c]
                   y == [file |-> DefaultGroup, val |-> v, why |-> [do |-> "default"], torn |-> FALSE]
        <3>1. buf' = [buf EXCEPT ![p] = <<y>>]
            BY <1>5, Zenon DEF MigrateV2, Write
        <3>2. c = RoutesAsGroup(disk, "tunnel")
            OBVIOUS
        <3> HIDE DEF c
        <3>3. v = Moved(disk["profiles"])
            BY <3>2, Zenon DEF Moved
        <3> HIDE DEF v
        <3>4. y.file = DefaultGroup /\ y.val = v
            OBVIOUS
        <3> HIDE DEF y
        <3> QED
            BY <1>0, <3>1, <3>3, <3>4
    <2>4. UNCHANGED <<disk, up>>
        BY <1>5 DEF MigrateV2, Write
    <2>5. /\ buf'[p] = <<w>> /\ up'[p] = "starting" /\ todo'[p] = rest /\ (\A q \in Programs : q # p => Off(q))
          /\ RulesInForce(disk') = RulesInForce(disk) /\ Fresh'
        BY <1>0, <1>1, <1>2, <2>2, <2>3, <2>4, PhaseFrame
    <2>6. AfterDefault(p)'
        BY <2>2, <2>4, <2>5 DEF AfterDefault, Selects
    <2>7. \E k \in SUBSET Profiles : w.val = Moved(k)'
        BY <2>3, <2>4 DEF Moved, RoutesAsGroup
    <2>8. buf'[p] # <<>> /\ buf'[p][1] = w /\ disk'[DefaultGroup] = Absent /\ w.file # "rules"
        <3>1. buf'[p] # <<>> /\ buf'[p][1] = w
            BY <2>5
        <3>2. disk'[DefaultGroup] = Absent
            BY <1>5, <2>4, Zenon DEF MigrateV2
        <3>3. DefaultGroup \in Groups
            BY StoreAssumption
        <3>4. w.file # "rules"
            BY <2>3, <3>3, NotRules
        <3> QED
            BY <3>1, <3>2, <3>4
    <2>9. Launching(p)' /\ Pending(p)'
        BY <2>3, <2>5, <2>6, <2>7, <2>8 DEF Launching, Pending
    <2> QED
        BY <1>0, <2>5, <2>9, AbsentKept
<1> QED
    BY <1>4, <1>5

\* migrate_v2::run of the desktop.
LEMMA RunMigratesFirst ==
    ASSUME StoreInv, disk["rules"] = Absent, MigrateV2Run
    PROVE  Good' /\ OneEdit
<1> DEFINE p == "desk"
<1>0. p \in Programs
    BY DEF Programs
<1>1. Doing(p, "migrate") /\ Working(p)
    BY DoingWorks DEF MigrateV2Run
<1>2. up[p] = "starting" /\ buf[p] = <<>> /\ todo[p] = <<Phase("migrate", 0)>> \o LoadPhases
    BY <1>0, <1>1, LaunchHeads DEF StoreInv
<1>3. Tail(todo[p]) = LoadPhases
    BY <1>2, LoadHeads
<1>4. CASE disk[DefaultGroup] # Absent
    <2>1. todo' = [todo EXCEPT ![p] = LoadPhases] /\ UNCHANGED <<disk, up>> /\ buf' = buf
        BY <1>3, <1>4 DEF MigrateV2Run, Skip
    <2>2. /\ buf'[p] = <<>> /\ up'[p] = "starting" /\ todo'[p] = LoadPhases /\ (\A q \in Programs : q # p => Off(q))
          /\ RulesInForce(disk') = RulesInForce(disk) /\ Fresh'
        BY <1>0, <1>1, <1>2, <2>1, PhaseFrame
    <2>3. Launching(p)' /\ Pending(p)'
        <3>1. disk'[DefaultGroup] # Absent
            BY <1>4, <2>1
        <3> QED
            BY <2>2, <3>1 DEF Launching, Pending
    <2> QED
        BY <1>0, <2>2, <2>3, AbsentKept
<1>5. CASE disk[DefaultGroup] = Absent
    <2> DEFINE active == disk["settings"].active
               act == IF active = "" THEN DefaultGroup ELSE active
               v == normalize(merge_legacy_groups(WithRoutes(disk), act))
    <2>1. \E rest : Write(p, "rules", v, [do |-> "migrate"], rest)
        <3> HIDE DEF v
        <3> QED
            BY <1>5 DEF MigrateV2Run, v
    <2>2. act = Active(disk)
        BY DEF Active
    <2> HIDE DEF act
    <2>3. v = RulesInForce(disk)
        BY <1>5, <2>2, FromFiles
    <2> HIDE DEF v
    <2> QED
        BY <1>0, <1>1, <1>2, <2>1, <2>3, MergePrepared
<1> QED
    BY <1>4, <1>5

\* The writes of a launch.
LEMMA FlushesFirst ==
    ASSUME StoreInv, AbsentIsNoFile, disk["rules"] = Absent, NEW p \in Programs, Flush(p)
    PROVE  Good' /\ OneEdit
<1> DEFINE w == buf[p][1]
<1>0. StoreTypes /\ Solo /\ Launching(p) /\ Pending(p)
    BY DEF StoreInv
<1>1. /\ buf[p] # <<>> /\ disk' = [disk EXCEPT ![w.file] = w.val] /\ buf' = [buf EXCEPT ![p] = <<>>]
      /\ UNCHANGED <<up, todo>>
    BY DEF Flush
<1>2. ~Idle(p)
    BY <1>1 DEF Idle
<1>3. /\ buf'[p] = <<>> /\ todo'[p] = todo[p] /\ up'[p] = up[p]
      /\ \A q \in Programs : q # p => up'[q] = up[q] /\ todo'[q] = todo[q] /\ buf'[q] = buf[q]
    BY <1>0, <1>1 DEF StoreTypes
<1>4. \A q \in Programs : q # p => Off(q)
    BY <1>2, <1>3, OthersOff DEF Off
<1>5. Pending(p)'
    BY <1>3, NoPending
<1>f. disk = [f \in Files |-> disk[f]] /\ (\A g \in Groups : g \in Files) /\ {"rules", "settings", "routes"} \subseteq Files
    BY <1>0 DEF StoreTypes, DiskOK, Files
<1>g. DefaultGroup \in Groups /\ \A g \in Groups : g \notin {"", "profiles", "rules", "settings", "priorities", "routes"}
    BY StoreAssumption
<1>6. CASE w.file = "rules"
    <2>1. OneEdit /\ disk'["rules"] # Absent
        BY <1>0, <1>6, FlushEdits
    <2>2. \A q \in Programs : Pending(q)'
        BY <1>3, <1>4, <1>5, NoPending DEF Off, Idle
    <2>3. Solo'
        BY <1>0, <1>4, SoloKept DEF Off
    <2> QED
        BY <2>1, <2>2, <2>3 DEF Good, Launched
<1>7. CASE /\ p = "tui" /\ disk[DefaultGroup] = Absent /\ AfterDefault(p)
           /\ w.file = DefaultGroup /\ \E k \in SUBSET Profiles : w.val = Moved(k)
    <2>1. PICK k \in SUBSET Profiles : disk' = [disk EXCEPT ![DefaultGroup] = Moved(k)]
        BY <1>1, <1>7
    <2>2. RulesInForce(disk') = RulesInForce(disk)
        BY <1>0, <1>7, <2>1, DefaultInForce
    <2>3. /\ disk'["rules"] = Absent /\ disk'["settings"] = disk["settings"] /\ disk'["routes"] = disk["routes"]
          /\ \A g \in Groups : disk'[g] = IF g = DefaultGroup THEN Moved(k) ELSE disk[g]
        BY <1>f, <1>g, <2>1
    <2>4. Moved(k)' = Moved(k)
        BY <2>3 DEF Moved, RoutesAsGroup
    <2>5. Fresh'
        <3> SUFFICES ASSUME disk'["settings"].active = ""
                     PROVE  /\ \A g \in Groups \ {DefaultGroup} : disk'[g] = Absent
                            /\ \E j \in SUBSET Profiles : disk'[DefaultGroup] = Moved(j)'
            BY DEF Fresh
        <3>1. \A g \in Groups \ {DefaultGroup} : disk[g] = Absent
            BY <2>3 DEF StoreInv, Fresh
        <3> QED
            BY <1>g, <2>3, <2>4, <3>1
    <2>6. Moved(k) # Absent
        BY DEF Moved, AbsentIsNoFile
    <2>7. disk'[DefaultGroup] # Absent
        BY <1>g, <2>3, <2>6
    <2>8. AfterDefault(p)'
        BY <1>1, <1>7, <2>3 DEF AfterDefault, Selects
    <2>9. up[p] = "starting"
        BY <1>0, <1>1, <1>2 DEF Launching
    <2>10. Launching(p)'
        BY <1>3, <1>7, <2>7, <2>8, <2>9 DEF Launching
    <2> QED
        BY <1>4, <1>5, <2>2, <2>5, <2>10, AbsentKept
<1>8. CASE /\ p = "tui" /\ disk[DefaultGroup] # Absent /\ todo[p] = LoadPhases
           /\ w.file = "settings" /\ Selects(w.val)
    <2>1. disk' = [disk EXCEPT !["settings"] = w.val]
        BY <1>1, <1>8
    <2>2. /\ disk'["rules"] = Absent /\ disk'["settings"] = w.val /\ disk'["routes"] = disk["routes"]
          /\ \A g \in Groups : disk'[g] = disk[g]
        BY <1>f, <1>g, <2>1
    <2>3. w.val.active = DefaultGroup /\ disk["settings"].active = ""
        BY <1>8 DEF Selects
    <2>4. Active(disk') = Active(disk)
        BY <1>g, <2>2, <2>3 DEF Active
    <2>5. RulesInForce(disk') = RulesInForce(disk)
        BY <2>2, <2>4, SameInForce
    <2>6. Fresh'
        BY <1>g, <2>2, <2>3 DEF Fresh
    <2>7. up[p] = "starting"
        BY <1>0, <1>1, <1>2 DEF Launching
    <2>8. Launching(p)'
        BY <1>3, <1>8, <1>g, <2>2, <2>7 DEF Launching
    <2> QED
        BY <1>4, <1>5, <2>5, <2>6, <2>8, AbsentKept
<1> QED
    BY <1>0, <1>1, <1>2, <1>6, <1>7, <1>8 DEF Launching

\* Every step keeps the invariant and is one edit of the rules.
LEMMA StoreStep ==
    ASSUME StoreInv, AbsentIsNoFile, ~Overlap, Next
    PROVE  Good' /\ OneEdit
<1>1. CASE disk["rules"] # Absent
    BY <1>1, PresentKeeps DEF Good, Launched
<1>2. CASE disk["rules"] = Absent
    BY <1>2, AbsentKinds, RunsFirst, CrashesFirst, FlushesFirst, LoadsFirst, SettlesFirst, MigratesFirst, RunMigratesFirst
<1> QED
    BY <1>1, <1>2

\* The same, with stuttering.
LEMMA StoreStays ==
    ASSUME AbsentIsNoFile, ~Overlap
    PROVE  StoreTypes /\ StoreTypes' /\ StoreInv /\ [Next]_vars => StoreInv' /\ [OneEdit]_vars
<1> SUFFICES ASSUME StoreTypes', StoreInv, [Next]_vars PROVE StoreInv' /\ [OneEdit]_vars
    OBVIOUS
<1>1. CASE Next
    BY <1>1, StoreStep DEF StoreInv, Good, Launched
<1>2. CASE UNCHANGED vars
    <2>1. UNCHANGED <<disk, up, todo, buf>>
        BY <1>2 DEF vars
    <2>2. Solo'
        BY <2>1 DEF StoreInv, Solo, Idle
    <2>3. \A p \in Programs : Pending(p)'
        BY <2>1 DEF StoreInv, Pending
    <2>4. disk'["rules"] = Absent => Fresh' /\ \A p \in Programs : Launching(p)'
        BY <2>1, ZenonT(60) DEF StoreInv, Fresh, Moved, RoutesAsGroup, Launching, AfterDefault, Selects, Idle
    <2> QED
        BY <1>2, <2>2, <2>3, <2>4 DEF StoreInv
<1> QED
    BY <1>1, <1>2

\* The rules in force change only by an edit of the user, or by a commit of the
\* desktop based on rules that are no longer in force: not by a launch, a
\* migration, a group that is saved, renamed or deleted, or a crash at any
\* point of these, for every store, if operations of the two programs do not
\* overlap.
THEOREM RulesChangeByEdits ==
    ASSUME AbsentIsNoFile, ~Overlap
    PROVE  Spec => RulesOnlyEdited
<1>1. Init => StoreInv
    BY StartsInv
<1>2. StoreTypes /\ StoreTypes' /\ StoreInv /\ [Next]_vars => StoreInv' /\ [OneEdit]_vars
    BY StoreStays
<1>3. Spec => []StoreTypes
    BY StoreTyped
<1>4. Spec => [][OneEdit]_vars
    BY <1>1, <1>2, <1>3, PTL DEF Spec
<1> QED
    BY <1>4 DEF RulesOnlyEdited, OneEdit
=============================================================================
