-------------------------- MODULE SiteIndexesProofs --------------------------
(***************************************************************************)
(* Machine-checked proofs about SiteIndexes: whatever is baked, absorbed,  *)
(* removed, compacted and reloaded, in whatever order, the control-flow    *)
(* index and the channel index hold what a full rebuild would put there,   *)
(* and every lookup finds it.                                              *)
(***************************************************************************)
EXTENDS SiteIndexes, ListingProofs

-----------------------------------------------------------------------------
(* Tables: sequences in which nothing stands twice.                          *)

IsTable(t) ==
  /\ Len(t) \in Nat /\ t = [i \in 1..Len(t) |-> t[i]]
  /\ \A i, j \in DOMAIN t : t[i] = t[j] => i = j
Extends(u, t) == \A i \in DOMAIN t : i \in DOMAIN u /\ u[i] = t[i]

LEMMA TableDomain ==
  ASSUME NEW t, IsTable(t)
  PROVE  DOMAIN t = 1..Len(t) /\ Len(t) \in Nat
BY DEF IsTable

LEMMA IdFacts ==
  ASSUME NEW t, NEW x, In(x, t)
  PROVE  IdOf(t, x) \in DOMAIN t /\ t[IdOf(t, x)] = x
<1>1. PICK i \in DOMAIN t : t[i] = x
  BY DEF In
<1> QED BY <1>1 DEF IdOf

LEMMA IdBack ==
  ASSUME NEW t, IsTable(t), NEW i \in DOMAIN t
  PROVE  IdOf(t, t[i]) = i
<1>1. In(t[i], t)
  BY DEF In
<1>2. IdOf(t, t[i]) \in DOMAIN t /\ t[IdOf(t, t[i])] = t[i]
  BY <1>1, IdFacts
<1> QED BY <1>2 DEF IsTable

LEMMA ContainsIn ==
  ASSUME NEW t, IsTable(t), NEW x
  PROVE  Contains(t, x) <=> In(x, t)
BY TableDomain DEF Contains, In

\* One string, or one set, interned: it is in the table afterwards, and what was
\* there keeps its id.
LEMMA InternOne ==
  ASSUME NEW t, IsTable(t), NEW x
  PROVE  /\ IsTable(Intern(t, x)) /\ Extends(Intern(t, x), t) /\ In(x, Intern(t, x))
         /\ \A i \in DOMAIN Intern(t, x) : i \in DOMAIN t \/ Intern(t, x)[i] = x
<1>1. CASE Contains(t, x)
  <2>1. Intern(t, x) = t
    BY <1>1 DEF Intern
  <2>2. In(x, t)
    BY <1>1, ContainsIn
  <2> QED BY <2>1, <2>2 DEF Extends
<1>2. CASE ~ Contains(t, x)
  <2> DEFINE u == Append(t, x)
             S == {t[i] : i \in DOMAIN t} \cup {x}
             n == Len(t)
  <2>1. Intern(t, x) = u
    BY <1>2 DEF Intern
  <2>2. ~ In(x, t)
    BY <1>2, ContainsIn
  <2>3. n \in Nat /\ DOMAIN t = 1..n
    BY TableDomain
  <2>4. t \in Seq(S)
    <3>1. t = [i \in 1..n |-> t[i]] /\ \A i \in 1..n : t[i] \in S
      BY <2>3 DEF IsTable
    <3> HIDE DEF S, n
    <3> QED BY <3>1, <2>3, AsSeq
  <2>5. /\ u \in Seq(S) /\ Len(u) = n + 1 /\ DOMAIN u = 1..n+1 /\ u = [i \in 1..n+1 |-> u[i]]
        /\ \A i \in 1..n : u[i] = t[i]
        /\ u[n+1] = x
    <3>1. x \in S
      BY DEF S
    <3> HIDE DEF S
    <3>2. /\ u \in Seq(S) /\ Len(u) = n + 1
          /\ \A i \in 1..n : u[i] = t[i]
          /\ u[n+1] = x
      BY <2>4, <3>1
    <3> HIDE DEF u, n
    <3> QED BY <2>3, <3>2
  <2> HIDE DEF u, S, n
  <2>6. IsTable(u)
    <3>1. ASSUME NEW i \in 1..n+1, NEW j \in 1..n+1, u[i] = u[j]
          PROVE  i = j
      <4>1. \A k \in 1..n : u[k] # x
        BY <2>2, <2>3, <2>5 DEF In
      <4>2. CASE i \in 1..n /\ j \in 1..n
        BY <3>1, <4>2, <2>3, <2>5 DEF IsTable
      <4>3. CASE i = n+1
        <5>1. j \notin 1..n
          BY <3>1, <4>1, <4>3, <2>5
        <5> QED BY <4>3, <5>1, <2>3
      <4>4. CASE j = n+1
        <5>1. i \notin 1..n
          BY <3>1, <4>1, <4>4, <2>5
        <5> QED BY <4>4, <5>1, <2>3
      <4> QED BY <4>2, <4>3, <4>4, <2>3
    <3>2. Len(u) \in Nat
      BY <2>3, <2>5
    <3> QED BY <2>5, <3>1, <3>2 DEF IsTable
  <2>7. Extends(u, t)
    BY <2>3, <2>5 DEF Extends
  <2>8. In(x, u)
    BY <2>3, <2>5 DEF In
  <2>9. \A i \in DOMAIN u : i \in DOMAIN t \/ u[i] = x
    BY <2>3, <2>5
  <2> QED BY <2>1, <2>6, <2>7, <2>8, <2>9
<1> QED BY <1>1, <1>2

\* f is what InternAll computes for the first n elements of the list.
Interns(f, t, list, n) ==
  f = [m \in 0..n |-> IF m = 0 THEN t ELSE Intern(f[m-1], list[m])]

LEMMA InternsExists ==
  ASSUME NEW t, NEW list
  PROVE  \A n \in Nat : \E f : Interns(f, t, list, n)
<1> DEFINE T == {n \in Nat : \E f : Interns(f, t, list, n)}
<1>1. 0 \in T
  <2>1. Interns([m \in 0..0 |-> t], t, list, 0)
    BY DEF Interns
  <2> QED BY <2>1
<1>2. ASSUME NEW n \in Nat, n \in T PROVE n + 1 \in T
  <2>1. PICK f : Interns(f, t, list, n)
    BY <1>2
  <2> DEFINE g == [m \in 0..n+1 |-> IF m = n + 1 THEN Intern(f[n], list[m]) ELSE f[m]]
  <2>2. \A m \in 0..n : f[m] = IF m = 0 THEN t ELSE Intern(f[m-1], list[m])
    BY <2>1 DEF Interns
  <2>3. \A m \in 0..n+1 : g[m] = IF m = 0 THEN t ELSE Intern(g[m-1], list[m])
    BY <2>2
  <2>4. Interns(g, t, list, n + 1)
    BY <2>3 DEF Interns
  <2> QED BY <2>4
<1>3. \A n \in Nat : n \in T
  <2> HIDE DEF T
  <2> QED BY <1>1, <1>2, SetInduction
<1> QED BY <1>3

\* A list interned.
LEMMA InternAllFacts ==
  ASSUME NEW t, IsTable(t), NEW list, Len(list) \in Nat
  PROVE  LET u == InternAll(t, list)
         IN /\ IsTable(u) /\ Extends(u, t)
            /\ \A n \in 1..Len(list) : In(list[n], u)
            /\ \A i \in DOMAIN u : i \in DOMAIN t \/ \E n \in 1..Len(list) : u[i] = list[n]
<1> DEFINE k == Len(list)
           c == CHOOSE g : Interns(g, t, list, k)
<1>1. InternAll(t, list) = c[k]
  BY DEF InternAll, Interns
<1>2. Interns(c, t, list, k)
  <2>1. \E g : Interns(g, t, list, k)
    BY InternsExists
  <2> QED BY <2>1, Zenon
<1>3. \A m \in 0..k : c[m] = IF m = 0 THEN t ELSE Intern(c[m-1], list[m])
  <2> HIDE DEF c, k
  <2> QED BY <1>2 DEF Interns
<1> HIDE DEF c
<1> DEFINE P(n) == /\ IsTable(c[n]) /\ Extends(c[n], t)
                   /\ \A m \in 1..n : In(list[m], c[n])
                   /\ \A i \in DOMAIN c[n] : i \in DOMAIN t \/ \E m \in 1..n : c[n][i] = list[m]
           T == {n \in Nat : n <= k => P(n)}
<1>4. 0 \in T
  <2>1. c[0] = t
    BY <1>3
  <2> QED BY <2>1 DEF Extends
<1>5. ASSUME NEW n \in Nat, n \in T PROVE n + 1 \in T
  <2>1. SUFFICES ASSUME n + 1 <= k PROVE P(n + 1)
    OBVIOUS
  <2>2. c[n+1] = Intern(c[n], list[n+1])
    <3>1. n + 1 \in 0..k /\ n + 1 # 0 /\ (n + 1) - 1 = n
      BY <2>1
    <3> QED BY <3>1, <1>3
  <2>3. P(n)
    BY <1>5, <2>1
  <2> DEFINE a == c[n]
             b == c[n+1]
  <2> HIDE DEF k
  <2>4. /\ IsTable(b) /\ Extends(b, a) /\ In(list[n+1], b)
        /\ \A i \in DOMAIN b : i \in DOMAIN a \/ b[i] = list[n+1]
    <3>1. IsTable(a) /\ b = Intern(a, list[n+1])
      BY <2>2, <2>3
    <3> HIDE DEF a, b
    <3> QED BY <3>1, InternOne
  <2>5. /\ Extends(a, t)
        /\ \A m \in 1..n : In(list[m], a)
        /\ \A i \in DOMAIN a : i \in DOMAIN t \/ \E m \in 1..n : a[i] = list[m]
    BY <2>3
  <2> HIDE DEF a, b
  <2>6. Extends(b, t)
    BY <2>4, <2>5 DEF Extends
  <2>7. \A m \in 1..n+1 : In(list[m], b)
    <3>1. \A m \in 1..n : In(list[m], b)
      BY <2>4, <2>5 DEF Extends, In
    <3> QED BY <3>1, <2>4
  <2>8. \A i \in DOMAIN b : i \in DOMAIN t \/ \E m \in 1..n+1 : b[i] = list[m]
    <3>1. SUFFICES ASSUME NEW i \in DOMAIN b, i \notin DOMAIN t
                   PROVE  \E m \in 1..n+1 : b[i] = list[m]
      OBVIOUS
    <3>2. CASE b[i] = list[n+1]
      BY <3>2
    <3>3. CASE i \in DOMAIN a
      <4>1. PICK m \in 1..n : a[i] = list[m]
        BY <2>5, <3>1, <3>3
      <4>2. b[i] = a[i]
        BY <2>4, <3>3 DEF Extends
      <4> QED BY <4>1, <4>2
    <3> QED BY <2>4, <3>2, <3>3
  <2> QED BY <2>4, <2>6, <2>7, <2>8 DEF b
<1>6. \A n \in Nat : n \in T
  <2> HIDE DEF T
  <2> QED BY <1>4, <1>5, SetInduction
<1>7. P(k)
  BY <1>6
<1> QED BY <1>1, <1>7

-----------------------------------------------------------------------------
(* A control-flow index that is as it should be.                             *)

IndexFields ==
  {"strings", "contexts", "scopeSets", "guardSets", "raiiSets", "byCallee", "byCaller",
   "byCalleeDisplay", "byCallerDisplay", "bySite", "byTu", "noProvenance", "live"}

\* The tables: position 1 of each table of sets is the empty set, and live locals
\* are ids of strings.
Tables(ix) ==
  /\ IsTable(ix.strings)
  /\ \A t \in {ix.scopeSets, ix.guardSets, ix.raiiSets} :
       IsTable(t) /\ EmptySet \in DOMAIN t /\ t[EmptySet] = << >>
  /\ \A n \in DOMAIN ix.raiiSets : ix.raiiSets[n] \in Seq(DOMAIN ix.strings)

\* A stored context refers to what the tables hold.
Entry(ix, se) ==
  /\ se = [caller |-> se.caller, callee |-> se.callee, callerDisplay |-> se.callerDisplay,
           calleeDisplay |-> se.calleeDisplay, site |-> se.site, tuPath |-> se.tuPath,
           scopeSet |-> se.scopeSet, guardSet |-> se.guardSet, raiiSet |-> se.raiiSet,
           attr |-> se.attr, live |-> se.live]
  /\ se.caller \in DOMAIN ix.strings /\ se.callee \in DOMAIN ix.strings
  /\ se.callerDisplay \in DOMAIN ix.strings /\ se.calleeDisplay \in DOMAIN ix.strings
  /\ se.site \in DOMAIN ix.strings
  /\ se.tuPath # NoString => se.tuPath \in DOMAIN ix.strings
  /\ se.scopeSet \in DOMAIN ix.scopeSets /\ se.guardSet \in DOMAIN ix.guardSets
  /\ se.raiiSet \in DOMAIN ix.raiiSets
  /\ se.live \in BOOLEAN

\* What it shows: something a visitor may add, for a TU or for none.
View(ix, se) ==
  LET raii == ix.raiiSets[se.raiiSet]
  IN [caller |-> ix.strings[se.caller], callee |-> ix.strings[se.callee],
      callerName |-> ix.strings[se.callerDisplay], calleeName |-> ix.strings[se.calleeDisplay],
      site |-> ix.strings[se.site],
      tu |-> IF se.tuPath = NoString THEN NoTU ELSE ix.strings[se.tuPath],
      scopes |-> ix.scopeSets[se.scopeSet], guards |-> ix.guardSets[se.guardSet],
      locals |-> [n \in DOMAIN raii |-> ix.strings[raii[n]]], attr |-> se.attr]

ShownAll == {Shown(c, t) : c \in Contexts, t \in Owners}

Shows(ix, se) ==
  /\ View(ix, se) \in ShownAll
  /\ se.tuPath # NoString => ix.strings[se.tuPath] \in TUs

Stored(ix) ==
  /\ Len(ix.contexts) \in Nat /\ ix.contexts = [i \in 1..Len(ix.contexts) |-> ix.contexts[i]]
  /\ \A i \in DOMAIN ix.contexts : Entry(ix, ix.contexts[i]) /\ Shows(ix, ix.contexts[i])
  /\ ix.live = Cardinality(LiveContexts(ix))

\* Each list holds the live contexts of its key, in the order they were stored;
\* display twins only those whose display name says something new.
ByCallee(ix, k) == {i \in LiveContexts(ix) : ix.contexts[i].callee = k}
ByCaller(ix, k) == {i \in LiveContexts(ix) : ix.contexts[i].caller = k}
BySite(ix, k)   == {i \in LiveContexts(ix) : ix.contexts[i].site = k}
ByCalleeDisplay(ix, k) ==
  {i \in LiveContexts(ix) : /\ ix.contexts[i].calleeDisplay = k
                            /\ ix.contexts[i].calleeDisplay # ix.contexts[i].callee}
ByCallerDisplay(ix, k) ==
  {i \in LiveContexts(ix) : /\ ix.contexts[i].callerDisplay = k
                            /\ ix.contexts[i].callerDisplay # ix.contexts[i].caller}

CalleesListed(ix) == \A k : At(ix.byCallee, k) = InOrder(ByCallee(ix, k), Len(ix.contexts))
CallersListed(ix) == \A k : At(ix.byCaller, k) = InOrder(ByCaller(ix, k), Len(ix.contexts))
SitesListed(ix)   == \A k : At(ix.bySite, k) = InOrder(BySite(ix, k), Len(ix.contexts))
CalleeNamesListed(ix) ==
  \A k : At(ix.byCalleeDisplay, k) = InOrder(ByCalleeDisplay(ix, k), Len(ix.contexts))
CallerNamesListed(ix) ==
  \A k : At(ix.byCallerDisplay, k) = InOrder(ByCallerDisplay(ix, k), Len(ix.contexts))

\* A key of a usr map is a usr.
UsrKeys(ix) ==
  \A k \in DOMAIN ix.byCallee \cup DOMAIN ix.byCaller : k \in DOMAIN ix.strings /\ ix.strings[k] \in Fns

Lists(ix) ==
  /\ CalleesListed(ix) /\ CallersListed(ix) /\ SitesListed(ix)
  /\ CalleeNamesListed(ix) /\ CallerNamesListed(ix) /\ UsrKeys(ix)

(* The places in the list s are places of P and of the TU k.               *)
OfTu(s, P, c, k) == s \in Seq(P) /\ \A m \in DOMAIN s : c[s[m]].tuPath = k

\* A live context stands in the list of its TU, or in the list of those without;
\* these lists name nothing else of another TU.
Located(ix) ==
  /\ \A k \in DOMAIN ix.byTu : /\ k \in DOMAIN ix.strings /\ k # NoString
                               /\ OfTu(ix.byTu[k], DOMAIN ix.contexts, ix.contexts, k)
  /\ OfTu(ix.noProvenance, DOMAIN ix.contexts, ix.contexts, NoString)
  /\ \A i \in LiveContexts(ix) :
       LET k == ix.contexts[i].tuPath
       IN IF k = NoString THEN In(i, ix.noProvenance) ELSE k \in DOMAIN ix.byTu /\ In(i, ix.byTu[k])

Good(ix) == DOMAIN ix = IndexFields /\ Tables(ix) /\ Stored(ix) /\ Lists(ix)

\* What the index shows of each place.
Views(ix) == [i \in DOMAIN ix.contexts |-> View(ix, ix.contexts[i])]

LEMMA EntriesAre ==
  ASSUME NEW ix, Stored(ix)
  PROVE  /\ DOMAIN ix.contexts = 1..Len(ix.contexts) /\ Len(ix.contexts) \in Nat
         /\ LiveContexts(ix) \subseteq DOMAIN ix.contexts
         /\ DOMAIN Views(ix) = DOMAIN ix.contexts
         /\ \A i \in DOMAIN ix.contexts : Materialize(ix, i) = Views(ix)[i]
         /\ \A S : (\A i \in DOMAIN ix.contexts : Views(ix)[i] \in S) => Views(ix) \in Seq(S)
<1>1. DOMAIN ix.contexts = 1..Len(ix.contexts) /\ Len(ix.contexts) \in Nat
  BY DEF Stored
<1>2. \A i \in DOMAIN ix.contexts : Materialize(ix, i) = Views(ix)[i]
  BY DEF Materialize, Views, View
<1>3. ASSUME NEW S, \A i \in DOMAIN ix.contexts : Views(ix)[i] \in S
      PROVE  Views(ix) \in Seq(S)
  <2> DEFINE v == Views(ix)
             n == Len(ix.contexts)
  <2>1. v = [i \in 1..n |-> v[i]]
    BY <1>1 DEF Views
  <2>2. n \in Nat /\ \A i \in 1..n : v[i] \in S
    BY <1>1, <1>3
  <2> HIDE DEF v, n
  <2>3. v \in Seq(S)
    BY <2>1, <2>2, AsSeq
  <2> QED BY <2>3 DEF v
<1> QED BY <1>1, <1>2, <1>3 DEF LiveContexts, Views

-----------------------------------------------------------------------------
(* insertStored.                                                             *)

(* jx is ix after the insertion of se, place i: field by field.             *)
Pushed(ix, jx, se, trackTu, i) ==
  /\ DOMAIN jx = IndexFields
  /\ jx.strings = ix.strings /\ jx.contexts = Append(ix.contexts, se)
  /\ jx.scopeSets = ix.scopeSets /\ jx.guardSets = ix.guardSets /\ jx.raiiSets = ix.raiiSets
  /\ jx.byCallee = Push(ix.byCallee, se.callee, i)
  /\ jx.byCaller = Push(ix.byCaller, se.caller, i)
  /\ jx.byCalleeDisplay = IF se.calleeDisplay # se.callee
                          THEN Push(ix.byCalleeDisplay, se.calleeDisplay, i)
                          ELSE ix.byCalleeDisplay
  /\ jx.byCallerDisplay = IF se.callerDisplay # se.caller
                          THEN Push(ix.byCallerDisplay, se.callerDisplay, i)
                          ELSE ix.byCallerDisplay
  /\ jx.bySite = Push(ix.bySite, se.site, i)
  /\ jx.byTu = IF trackTu /\ se.tuPath # NoString THEN Push(ix.byTu, se.tuPath, i)
               ELSE ix.byTu
  /\ jx.noProvenance = IF trackTu /\ se.tuPath = NoString THEN Append(ix.noProvenance, i)
                       ELSE ix.noProvenance
  /\ jx.live = ix.live + 1

LEMMA InsertFields ==
  ASSUME NEW ix, DOMAIN ix = IndexFields, NEW se, NEW trackTu \in BOOLEAN,
         NEW jx, jx = InsertStored(ix, se, trackTu), NEW i, i = Len(ix.contexts) + 1
  PROVE  Pushed(ix, jx, se, trackTu, i)
BY DEF InsertStored, IndexFields, Pushed

LEMMA PushAtKey ==
  ASSUME NEW map, NEW k, NEW i
  PROVE  At(Push(map, k, i), k) = Append(At(map, k), i)
BY DEF At, Push

LEMMA PushElsewhere ==
  ASSUME NEW map, NEW k, NEW i, NEW x, x # k
  PROVE  At(Push(map, k, i), x) = At(map, x)
BY DEF At, Push

\* One more place at the end of the lists.
LEMMA ListOneMore ==
  ASSUME NEW A, NEW B, NEW n \in Nat, \A m \in 1..n : m \in A <=> m \in B
  PROVE  InOrder(B, n + 1) = IF n + 1 \in B THEN Append(InOrder(A, n), n + 1) ELSE InOrder(A, n)
<1>1. InOrder(A, n) = InOrder(B, n)
  BY InOrderSame
<1> QED BY <1>1, InOrderSteps

\* What a list of live places shows, and what a scan shows.
LEMMA MaterializeListed ==
  ASSUME NEW ix, Stored(ix), NEW A, A \subseteq LiveContexts(ix)
  PROVE  MaterializeLive(ix, InOrder(A, Len(ix.contexts))) = Listed(Views(ix), A)
<1> DEFINE n == Len(ix.contexts)
           s == InOrder(A, n)
           L == LiveContexts(ix)
           K == {k \in DOMAIN s : s[k] \in L}
<1>1. n \in Nat /\ DOMAIN ix.contexts = 1..n
  BY EntriesAre
<1>2. Listed(s, K) = InOrder(A \cap L, n)
  BY <1>1, InOrderOnly DEF Where
<1>3. A \cap L = A
  OBVIOUS
<1>4. MaterializeLive(ix, s) = [k \in DOMAIN Listed(s, K) |-> Materialize(ix, Listed(s, K)[k])]
  BY DEF MaterializeLive, Only
<1>5. \A k \in DOMAIN s : s[k] \in 1..n
  BY <1>1, InOrderType
<1>6. Len(Views(ix)) = n
  <2>1. Views(ix) = [i \in 1..n |-> Views(ix)[i]]
    BY <1>1 DEF Views
  <2> DEFINE v == Views(ix)
             S == {v[i] : i \in 1..n}
  <2>2. \A i \in 1..n : v[i] \in S
    OBVIOUS
  <2> HIDE DEF v, S, n
  <2> QED BY <1>1, <2>1, <2>2, AsSeq DEF v
<1>7. Listed(Views(ix), A) = [k \in DOMAIN s |-> Views(ix)[s[k]]]
  BY <1>6 DEF Listed
<1>8. \A i \in 1..n : Materialize(ix, i) = Views(ix)[i]
  BY <1>1, EntriesAre
<1> HIDE DEF s, K, n, L
<1>9. MaterializeLive(ix, s) = [k \in DOMAIN s |-> Materialize(ix, s[k])]
  <2>1. Listed(s, K) = s
    BY <1>2, <1>3 DEF s
  <2> QED BY <1>4, <2>1
<1>10. MaterializeLive(ix, s) = [k \in DOMAIN s |-> Views(ix)[s[k]]]
  BY <1>5, <1>8, <1>9
<1> QED BY <1>7, <1>10 DEF s, n

LEMMA ViewsSeq ==
  ASSUME NEW ix, Stored(ix)
  PROVE  Views(ix) \in Seq(ShownAll) /\ Len(Views(ix)) = Len(ix.contexts)
<1> DEFINE n == Len(ix.contexts)
           v == Views(ix)
<1>1. n \in Nat /\ v = [i \in 1..n |-> v[i]] /\ \A i \in 1..n : v[i] = View(ix, ix.contexts[i])
  BY EntriesAre DEF Views
<1>2. \A i \in 1..n : v[i] \in ShownAll
  <2>1. \A i \in 1..n : View(ix, ix.contexts[i]) \in ShownAll
    BY EntriesAre DEF Stored, Shows
  <2> HIDE DEF v, n
  <2> QED BY <1>1, <2>1
<1> HIDE DEF v, n
<1>3. v \in Seq(ShownAll) /\ Len(v) = n
  BY <1>1, <1>2, AsSeq
<1> QED BY <1>3 DEF v, n

LEMMA AllContextsAre ==
  ASSUME NEW ix, Stored(ix)
  PROVE  AllContexts(ix) = Listed(Views(ix), LiveContexts(ix))
<1> DEFINE n == Len(ix.contexts)
           d == [i \in DOMAIN ix.contexts |-> i]
           L == LiveContexts(ix)
           K == {k \in DOMAIN d : d[k] \in L}
           s == InOrder(L, n)
<1>1. n \in Nat /\ DOMAIN ix.contexts = 1..n /\ L \subseteq 1..n
  BY EntriesAre
<1>2. K = L
  BY <1>1
<1>3. Len(d) = n
  BY <1>1
<1>4. Listed(d, L) = [k \in DOMAIN s |-> d[s[k]]]
  BY <1>3 DEF Listed
<1>5. /\ s \in Seq(Nat)
      /\ \A k \in DOMAIN s : s[k] \in 1..n
  BY <1>1, InOrderType
<1>6. Listed(d, L) = s
  <2>1. s = [k \in DOMAIN s |-> s[k]]
    <3> HIDE DEF s
    <3> QED BY <1>5
  <2>2. \A k \in DOMAIN s : d[s[k]] = s[k]
    <3> HIDE DEF s
    <3> QED BY <1>1, <1>5
  <2> HIDE DEF s, d
  <2> QED BY <1>4, <2>1, <2>2
<1>7. AllContexts(ix) = MaterializeLive(ix, d)
  BY DEF AllContexts
<1>8. MaterializeLive(ix, d) = [k \in DOMAIN Listed(d, K) |-> Materialize(ix, Listed(d, K)[k])]
  BY DEF MaterializeLive, Only
<1>9. Len(Views(ix)) = n
  BY ViewsSeq
<1>10. Listed(Views(ix), L) = [k \in DOMAIN s |-> Views(ix)[s[k]]]
  BY <1>9 DEF Listed
<1>11. \A i \in 1..n : Materialize(ix, i) = Views(ix)[i]
  BY <1>1, EntriesAre
<1> HIDE DEF s, d, K, n, L
<1>12. AllContexts(ix) = [k \in DOMAIN s |-> Materialize(ix, s[k])]
  BY <1>2, <1>6, <1>7, <1>8
<1>13. AllContexts(ix) = [k \in DOMAIN s |-> Views(ix)[s[k]]]
  BY <1>5, <1>11, <1>12
<1> QED BY <1>10, <1>13 DEF L

\* A context stored behind the others.
Grown(ix, jx, se, n) ==
  /\ n \in Nat /\ Len(jx.contexts) = n + 1
  /\ jx.contexts = [i \in 1..n+1 |-> jx.contexts[i]]
  /\ DOMAIN ix.contexts = 1..n
  /\ DOMAIN jx.contexts = 1..n+1
  /\ \A i \in 1..n : jx.contexts[i] = ix.contexts[i]
  /\ jx.contexts[n+1] = se
  /\ LiveContexts(jx) = LiveContexts(ix) \cup {n+1}
  /\ n+1 \notin LiveContexts(ix)
  /\ \A x : View(jx, x) = View(ix, x)
  /\ Views(jx) = Append(Views(ix), View(ix, se))

LEMMA InsertPlaces ==
  ASSUME NEW ix, Good(ix), NEW se, Entry(ix, se), se.live, NEW trackTu \in BOOLEAN,
         NEW jx, jx = InsertStored(ix, se, trackTu), NEW n, n = Len(ix.contexts)
  PROVE  Grown(ix, jx, se, n)
<1>1. /\ jx.contexts = Append(ix.contexts, se)
      /\ jx.strings = ix.strings /\ jx.scopeSets = ix.scopeSets /\ jx.guardSets = ix.guardSets
      /\ jx.raiiSets = ix.raiiSets
  <2>1. DOMAIN ix = IndexFields
    BY DEF Good
  <2>2. PICK i : i = Len(ix.contexts) + 1
    OBVIOUS
  <2>3. Pushed(ix, jx, se, trackTu, i)
    BY <2>1, <2>2, InsertFields
  <2> QED BY <2>3 DEF Pushed
<1>2. /\ n \in Nat /\ DOMAIN ix.contexts = 1..n
      /\ ix.contexts = [i \in 1..n |-> ix.contexts[i]]
  <2>1. Stored(ix)
    BY DEF Good
  <2> QED BY <2>1, EntriesAre DEF Stored
<1>3. /\ Len(jx.contexts) = n + 1 /\ DOMAIN jx.contexts = 1..n+1
      /\ jx.contexts = [i \in 1..n+1 |-> jx.contexts[i]]
      /\ \A i \in 1..n : jx.contexts[i] = ix.contexts[i]
      /\ jx.contexts[n+1] = se
  <2> DEFINE c == ix.contexts
             d == Append(c, se)
             S == {c[i] : i \in 1..n} \cup {se}
  <2>1. c \in Seq(S) /\ se \in S /\ Len(c) = n
    <3>1. \A i \in 1..n : c[i] \in S
      OBVIOUS
    <3>2. c = [i \in 1..n |-> c[i]] /\ n \in Nat
      BY <1>2
    <3>3. se \in S
      OBVIOUS
    <3> HIDE DEF c, S
    <3> QED BY <3>1, <3>2, <3>3, AsSeq
  <2> HIDE DEF c, S
  <2>2. d \in Seq(S) /\ Len(d) = n + 1 /\ d[n+1] = se /\ \A i \in 1..n : d[i] = c[i]
    BY <2>1
  <2>3. jx.contexts = d
    BY <1>1 DEF c
  <2> HIDE DEF d
  <2>4. d = [i \in 1..n+1 |-> d[i]] /\ DOMAIN d = 1..n+1
    BY <2>2, <1>2
  <2> QED BY <2>2, <2>3, <2>4 DEF c
<1>4. LiveContexts(jx) = LiveContexts(ix) \cup {n+1} /\ n+1 \notin LiveContexts(ix)
  <2>1. \A i \in 1..n+1 : jx.contexts[i].live <=> i = n + 1 \/ (i \in 1..n /\ ix.contexts[i].live)
    <3>1. ASSUME NEW i \in 1..n+1
          PROVE  jx.contexts[i].live <=> i = n + 1 \/ (i \in 1..n /\ ix.contexts[i].live)
      <4>1. CASE i = n + 1
        BY <4>1, <1>3
      <4>2. CASE i # n + 1
        <5>1. i \in 1..n
          BY <4>2, <1>2
        <5>2. jx.contexts[i] = ix.contexts[i]
          BY <5>1, <1>3
        <5> QED BY <4>2, <5>1, <5>2
      <4> QED BY <4>1, <4>2
    <3> QED BY <3>1
  <2>2. LiveContexts(ix) = {i \in 1..n : ix.contexts[i].live}
    BY <1>2 DEF LiveContexts
  <2>3. LiveContexts(jx) = {i \in 1..n+1 : jx.contexts[i].live}
    BY <1>3 DEF LiveContexts
  <2>4. 1..n+1 = 1..n \cup {n+1} /\ n+1 \notin 1..n
    BY <1>2
  <2> QED BY <2>1, <2>2, <2>3, <2>4
<1>5. ASSUME NEW x PROVE View(jx, x) = View(ix, x)
  BY <1>1 DEF View
<1>6. Views(jx) = Append(Views(ix), View(ix, se))
  <2> DEFINE v == Views(ix)
             y == View(ix, se)
             S == {v[i] : i \in 1..n} \cup {y}
             w == Views(jx)
  <2>1. v = [i \in 1..n |-> v[i]] /\ \A i \in 1..n : v[i] = View(ix, ix.contexts[i])
    BY <1>2 DEF Views
  <2>2. w = [i \in 1..n+1 |-> w[i]] /\ \A i \in 1..n+1 : w[i] = View(ix, jx.contexts[i])
    BY <1>3, <1>5 DEF Views
  <2>3. v \in Seq(S) /\ y \in S /\ Len(v) = n
    <3>1. \A i \in 1..n : v[i] \in S
      OBVIOUS
    <3>2. y \in S
      OBVIOUS
    <3> HIDE DEF v, S, y
    <3> QED BY <1>2, <2>1, <3>1, <3>2, AsSeq
  <2>4. w[n+1] = y /\ \A i \in 1..n : w[i] = v[i]
    <3> HIDE DEF w, v
    <3>1. n + 1 \in 1..n+1 /\ \A i \in 1..n : i \in 1..n+1
      BY <1>2
    <3>2. w[n+1] = View(ix, jx.contexts[n+1]) /\ jx.contexts[n+1] = se
      BY <1>3, <2>2, <3>1
    <3>3. ASSUME NEW i \in 1..n
          PROVE  w[i] = v[i]
      <4>1. w[i] = View(ix, jx.contexts[i])
        BY <2>2, <3>1
      <4>2. jx.contexts[i] = ix.contexts[i]
        BY <1>3
      <4>3. v[i] = View(ix, ix.contexts[i])
        BY <2>1
      <4> QED BY <4>1, <4>2, <4>3
    <3> QED BY <3>2, <3>3
  <2> HIDE DEF v, w, y, S
  <2>5. Append(v, y) = [i \in 1..n+1 |-> IF i = n+1 THEN y ELSE v[i]]
    <3>1. Append(v, y) = [i \in 1..Len(v)+1 |-> IF i = Len(v)+1 THEN y ELSE v[i]]
      BY <2>3, AppendIs
    <3> QED BY <2>3, <3>1
  <2>6. w = Append(v, y)
    <3>1. \A i \in 1..n+1 : w[i] = IF i = n+1 THEN y ELSE v[i]
      BY <2>4, <1>2
    <3> QED BY <2>2, <2>5, <3>1
  <2> QED BY <2>6 DEF v, w, y
<1> QED BY <1>2, <1>3, <1>4, <1>5, <1>6 DEF Grown

LEMMA ShownFns ==
  ASSUME NEW ix, NEW se, Shows(ix, se)
  PROVE  /\ ix.strings[se.callee] \in Fns /\ ix.strings[se.caller] \in Fns
         /\ ix.strings[se.calleeDisplay] = display[ix.strings[se.callee]]
         /\ ix.strings[se.callerDisplay] = display[ix.strings[se.caller]]
<1>1. PICK c \in Contexts, t \in Owners : View(ix, se) = Shown(c, t)
  BY DEF Shows, ShownAll
<1>2. c.callee \in Fns /\ c.caller \in Fns
  BY ContextsAssumption
<1>3. /\ View(ix, se).callee = ix.strings[se.callee] /\ View(ix, se).caller = ix.strings[se.caller]
      /\ View(ix, se).calleeName = ix.strings[se.calleeDisplay]
      /\ View(ix, se).callerName = ix.strings[se.callerDisplay]
  BY DEF View
<1>4. /\ Shown(c, t).callee = c.callee /\ Shown(c, t).caller = c.caller
      /\ Shown(c, t).calleeName = display[c.callee] /\ Shown(c, t).callerName = display[c.caller]
  BY DEF Shown
<1> QED BY <1>1, <1>2, <1>3, <1>4

LEMMA InsertStoredOk ==
  ASSUME NEW ix, Good(ix), NEW se, Entry(ix, se), se.live, Shows(ix, se), NEW trackTu \in BOOLEAN,
         NEW jx, jx = InsertStored(ix, se, trackTu)
  PROVE  DOMAIN jx = IndexFields /\ Tables(jx) /\ Stored(jx)
<1>0. PICK n : n = Len(ix.contexts)
  OBVIOUS
<1>1. /\ DOMAIN jx = IndexFields /\ jx.strings = ix.strings /\ jx.scopeSets = ix.scopeSets
      /\ jx.guardSets = ix.guardSets /\ jx.raiiSets = ix.raiiSets /\ jx.live = ix.live + 1
  <2>1. PICK i : i = Len(ix.contexts) + 1
    OBVIOUS
  <2>2. Pushed(ix, jx, se, trackTu, i)
    BY <2>1, InsertFields DEF Good
  <2> QED BY <2>2 DEF Pushed
<1>2. /\ n \in Nat /\ Len(jx.contexts) = n + 1
      /\ jx.contexts = [i \in 1..n+1 |-> jx.contexts[i]]
      /\ DOMAIN jx.contexts = 1..n+1 /\ DOMAIN ix.contexts = 1..n
      /\ \A i \in 1..n : jx.contexts[i] = ix.contexts[i]
      /\ jx.contexts[n+1] = se
      /\ LiveContexts(jx) = LiveContexts(ix) \cup {n+1}
      /\ n+1 \notin LiveContexts(ix)
      /\ \A x : View(jx, x) = View(ix, x)
  <2>1. Grown(ix, jx, se, n)
    BY <1>0, InsertPlaces
  <2> QED BY <2>1 DEF Grown
<1>3. Tables(jx)
  BY <1>1 DEF Good, Tables
<1>4. \A x : (Entry(jx, x) <=> Entry(ix, x)) /\ (Shows(jx, x) <=> Shows(ix, x))
  <2>1. \A x : Entry(jx, x) <=> Entry(ix, x)
    BY <1>1 DEF Entry
  <2>2. \A x : Shows(jx, x) <=> Shows(ix, x)
    BY <1>1, <1>2 DEF Shows
  <2> QED BY <2>1, <2>2
<1>5. \A i \in DOMAIN jx.contexts : Entry(jx, jx.contexts[i]) /\ Shows(jx, jx.contexts[i])
  <2>1. \A i \in 1..n : Entry(ix, ix.contexts[i]) /\ Shows(ix, ix.contexts[i])
    BY <1>2 DEF Good, Stored
  <2>2. ASSUME NEW i \in 1..n+1 PROVE Entry(ix, jx.contexts[i]) /\ Shows(ix, jx.contexts[i])
    <3>1. i = n + 1 \/ i \in 1..n
      BY <1>2
    <3> QED BY <1>2, <2>1, <3>1
  <2> QED BY <1>2, <1>4, <2>2
<1>7. jx.live = Cardinality(LiveContexts(jx))
  <2>1. IsFiniteSet(LiveContexts(ix))
    <3>1. IsFiniteSet(1..n) /\ LiveContexts(ix) \subseteq 1..n
      BY <1>2, FS_Interval DEF LiveContexts
    <3> QED BY <3>1, FS_Subset
  <2>2. Cardinality(LiveContexts(ix) \cup {n+1}) = Cardinality(LiveContexts(ix)) + 1
    BY <1>2, <2>1, FS_AddElement
  <2>3. ix.live = Cardinality(LiveContexts(ix))
    BY DEF Good, Stored
  <2> QED BY <1>1, <1>2, <2>2, <2>3
<1>8. Len(jx.contexts) \in Nat /\ jx.contexts = [i \in 1..Len(jx.contexts) |-> jx.contexts[i]]
  BY <1>2
<1>9. Stored(jx)
  BY <1>5, <1>7, <1>8 DEF Stored
<1> QED BY <1>1, <1>3, <1>9

\* One list kept under insertion: the place goes to the list of its key.
Follows(map, k, n, A, B, x) ==
  /\ At(map, x) = InOrder(A, n)
  /\ \A m \in 1..n : m \in B <=> m \in A
  /\ n+1 \in B <=> x = k

LEMMA PushListed ==
  ASSUME NEW map, NEW k, NEW n \in Nat, NEW A, NEW B, NEW x, Follows(map, k, n, A, B, x)
  PROVE  At(Push(map, k, n+1), x) = InOrder(B, n+1)
<1>0. /\ At(map, x) = InOrder(A, n)
      /\ \A m \in 1..n : m \in B <=> m \in A
      /\ n+1 \in B <=> x = k
  BY DEF Follows
<1>1. InOrder(B, n + 1) = IF n + 1 \in B THEN Append(InOrder(A, n), n + 1) ELSE InOrder(A, n)
  BY <1>0, ListOneMore
<1>2. At(Push(map, k, n+1), k) = Append(At(map, k), n+1)
  BY PushAtKey
<1>3. x # k => At(Push(map, k, n+1), x) = At(map, x)
  BY PushElsewhere
<1> QED BY <1>0, <1>1, <1>2, <1>3

LEMMA KeepListed ==
  ASSUME NEW map, NEW n \in Nat, NEW A, NEW B, NEW x,
         At(map, x) = InOrder(A, n),
         \A m \in 1..n : m \in B <=> m \in A,
         n+1 \notin B
  PROVE  At(map, x) = InOrder(B, n+1)
<1>1. InOrder(B, n + 1) = IF n + 1 \in B THEN Append(InOrder(A, n), n + 1) ELSE InOrder(A, n)
  BY ListOneMore
<1> QED BY <1>1

LEMMA InsertLists ==
  ASSUME NEW ix, Good(ix), NEW se, Entry(ix, se), se.live, Shows(ix, se), NEW trackTu \in BOOLEAN,
         NEW jx, jx = InsertStored(ix, se, trackTu)
  PROVE  Lists(jx)
<1>0. PICK n : n = Len(ix.contexts)
  OBVIOUS
<1>1. /\ jx.strings = ix.strings
      /\ jx.byCallee = Push(ix.byCallee, se.callee, n+1)
      /\ jx.byCaller = Push(ix.byCaller, se.caller, n+1)
      /\ jx.byCalleeDisplay = IF se.calleeDisplay # se.callee
                              THEN Push(ix.byCalleeDisplay, se.calleeDisplay, n+1)
                              ELSE ix.byCalleeDisplay
      /\ jx.byCallerDisplay = IF se.callerDisplay # se.caller
                              THEN Push(ix.byCallerDisplay, se.callerDisplay, n+1)
                              ELSE ix.byCallerDisplay
      /\ jx.bySite = Push(ix.bySite, se.site, n+1)
  <2>1. PICK i : i = Len(ix.contexts) + 1
    OBVIOUS
  <2>2. Pushed(ix, jx, se, trackTu, i)
    BY <2>1, InsertFields DEF Good
  <2> QED BY <1>0, <2>1, <2>2 DEF Pushed
<1>2. /\ n \in Nat /\ Len(jx.contexts) = n + 1
      /\ DOMAIN jx.contexts = 1..n+1 /\ DOMAIN ix.contexts = 1..n
      /\ \A i \in 1..n : jx.contexts[i] = ix.contexts[i]
      /\ jx.contexts[n+1] = se
      /\ LiveContexts(jx) = LiveContexts(ix) \cup {n+1}
      /\ n+1 \notin LiveContexts(ix)
  <2>1. Grown(ix, jx, se, n)
    BY <1>0, InsertPlaces
  <2> QED BY <2>1 DEF Grown
<1>3. /\ \A k : At(ix.byCallee, k) = InOrder(ByCallee(ix, k), n)
      /\ \A k : At(ix.byCaller, k) = InOrder(ByCaller(ix, k), n)
      /\ \A k : At(ix.bySite, k) = InOrder(BySite(ix, k), n)
      /\ \A k : At(ix.byCalleeDisplay, k) = InOrder(ByCalleeDisplay(ix, k), n)
      /\ \A k : At(ix.byCallerDisplay, k) = InOrder(ByCallerDisplay(ix, k), n)
  BY <1>0 DEF Good, Lists, CalleesListed, CallersListed, SitesListed, CalleeNamesListed, CallerNamesListed
<1>4. \A m \in 1..n : /\ m \in LiveContexts(jx) <=> m \in LiveContexts(ix)
                      /\ jx.contexts[m] = ix.contexts[m]
  BY <1>2
<1>5. n + 1 \in LiveContexts(jx) /\ jx.contexts[n+1] = se
  BY <1>2
<1>6. ASSUME NEW k
      PROVE  At(jx.byCallee, k) = InOrder(ByCallee(jx, k), n+1)
  <2>1. \A m \in 1..n : m \in ByCallee(jx, k) <=> m \in ByCallee(ix, k)
    BY <1>4 DEF ByCallee
  <2>2. n+1 \in ByCallee(jx, k) <=> k = se.callee
    BY <1>5 DEF ByCallee
  <2>3. Follows(ix.byCallee, se.callee, n, ByCallee(ix, k), ByCallee(jx, k), k)
    BY <1>3, <2>1, <2>2 DEF Follows
  <2>4. At(Push(ix.byCallee, se.callee, n+1), k) = InOrder(ByCallee(jx, k), n+1)
    BY <1>2, <2>3, PushListed
  <2> QED BY <1>1, <2>4
<1>7. ASSUME NEW k
      PROVE  At(jx.byCaller, k) = InOrder(ByCaller(jx, k), n+1)
  <2>1. \A m \in 1..n : m \in ByCaller(jx, k) <=> m \in ByCaller(ix, k)
    BY <1>4 DEF ByCaller
  <2>2. n+1 \in ByCaller(jx, k) <=> k = se.caller
    BY <1>5 DEF ByCaller
  <2>3. Follows(ix.byCaller, se.caller, n, ByCaller(ix, k), ByCaller(jx, k), k)
    BY <1>3, <2>1, <2>2 DEF Follows
  <2>4. At(Push(ix.byCaller, se.caller, n+1), k) = InOrder(ByCaller(jx, k), n+1)
    BY <1>2, <2>3, PushListed
  <2> QED BY <1>1, <2>4
<1>8. ASSUME NEW k
      PROVE  At(jx.bySite, k) = InOrder(BySite(jx, k), n+1)
  <2>1. \A m \in 1..n : m \in BySite(jx, k) <=> m \in BySite(ix, k)
    BY <1>4 DEF BySite
  <2>2. n+1 \in BySite(jx, k) <=> k = se.site
    BY <1>5 DEF BySite
  <2>3. Follows(ix.bySite, se.site, n, BySite(ix, k), BySite(jx, k), k)
    BY <1>3, <2>1, <2>2 DEF Follows
  <2>4. At(Push(ix.bySite, se.site, n+1), k) = InOrder(BySite(jx, k), n+1)
    BY <1>2, <2>3, PushListed
  <2> QED BY <1>1, <2>4
<1>9. ASSUME NEW k
      PROVE  At(jx.byCalleeDisplay, k) = InOrder(ByCalleeDisplay(jx, k), n+1)
  <2>1. \A m \in 1..n : m \in ByCalleeDisplay(jx, k) <=> m \in ByCalleeDisplay(ix, k)
    BY <1>4 DEF ByCalleeDisplay
  <2>2. n+1 \in ByCalleeDisplay(jx, k) <=> k = se.calleeDisplay /\ se.calleeDisplay # se.callee
    BY <1>5 DEF ByCalleeDisplay
  <2>3. CASE se.calleeDisplay # se.callee
    <3>1. jx.byCalleeDisplay = Push(ix.byCalleeDisplay, se.calleeDisplay, n+1)
      BY <1>1, <2>3
    <3>2. Follows(ix.byCalleeDisplay, se.calleeDisplay, n, ByCalleeDisplay(ix, k), ByCalleeDisplay(jx, k), k)
      BY <1>3, <2>1, <2>2, <2>3 DEF Follows
    <3>3. At(Push(ix.byCalleeDisplay, se.calleeDisplay, n+1), k) = InOrder(ByCalleeDisplay(jx, k), n+1)
      BY <1>2, <3>2, PushListed
    <3> QED BY <3>1, <3>3
  <2>4. CASE se.calleeDisplay = se.callee
    <3>1. jx.byCalleeDisplay = ix.byCalleeDisplay
      BY <1>1, <2>4
    <3> QED BY <1>2, <1>3, <2>1, <2>2, <2>4, <3>1, KeepListed
  <2> QED BY <2>3, <2>4
<1>10. ASSUME NEW k
      PROVE  At(jx.byCallerDisplay, k) = InOrder(ByCallerDisplay(jx, k), n+1)
  <2>1. \A m \in 1..n : m \in ByCallerDisplay(jx, k) <=> m \in ByCallerDisplay(ix, k)
    BY <1>4 DEF ByCallerDisplay
  <2>2. n+1 \in ByCallerDisplay(jx, k) <=> k = se.callerDisplay /\ se.callerDisplay # se.caller
    BY <1>5 DEF ByCallerDisplay
  <2>3. CASE se.callerDisplay # se.caller
    <3>1. jx.byCallerDisplay = Push(ix.byCallerDisplay, se.callerDisplay, n+1)
      BY <1>1, <2>3
    <3>2. Follows(ix.byCallerDisplay, se.callerDisplay, n, ByCallerDisplay(ix, k), ByCallerDisplay(jx, k), k)
      BY <1>3, <2>1, <2>2, <2>3 DEF Follows
    <3>3. At(Push(ix.byCallerDisplay, se.callerDisplay, n+1), k) = InOrder(ByCallerDisplay(jx, k), n+1)
      BY <1>2, <3>2, PushListed
    <3> QED BY <3>1, <3>3
  <2>4. CASE se.callerDisplay = se.caller
    <3>1. jx.byCallerDisplay = ix.byCallerDisplay
      BY <1>1, <2>4
    <3> QED BY <1>2, <1>3, <2>1, <2>2, <2>4, <3>1, KeepListed
  <2> QED BY <2>3, <2>4
<1>11. UsrKeys(jx)
  <2>1. /\ DOMAIN jx.byCallee = DOMAIN ix.byCallee \cup {se.callee}
        /\ DOMAIN jx.byCaller = DOMAIN ix.byCaller \cup {se.caller}
    BY <1>1 DEF Push
  <2>2. /\ se.callee \in DOMAIN ix.strings /\ ix.strings[se.callee] \in Fns
        /\ se.caller \in DOMAIN ix.strings /\ ix.strings[se.caller] \in Fns
    BY ShownFns DEF Entry
  <2>3. UsrKeys(ix)
    BY DEF Good, Lists
  <2> QED BY <1>1, <2>1, <2>2, <2>3 DEF UsrKeys
<1> QED BY <1>2, <1>6, <1>7, <1>8, <1>9, <1>10, <1>11
        DEF Lists, CalleesListed, CallersListed, SitesListed, CalleeNamesListed, CallerNamesListed

\* A list of places of one TU, when places are added.
LEMMA OfTuWider ==
  ASSUME NEW P, NEW Q, P \subseteq Q, NEW s, NEW c, NEW d, NEW k,
         \A m \in P : d[m] = c[m], OfTu(s, P, c, k)
  PROVE  OfTu(s, Q, d, k)
<1>1. s \in Seq(P) /\ \A m \in DOMAIN s : c[s[m]].tuPath = k
  BY DEF OfTu
<1>2. /\ s \in Seq(Q) /\ DOMAIN s = 1..Len(s) /\ Len(s) \in Nat
      /\ \A m \in DOMAIN s : s[m] \in P
  BY <1>1, SeqWider
<1> QED BY <1>1, <1>2 DEF OfTu

LEMMA OfTuAppend ==
  ASSUME NEW Q, NEW s, NEW d, NEW k, OfTu(s, Q, d, k), NEW i \in Q, d[i].tuPath = k
  PROVE  OfTu(Append(s, i), Q, d, k)
<1> DEFINE p == Append(s, i)
<1>1. s \in Seq(Q) /\ \A m \in DOMAIN s : d[s[m]].tuPath = k
  BY DEF OfTu
<1>2. /\ p \in Seq(Q) /\ Len(p) = Len(s) + 1 /\ DOMAIN p = 1..Len(s)+1
      /\ \A m \in 1..Len(s) : p[m] = s[m]
      /\ p[Len(s)+1] = i /\ Len(s) \in Nat /\ DOMAIN s = 1..Len(s)
  BY <1>1
<1> HIDE DEF p
<1>3. ASSUME NEW m \in DOMAIN p
      PROVE  d[p[m]].tuPath = k
  <2>1. CASE m = Len(s) + 1
    BY <1>2, <2>1
  <2>2. CASE m # Len(s) + 1
    <3>1. m \in 1..Len(s)
      BY <1>2, <2>2
    <3> QED BY <1>1, <1>2, <3>1
  <2> QED BY <2>1, <2>2
<1> QED BY <1>2, <1>3 DEF p, OfTu

LEMMA InAppend ==
  ASSUME NEW S, NEW s \in Seq(S), NEW i \in S
  PROVE  In(i, Append(s, i)) /\ \A j : In(j, s) => In(j, Append(s, i))
<1> DEFINE p == Append(s, i)
<1>1. /\ Len(p) = Len(s) + 1 /\ DOMAIN p = 1..Len(s)+1 /\ DOMAIN s = 1..Len(s) /\ Len(s) \in Nat
      /\ \A m \in 1..Len(s) : p[m] = s[m]
      /\ p[Len(s)+1] = i
  OBVIOUS
<1> HIDE DEF p
<1>2. In(i, p) /\ \A j : In(j, s) => In(j, p)
  BY <1>1 DEF In
<1> QED BY <1>2 DEF p

LEMMA InsertLocated ==
  ASSUME NEW ix, Good(ix), Located(ix), NEW se, Entry(ix, se), se.live,
         NEW jx, jx = InsertStored(ix, se, TRUE)
  PROVE  Located(jx)
<1>0. PICK n : n = Len(ix.contexts) + 1
  OBVIOUS
<1>00. PICK trackTu \in BOOLEAN : trackTu = TRUE
  OBVIOUS
<1>01. jx = InsertStored(ix, se, trackTu) /\ DOMAIN ix = IndexFields
  BY <1>00 DEF Good
<1>1. /\ jx.strings = ix.strings
      /\ jx.byTu = IF se.tuPath # NoString THEN Push(ix.byTu, se.tuPath, n) ELSE ix.byTu
      /\ jx.noProvenance = IF se.tuPath = NoString THEN Append(ix.noProvenance, n)
                           ELSE ix.noProvenance
  <2>1. Pushed(ix, jx, se, trackTu, n)
    BY <1>0, <1>01, InsertFields
  <2> QED BY <1>00, <2>1 DEF Pushed
<1> DEFINE P == DOMAIN ix.contexts
           Q == DOMAIN jx.contexts
           c == ix.contexts
           d == jx.contexts
           q == ix.noProvenance
           r == jx.noProvenance
           Of(k) == At(ix.byTu, k)
<1>2. /\ P \subseteq Q /\ n \in Q /\ n \notin P
      /\ \A i \in P : d[i] = c[i]
      /\ d[n] = se
      /\ LiveContexts(jx) = LiveContexts(ix) \cup {n}
      /\ LiveContexts(ix) \subseteq P
  <2>1. PICK m : m = Len(ix.contexts)
    OBVIOUS
  <2>2. /\ m \in Nat /\ P = 1..m /\ Q = 1..m+1
        /\ \A i \in 1..m : d[i] = c[i]
        /\ d[m+1] = se
        /\ LiveContexts(jx) = LiveContexts(ix) \cup {m+1}
    <3>1. Grown(ix, jx, se, m)
      BY <2>1, <1>01, InsertPlaces
    <3> QED BY <3>1 DEF Grown
  <2>3. LiveContexts(ix) \subseteq P
    BY DEF LiveContexts
  <2>4. n = m + 1 /\ 1..m \subseteq 1..m+1 /\ m+1 \in 1..m+1 /\ m+1 \notin 1..m
    BY <1>0, <2>1, <2>2
  <2> HIDE DEF P, Q, c, d
  <2> QED BY <2>2, <2>3, <2>4
<1>3. /\ \A k \in DOMAIN ix.byTu : k \in DOMAIN ix.strings /\ k # NoString /\ OfTu(ix.byTu[k], P, c, k)
      /\ OfTu(q, P, c, NoString)
      /\ \A i \in LiveContexts(ix) :
           LET k == c[i].tuPath
           IN IF k = NoString THEN In(i, q) ELSE k \in DOMAIN ix.byTu /\ In(i, ix.byTu[k])
  BY DEF Located
<1>4. ASSUME NEW k
      PROVE  OfTu(Of(k), P, c, k)
  <2>1. CASE k \in DOMAIN ix.byTu
    <3>1. Of(k) = ix.byTu[k]
      BY <2>1 DEF At
    <3> QED BY <1>3, <2>1, <3>1
  <2>2. CASE k \notin DOMAIN ix.byTu
    <3>1. Of(k) = << >>
      BY <2>2 DEF At
    <3> HIDE DEF Of
    <3> QED BY <3>1 DEF OfTu
  <2> QED BY <2>1, <2>2
<1>5. /\ se.tuPath # NoString => /\ DOMAIN jx.byTu = DOMAIN ix.byTu \cup {se.tuPath}
                                 /\ jx.byTu[se.tuPath] = Append(Of(se.tuPath), n)
                                 /\ \A k \in DOMAIN ix.byTu : k # se.tuPath => jx.byTu[k] = ix.byTu[k]
      /\ se.tuPath = NoString => jx.byTu = ix.byTu
  BY <1>1 DEF Push
<1>6. r = IF se.tuPath = NoString THEN Append(q, n) ELSE q
  BY <1>1 DEF q, r
<1>7. /\ \A k : k \in DOMAIN ix.byTu => Of(k) = ix.byTu[k]
      /\ se.tuPath # NoString => se.tuPath \in DOMAIN ix.strings
  BY DEF At, Entry
<1> HIDE DEF Of, P, Q, c, d, q, r
<1>8. ASSUME NEW k
      PROVE  OfTu(Of(k), Q, d, k) /\ Of(k) \in Seq(Q)
  <2>1. OfTu(Of(k), Q, d, k)
    BY <1>2, <1>4, OfTuWider
  <2> QED BY <2>1 DEF OfTu
<1>9. OfTu(q, Q, d, NoString) /\ q \in Seq(Q)
  <2>1. OfTu(q, Q, d, NoString)
    BY <1>2, <1>3, OfTuWider
  <2> QED BY <2>1 DEF OfTu
<1>10. ASSUME NEW k \in DOMAIN jx.byTu
       PROVE  k \in DOMAIN jx.strings /\ k # NoString /\ OfTu(jx.byTu[k], Q, d, k)
  <2>1. CASE se.tuPath # NoString /\ k = se.tuPath
    <3>1. d[n].tuPath = k
      BY <1>2, <2>1
    <3>2. OfTu(Append(Of(k), n), Q, d, k)
      BY <1>2, <1>8, <3>1, OfTuAppend
    <3>3. jx.byTu[k] = Append(Of(k), n)
      BY <1>5, <2>1
    <3>4. k \in DOMAIN jx.strings
      BY <1>1, <1>7, <2>1
    <3> QED BY <2>1, <3>2, <3>3, <3>4
  <2>2. CASE ~ (se.tuPath # NoString /\ k = se.tuPath)
    <3>1. k \in DOMAIN ix.byTu /\ jx.byTu[k] = ix.byTu[k]
      BY <1>5, <2>2
    <3>2. jx.byTu[k] = Of(k)
      BY <1>7, <3>1
    <3> QED BY <1>1, <1>3, <1>8, <3>1, <3>2
  <2> QED BY <2>1, <2>2
<1>11. OfTu(r, Q, d, NoString)
  <2>1. CASE se.tuPath = NoString
    <3>1. d[n].tuPath = NoString
      BY <1>2, <2>1
    <3>2. OfTu(Append(q, n), Q, d, NoString)
      BY <1>2, <1>9, <3>1, OfTuAppend
    <3> QED BY <1>6, <2>1, <3>2
  <2>2. CASE se.tuPath # NoString
    BY <1>6, <1>9, <2>2
  <2> QED BY <2>1, <2>2
<1>12. ASSUME NEW i \in LiveContexts(jx), NEW k, k = d[i].tuPath
       PROVE  IF k = NoString THEN In(i, r) ELSE k \in DOMAIN jx.byTu /\ In(i, jx.byTu[k])
  <2>1. CASE i = n
    <3>1. k = se.tuPath
      BY <1>2, <1>12, <2>1
    <3>2. CASE k = NoString
      <4>1. In(n, Append(q, n))
        BY <1>2, <1>9, InAppend
      <4> QED BY <1>6, <2>1, <3>1, <3>2, <4>1
    <3>3. CASE k # NoString
      <4>1. k \in DOMAIN jx.byTu /\ jx.byTu[k] = Append(Of(k), n)
        BY <1>5, <3>1, <3>3
      <4>2. In(n, Append(Of(k), n))
        BY <1>2, <1>8, InAppend
      <4> QED BY <2>1, <3>3, <4>1, <4>2
    <3> QED BY <3>2, <3>3
  <2>2. CASE i # n
    <3>1. i \in LiveContexts(ix) /\ k = c[i].tuPath
      BY <1>2, <1>12, <2>2
    <3>2. CASE k = NoString
      <4>1. In(i, q)
        BY <1>3, <3>1, <3>2
      <4>2. In(i, Append(q, n))
        BY <1>2, <1>9, <4>1, InAppend
      <4> QED BY <1>6, <3>2, <4>1, <4>2
    <3>3. CASE k # NoString
      <4>1. k \in DOMAIN ix.byTu /\ In(i, ix.byTu[k])
        BY <1>3, <3>1, <3>3
      <4>2. In(i, Append(Of(k), n))
        BY <1>2, <1>7, <1>8, <4>1, InAppend
      <4>3. k \in DOMAIN jx.byTu /\ (jx.byTu[k] = ix.byTu[k] \/ jx.byTu[k] = Append(Of(k), n))
        BY <1>5, <4>1
      <4> QED BY <3>3, <4>1, <4>2, <4>3
    <3> QED BY <3>2, <3>3
  <2> QED BY <2>1, <2>2
<1> QED BY <1>10, <1>11, <1>12 DEF Located, Q, d, r

\* What a scan sees of a context stored behind the others.
LEMMA InsertScan ==
  ASSUME NEW ix, Good(ix), NEW se, Entry(ix, se), se.live, Shows(ix, se), NEW trackTu \in BOOLEAN,
         NEW jx, jx = InsertStored(ix, se, trackTu)
  PROVE  AllContexts(jx) = Append(AllContexts(ix), View(ix, se))
<1> DEFINE v == Views(ix)
           w == Views(jx)
           y == View(ix, se)
           L == LiveContexts(ix)
           M == LiveContexts(jx)
<1>1. PICK n : n = Len(ix.contexts)
  OBVIOUS
<1>2. Grown(ix, jx, se, n)
  BY <1>1, InsertPlaces
<1>3. Stored(ix) /\ Stored(jx)
  BY InsertStoredOk DEF Good
<1>4. v \in Seq(ShownAll) /\ Len(v) = n /\ n \in Nat
  BY <1>1, <1>2, <1>3, ViewsSeq DEF Grown
<1>5. y \in ShownAll
  BY DEF Shows
<1>6. w = Append(v, y) /\ M = L \cup {n+1} /\ n + 1 \notin L
  BY <1>2 DEF Grown
<1>7. AllContexts(ix) = Listed(v, L) /\ AllContexts(jx) = Listed(w, M)
  BY <1>3, AllContextsAre
<1> HIDE DEF v, w, y, L, M
<1>8. Listed(w, M) = Append(Listed(v, M), y)
  <2>1. Len(v) + 1 \in M
    BY <1>4, <1>6
  <2> QED BY <1>4, <1>5, <1>6, <2>1, ListedAppend
<1>9. Listed(v, M) = Listed(v, L)
  <2>1. \A m \in 1..Len(v) : m \in M <=> m \in L
    BY <1>4, <1>6
  <2> QED BY <1>4, <2>1, ListedSame
<1> QED BY <1>7, <1>8, <1>9 DEF y

(* jx is ix with other contexts, over the same tables.                       *)
SameTables(ix, jx) ==
  /\ jx.strings = ix.strings /\ jx.scopeSets = ix.scopeSets
  /\ jx.guardSets = ix.guardSets /\ jx.raiiSets = ix.raiiSets

LEMMA SameMeaning ==
  ASSUME NEW ix, NEW jx, SameTables(ix, jx), NEW se
  PROVE  /\ Entry(jx, se) <=> Entry(ix, se)
         /\ Shows(jx, se) <=> Shows(ix, se)
         /\ View(jx, se) = View(ix, se)
<1>1. View(jx, se) = View(ix, se)
  BY DEF SameTables, View
<1>2. Entry(jx, se) <=> Entry(ix, se)
  BY DEF SameTables, Entry
<1>3. Shows(jx, se) <=> Shows(ix, se)
  BY <1>1 DEF SameTables, Shows
<1> QED BY <1>1, <1>2, <1>3

\* One insertion, all told.
Inserted(ix, jx, se, trackTu) ==
  /\ Good(jx) /\ SameTables(ix, jx)
  /\ trackTu /\ Located(ix) => Located(jx)
  /\ AllContexts(jx) = Append(AllContexts(ix), View(ix, se))

LEMMA InsertOk ==
  ASSUME NEW ix, Good(ix), NEW se, Entry(ix, se), se.live, Shows(ix, se), NEW trackTu \in BOOLEAN,
         NEW jx, jx = InsertStored(ix, se, trackTu)
  PROVE  Inserted(ix, jx, se, trackTu)
<1>1. DOMAIN jx = IndexFields /\ Tables(jx) /\ Stored(jx)
  BY InsertStoredOk
<1>2. Lists(jx)
  BY InsertLists
<1>3. SameTables(ix, jx)
  <2>1. PICK i : i = Len(ix.contexts) + 1
    OBVIOUS
  <2>2. Pushed(ix, jx, se, trackTu, i)
    BY <2>1, InsertFields DEF Good
  <2> QED BY <2>2 DEF Pushed, SameTables
<1>4. ASSUME trackTu, Located(ix)
      PROVE  Located(jx)
  <2>1. trackTu = TRUE
    BY <1>4
  <2>2. jx = InsertStored(ix, se, TRUE)
    BY <2>1
  <2> QED BY <1>4, <2>2, InsertLocated
<1>5. AllContexts(jx) = Append(AllContexts(ix), View(ix, se))
  BY InsertScan
<1> QED BY <1>1, <1>2, <1>3, <1>4, <1>5 DEF Inserted, Good

\* f is what InsertAll computes for the first n contexts of the list.
Inserts(f, ix, list, trackTu, n) ==
  f = [m \in 0..n |-> IF m = 0 THEN ix ELSE InsertStored(f[m-1], list[m], trackTu)]

LEMMA InsertsExists ==
  ASSUME NEW ix, NEW list, NEW trackTu
  PROVE  \A n \in Nat : \E f : Inserts(f, ix, list, trackTu, n)
<1> DEFINE T == {n \in Nat : \E f : Inserts(f, ix, list, trackTu, n)}
<1>1. 0 \in T
  <2>1. Inserts([m \in 0..0 |-> ix], ix, list, trackTu, 0)
    BY DEF Inserts
  <2> QED BY <2>1
<1>2. ASSUME NEW n \in Nat, n \in T PROVE n + 1 \in T
  <2>1. PICK f : Inserts(f, ix, list, trackTu, n)
    BY <1>2
  <2> DEFINE g == [m \in 0..n+1 |-> IF m = n + 1 THEN InsertStored(f[n], list[m], trackTu) ELSE f[m]]
  <2>2. \A m \in 0..n : f[m] = IF m = 0 THEN ix ELSE InsertStored(f[m-1], list[m], trackTu)
    BY <2>1 DEF Inserts
  <2>3. \A m \in 0..n+1 : g[m] = IF m = 0 THEN ix ELSE InsertStored(g[m-1], list[m], trackTu)
    BY <2>2
  <2>4. Inserts(g, ix, list, trackTu, n + 1)
    BY <2>3 DEF Inserts
  <2> QED BY <2>4
<1>3. \A n \in Nat : n \in T
  <2> HIDE DEF T
  <2> QED BY <1>1, <1>2, SetInduction
<1> QED BY <1>3

(* Stored contexts inserted one after the other, all told.                   *)
AllInserted(ix, jx, list, trackTu) ==
  /\ Good(jx) /\ SameTables(ix, jx)
  /\ trackTu /\ Located(ix) => Located(jx)
  /\ AllContexts(jx) = AllContexts(ix) \o [m \in 1..Len(list) |-> View(ix, list[m])]

Storable(ix, se) == Entry(ix, se) /\ se.live /\ Shows(ix, se)

LEMMA AllContextsSeq ==
  ASSUME NEW ix, Good(ix)
  PROVE  AllContexts(ix) \in Seq(ShownAll)
<1>1. Stored(ix)
  BY DEF Good
<1>2. Views(ix) \in Seq(ShownAll)
  BY <1>1, ViewsSeq
<1>3. Listed(Views(ix), LiveContexts(ix)) \in Seq(ShownAll)
  BY <1>2, ListedType
<1> QED BY <1>1, <1>3, AllContextsAre

LEMMA InsertAllOk ==
  ASSUME NEW ix, Good(ix), NEW list, Len(list) \in Nat,
         \A m \in 1..Len(list) : Storable(ix, list[m]),
         NEW trackTu \in BOOLEAN, NEW jx, jx = InsertAll(ix, list, trackTu)
  PROVE  AllInserted(ix, jx, list, trackTu)
<1> DEFINE k == Len(list)
           c == CHOOSE g : Inserts(g, ix, list, trackTu, k)
           Y == [m \in 1..k |-> View(ix, list[m])]
           a == AllContexts(ix)
<1>1. jx = c[k]
  BY DEF InsertAll, Inserts
<1>2. Inserts(c, ix, list, trackTu, k)
  <2>1. \E g : Inserts(g, ix, list, trackTu, k)
    BY InsertsExists
  <2> QED BY <2>1, Zenon
<1>3. \A m \in 0..k : c[m] = IF m = 0 THEN ix ELSE InsertStored(c[m-1], list[m], trackTu)
  <2> HIDE DEF c, k
  <2> QED BY <1>2 DEF Inserts
<1> HIDE DEF c
<1>4. /\ a \in Seq(ShownAll)
      /\ \A m \in 1..k : Y[m] \in ShownAll /\ Y[m] = View(ix, list[m])
  BY AllContextsSeq DEF Storable, Shows
<1> DEFINE P(n) == /\ Good(c[n]) /\ SameTables(ix, c[n])
                   /\ trackTu /\ Located(ix) => Located(c[n])
                   /\ AllContexts(c[n]) = a \o [m \in 1..n |-> Y[m]]
           T == {n \in Nat : n <= k => P(n)}
<1> HIDE DEF P
<1>40. \A n \in Nat : n \in T <=> (n <= k => P(n))
  OBVIOUS
<1> HIDE DEF T
<1>5. 0 \in T
  <2>1. c[0] = ix
    BY <1>3
  <2>2. a \o [m \in 1..0 |-> Y[m]] = a
    <3>1. [m \in 1..0 |-> Y[m]] = << >>
      OBVIOUS
    <3> HIDE DEF Y, a
    <3> QED BY <1>4, <3>1
  <2>3. P(0)
    BY <2>1, <2>2 DEF SameTables, P
  <2> QED BY <1>40, <2>3
<1>6. ASSUME NEW n \in Nat, n \in T PROVE n + 1 \in T
  <2>1. SUFFICES ASSUME n + 1 <= k PROVE P(n + 1)
    BY <1>40
  <2> DEFINE se == list[n+1]
             x == c[n]
             z == c[n+1]
  <2>2. z = InsertStored(x, se, trackTu)
    <3>1. n + 1 \in 0..k /\ n + 1 # 0 /\ (n + 1) - 1 = n
      BY <2>1
    <3> QED BY <3>1, <1>3
  <2>3. P(n)
    BY <1>6, <1>40, <2>1
  <2>4. Storable(ix, se) /\ n + 1 \in 1..k
    BY <2>1
  <2>5. Good(x) /\ SameTables(ix, x) /\ AllContexts(x) = a \o [m \in 1..n |-> Y[m]]
    BY <2>3 DEF P
  <2>50. trackTu /\ Located(ix) => Located(x)
    BY <2>3 DEF P
  <2>6. Y[n+1] = View(ix, se)
    BY <1>4, <2>4
  <2>60. \A m \in 1..n+1 : Y[m] \in ShownAll
    BY <1>4, <2>1
  <2> HIDE DEF k, se, x, z, Y, a
  <2>7. Inserted(x, z, se, trackTu)
    <3>1. Entry(x, se) /\ se.live /\ Shows(x, se)
      BY <2>4, <2>5, SameMeaning DEF Storable
    <3> QED BY <2>2, <2>5, <3>1, InsertOk
  <2>8. AllContexts(z) = Append(a \o [m \in 1..n |-> Y[m]], Y[n+1])
    <3>1. View(x, se) = View(ix, se)
      BY <2>5, SameMeaning
    <3> QED BY <2>5, <2>6, <2>7, <3>1 DEF Inserted
  <2>9. a \o [m \in 1..n+1 |-> Y[m]] = Append(a \o [m \in 1..n |-> Y[m]], Y[n+1])
    BY <1>4, <2>60, ConcatStep
  <2>10. Good(z) /\ SameTables(ix, z) /\ (trackTu /\ Located(ix) => Located(z))
    BY <2>5, <2>50, <2>7 DEF Inserted, SameTables
  <2>11. AllContexts(z) = a \o [m \in 1..n+1 |-> Y[m]]
    BY <2>8, <2>9
  <2> QED BY <2>10, <2>11 DEF z, P
<1>7. \A n \in Nat : n \in T
  BY <1>5, <1>6, SetInduction
<1>8. P(k)
  BY <1>7, <1>40
<1>9. [m \in 1..k |-> Y[m]] = [m \in 1..k |-> View(ix, list[m])]
  OBVIOUS
<1> HIDE DEF Y
<1> QED BY <1>1, <1>8, <1>9 DEF AllInserted, P

-----------------------------------------------------------------------------
(* addCallSiteContext: tables that grow, then an insertion.                  *)

\* hx is ix over wider tables: what stood in a table stands there still.
Widened(ix, hx) ==
  /\ DOMAIN hx = IndexFields
  /\ hx.contexts = ix.contexts /\ hx.live = ix.live
  /\ hx.byCallee = ix.byCallee /\ hx.byCaller = ix.byCaller /\ hx.bySite = ix.bySite
  /\ hx.byCalleeDisplay = ix.byCalleeDisplay /\ hx.byCallerDisplay = ix.byCallerDisplay
  /\ hx.byTu = ix.byTu /\ hx.noProvenance = ix.noProvenance
  /\ Tables(hx)
  /\ Extends(hx.strings, ix.strings) /\ Extends(hx.scopeSets, ix.scopeSets)
  /\ Extends(hx.guardSets, ix.guardSets) /\ Extends(hx.raiiSets, ix.raiiSets)

LEMMA WidenView ==
  ASSUME NEW ix, Tables(ix), NEW hx, Widened(ix, hx), NEW se, Entry(ix, se)
  PROVE  Entry(hx, se) /\ View(hx, se) = View(ix, se)
<1>1. /\ \A i \in DOMAIN ix.strings : i \in DOMAIN hx.strings /\ hx.strings[i] = ix.strings[i]
      /\ \A i \in DOMAIN ix.scopeSets : i \in DOMAIN hx.scopeSets /\ hx.scopeSets[i] = ix.scopeSets[i]
      /\ \A i \in DOMAIN ix.guardSets : i \in DOMAIN hx.guardSets /\ hx.guardSets[i] = ix.guardSets[i]
      /\ \A i \in DOMAIN ix.raiiSets : i \in DOMAIN hx.raiiSets /\ hx.raiiSets[i] = ix.raiiSets[i]
  BY DEF Widened, Extends
<1>2. Entry(hx, se)
  BY <1>1 DEF Entry
<1> DEFINE raii == ix.raiiSets[se.raiiSet]
<1>3. raii \in Seq(DOMAIN ix.strings) /\ hx.raiiSets[se.raiiSet] = raii
  BY <1>1 DEF Entry, Tables
<1>4. [n \in DOMAIN raii |-> hx.strings[raii[n]]] = [n \in DOMAIN raii |-> ix.strings[raii[n]]]
  <2> DEFINE D == DOMAIN ix.strings
  <2> HIDE DEF raii, D
  <2>1. \A n \in DOMAIN raii : raii[n] \in D
    BY <1>3 DEF D
  <2> QED BY <1>1, <2>1 DEF D
<1>5. View(hx, se) = View(ix, se)
  <2>1. /\ hx.strings[se.caller] = ix.strings[se.caller] /\ hx.strings[se.callee] = ix.strings[se.callee]
        /\ hx.strings[se.callerDisplay] = ix.strings[se.callerDisplay]
        /\ hx.strings[se.calleeDisplay] = ix.strings[se.calleeDisplay]
        /\ hx.strings[se.site] = ix.strings[se.site]
        /\ se.tuPath # NoString => hx.strings[se.tuPath] = ix.strings[se.tuPath]
        /\ hx.scopeSets[se.scopeSet] = ix.scopeSets[se.scopeSet]
        /\ hx.guardSets[se.guardSet] = ix.guardSets[se.guardSet]
    BY <1>1 DEF Entry
  <2> HIDE DEF raii
  <2> QED BY <1>3, <1>4, <2>1 DEF View, raii
<1> QED BY <1>2, <1>5

LEMMA WidenOk ==
  ASSUME NEW ix, Good(ix), NEW hx, Widened(ix, hx)
  PROVE  /\ Good(hx)
         /\ Located(ix) => Located(hx)
         /\ AllContexts(hx) = AllContexts(ix)
<1>1. Tables(ix) /\ Stored(ix) /\ Lists(ix)
  BY DEF Good
<1>2. hx.contexts = ix.contexts /\ LiveContexts(hx) = LiveContexts(ix)
  BY DEF Widened, LiveContexts
<1>3. \A i \in DOMAIN ix.contexts :
        /\ Entry(ix, ix.contexts[i]) /\ Shows(ix, ix.contexts[i])
        /\ Entry(hx, ix.contexts[i]) /\ View(hx, ix.contexts[i]) = View(ix, ix.contexts[i])
  BY <1>1, WidenView DEF Stored
<1>4. \A i \in DOMAIN ix.contexts : Shows(hx, ix.contexts[i])
  <2>1. ASSUME NEW se, Entry(ix, se), Shows(ix, se), View(hx, se) = View(ix, se)
        PROVE  Shows(hx, se)
    <3>1. se.tuPath # NoString => hx.strings[se.tuPath] = ix.strings[se.tuPath]
      BY <2>1 DEF Entry, Widened, Extends
    <3> QED BY <2>1, <3>1 DEF Shows
  <2> QED BY <1>3, <2>1
<1>5. Stored(hx)
  BY <1>1, <1>2, <1>3, <1>4 DEF Stored, Widened
<1>6. UsrKeys(hx)
  <2>1. \A i \in DOMAIN ix.strings : i \in DOMAIN hx.strings /\ hx.strings[i] = ix.strings[i]
    BY DEF Widened, Extends
  <2>2. hx.byCallee = ix.byCallee /\ hx.byCaller = ix.byCaller
    BY DEF Widened
  <2>3. UsrKeys(ix)
    BY <1>1 DEF Lists
  <2> QED BY <2>1, <2>2, <2>3 DEF UsrKeys
<1>7. Lists(hx)
  <2>1. /\ CalleesListed(hx) <=> CalleesListed(ix)
        /\ CallersListed(hx) <=> CallersListed(ix)
    BY <1>2 DEF Widened, CalleesListed, CallersListed, ByCallee, ByCaller
  <2>2. /\ SitesListed(hx) <=> SitesListed(ix)
        /\ CalleeNamesListed(hx) <=> CalleeNamesListed(ix)
        /\ CallerNamesListed(hx) <=> CallerNamesListed(ix)
    BY <1>2 DEF Widened, SitesListed, CalleeNamesListed, CallerNamesListed, BySite, ByCalleeDisplay,
                ByCallerDisplay
  <2> QED BY <1>1, <1>6, <2>1, <2>2 DEF Lists
<1>8. Good(hx)
  BY <1>5, <1>7 DEF Good, Widened
<1>9. ASSUME Located(ix)
      PROVE  Located(hx)
  <2>1. \A k : k \in DOMAIN ix.strings => k \in DOMAIN hx.strings
    BY DEF Widened, Extends
  <2>2. hx.byTu = ix.byTu /\ hx.noProvenance = ix.noProvenance
    BY DEF Widened
  <2> QED BY <1>2, <1>9, <2>1, <2>2 DEF Located
<1>10. Views(hx) = Views(ix)
  BY <1>2, <1>3 DEF Views
<1>11. AllContexts(hx) = AllContexts(ix)
  BY <1>1, <1>2, <1>5, <1>10, AllContextsAre
<1> QED BY <1>8, <1>9, <1>11

\* A member of one of two sequences is one of both, the one behind the other.
LEMMA InConcat ==
  ASSUME NEW S, NEW s \in Seq(S), NEW t \in Seq(S), NEW x, In(x, s) \/ In(x, t)
  PROVE  In(x, s \o t)
<1> DEFINE p == s \o t
           k == Len(s)
           n == Len(t)
<1>1. /\ k \in Nat /\ n \in Nat /\ DOMAIN s = 1..k /\ DOMAIN t = 1..n /\ DOMAIN p = 1..k+n
      /\ \A i \in 1..k : p[i] = s[i]
      /\ \A i \in 1..n : p[k+i] = t[i]
  OBVIOUS
<1> HIDE DEF p, k, n
<1>2. CASE In(x, s)
  <2>1. PICK i \in 1..k : s[i] = x
    BY <1>1, <1>2 DEF In
  <2>2. i \in DOMAIN p /\ p[i] = x
    BY <1>1, <2>1
  <2> QED BY <2>2 DEF In, p
<1>3. CASE In(x, t)
  <2>1. PICK i \in 1..n : t[i] = x
    BY <1>1, <1>3 DEF In
  <2>2. k + i \in DOMAIN p /\ p[k+i] = x
    BY <1>1, <2>1
  <2> QED BY <2>2 DEF In, p
<1> QED BY <1>2, <1>3

\* A set interned: it has an id of its own, and the sets that were there keep theirs.
LEMMA InternSet ==
  ASSUME NEW t, IsTable(t), EmptySet \in DOMAIN t, t[EmptySet] = << >>, NEW x,
         NEW u, u = Intern(t, x)
  PROVE  /\ IsTable(u) /\ EmptySet \in DOMAIN u /\ u[EmptySet] = << >>
         /\ Extends(u, t)
         /\ IdOf(u, x) \in DOMAIN u /\ u[IdOf(u, x)] = x
         /\ \A i \in DOMAIN u : i \in DOMAIN t \/ u[i] = x
<1>1. /\ IsTable(u) /\ Extends(u, t) /\ In(x, u)
      /\ \A i \in DOMAIN u : i \in DOMAIN t \/ u[i] = x
  BY InternOne
<1>2. IdOf(u, x) \in DOMAIN u /\ u[IdOf(u, x)] = x
  BY <1>1, IdFacts
<1>3. EmptySet \in DOMAIN u /\ u[EmptySet] = << >>
  BY <1>1 DEF Extends
<1> QED BY <1>1, <1>2, <1>3

\* What addCallSiteContext interns: names, usrs, the site, the TU if any, the locals.
ToIntern(c, tu) ==
  <<display[c.callee], display[c.caller], c.callee, c.caller, c.site>>
    \o (IF tu = NoTU THEN <<>> ELSE <<tu>>) \o c.locals

LEMMA ToInternHas ==
  ASSUME NEW c \in Contexts, NEW tu
  PROVE  /\ Len(ToIntern(c, tu)) \in Nat
         /\ \A x \in {display[c.callee], display[c.caller], c.callee, c.caller, c.site} :
              In(x, ToIntern(c, tu))
         /\ tu # NoTU => In(tu, ToIntern(c, tu))
         /\ \A x : In(x, c.locals) => In(x, ToIntern(c, tu))
<1> DEFINE F == {display[c.callee], display[c.caller], c.callee, c.caller, c.site}
           p == <<display[c.callee], display[c.caller], c.callee, c.caller, c.site>>
           X == F \cup {tu} \cup ToSet(c.locals)
           q == IF tu = NoTU THEN <<>> ELSE <<tu>>
           r == p \o q
           l == c.locals
<1>1. p \in Seq(X) /\ q \in Seq(X)
  <2>1. /\ display[c.callee] \in X /\ display[c.caller] \in X /\ c.callee \in X /\ c.caller \in X
        /\ c.site \in X /\ tu \in X
    OBVIOUS
  <2> HIDE DEF X
  <2>2. p \in Seq(X)
    BY <2>1
  <2>3. << >> \in Seq(X) /\ <<tu>> \in Seq(X)
    BY <2>1
  <2> QED BY <2>2, <2>3
<1>2. l \in Seq(X)
  <2>1. l \in Seq(ToSet(l))
    BY ContextsAssumption
  <2> DEFINE P == ToSet(l)
  <2>2. P \subseteq X
    OBVIOUS
  <2> HIDE DEF P, X, l
  <2>3. l \in Seq(P)
    BY <2>1 DEF P
  <2> QED BY <2>2, <2>3, SeqWider
<1>3. \A x \in F : In(x, p)
  <2>1. DOMAIN p = 1..5 /\ p[1] = display[c.callee] /\ p[2] = display[c.caller] /\ p[3] = c.callee
        /\ p[4] = c.caller /\ p[5] = c.site
    OBVIOUS
  <2> HIDE DEF p
  <2> QED BY <2>1 DEF In
<1>4. tu # NoTU => In(tu, q)
  <2>1. SUFFICES ASSUME tu # NoTU PROVE In(tu, <<tu>>)
    OBVIOUS
  <2>2. 1 \in DOMAIN <<tu>> /\ <<tu>>[1] = tu
    OBVIOUS
  <2> QED BY <2>2 DEF In
<1>5. ToIntern(c, tu) = r \o l
  BY DEF ToIntern
<1> HIDE DEF F, p, q, X, l
<1>6. r \in Seq(X)
  BY <1>1
<1>7. (\A x \in F : In(x, r)) /\ (tu # NoTU => In(tu, r))
  BY <1>1, <1>3, <1>4, InConcat
<1> HIDE DEF r
<1>8. \A x : In(x, r) \/ In(x, l) => In(x, r \o l)
  BY <1>2, <1>6, InConcat
<1>9. Len(r \o l) \in Nat
  BY <1>2, <1>6
<1> QED BY <1>5, <1>7, <1>8, <1>9 DEF F, l

LEMMA AddContextOk ==
  ASSUME NEW ix, Good(ix), Located(ix), NEW c \in Contexts, NEW tu \in Owners,
         NEW jx, jx = AddContext(ix, c, tu)
  PROVE  /\ Good(jx) /\ Located(jx)
         /\ AllContexts(jx) = Append(AllContexts(ix), Shown(c, tu))
<1> DEFINE list == ToIntern(c, tu)
           u == InternAll(ix.strings, list)
           Id(s) == IdOf(u, s)
           l == c.locals
           locals == [n \in DOMAIN l |-> Id(l[n])]
           sc == Intern(ix.scopeSets, c.scopes)
           gu == Intern(ix.guardSets, c.guards)
           ra == Intern(ix.raiiSets, locals)
           hx == [ix EXCEPT !.strings = u, !.scopeSets = sc, !.guardSets = gu, !.raiiSets = ra]
           tid == IF tu = NoTU THEN NoString ELSE Id(tu)
           se == [caller |-> Id(c.caller), callee |-> Id(c.callee),
                  callerDisplay |-> Id(display[c.caller]), calleeDisplay |-> Id(display[c.callee]),
                  site |-> Id(c.site), tuPath |-> tid,
                  scopeSet |-> IdOf(sc, c.scopes), guardSet |-> IdOf(gu, c.guards),
                  raiiSet |-> IdOf(ra, locals), attr |-> c.attr, live |-> TRUE]
<1>1. jx = InsertStored(hx, se, TRUE)
  BY DEF AddContext, ToIntern
<1>2. /\ IsTable(ix.strings)
      /\ IsTable(ix.scopeSets) /\ EmptySet \in DOMAIN ix.scopeSets /\ ix.scopeSets[EmptySet] = << >>
      /\ IsTable(ix.guardSets) /\ EmptySet \in DOMAIN ix.guardSets /\ ix.guardSets[EmptySet] = << >>
      /\ IsTable(ix.raiiSets) /\ EmptySet \in DOMAIN ix.raiiSets /\ ix.raiiSets[EmptySet] = << >>
      /\ \A n \in DOMAIN ix.raiiSets : ix.raiiSets[n] \in Seq(DOMAIN ix.strings)
      /\ DOMAIN ix = IndexFields
  BY DEF Good, Tables
<1>3. IsTable(u) /\ Extends(u, ix.strings) /\ \A x : In(x, list) => Id(x) \in DOMAIN u /\ u[Id(x)] = x
  <2>1. Len(list) \in Nat
    BY ToInternHas
  <2> HIDE DEF list
  <2>2. IsTable(u) /\ Extends(u, ix.strings) /\ \A n \in 1..Len(list) : In(list[n], u)
    BY <1>2, <2>1, InternAllFacts
  <2>3. DOMAIN list = 1..Len(list)
    BY <2>1, ToInternHas DEF list
  <2>4. \A x : In(x, list) => In(x, u)
    BY <2>2, <2>3 DEF In
  <2> HIDE DEF u
  <2> QED BY <2>2, <2>4, IdFacts
<1>4. /\ l \in Seq(ToSet(l)) /\ c.caller \in Fns /\ c.callee \in Fns
  BY ContextsAssumption
<1>5. /\ \A x \in {display[c.callee], display[c.caller], c.callee, c.caller, c.site} :
           Id(x) \in DOMAIN u /\ u[Id(x)] = x
      /\ tu # NoTU => Id(tu) \in DOMAIN u /\ u[Id(tu)] = tu
      /\ \A n \in DOMAIN l : Id(l[n]) \in DOMAIN u /\ u[Id(l[n])] = l[n]
  <2>1. \A n \in DOMAIN l : In(l[n], l)
    BY DEF In
  <2> HIDE DEF u, list
  <2> QED BY <1>3, <2>1, ToInternHas DEF list
<1>6. locals \in Seq(DOMAIN u)
  <2> DEFINE D == DOMAIN u
             k == Len(l)
  <2>1. k \in Nat /\ DOMAIN l = 1..k
    BY <1>4
  <2>2. locals = [n \in 1..k |-> locals[n]] /\ \A n \in 1..k : locals[n] \in D
    BY <1>5, <2>1
  <2> HIDE DEF locals, D, k, l
  <2> QED BY <2>1, <2>2, AsSeq DEF D
<1>60. [n \in DOMAIN locals |-> u[locals[n]]] = l
  <2>1. l = [n \in DOMAIN l |-> l[n]]
    <3> HIDE DEF l
    <3> QED BY <1>4
  <2> HIDE DEF u, l
  <2> QED BY <1>5, <2>1
<1> HIDE DEF u, list, locals, l
<1>7. /\ IsTable(sc) /\ EmptySet \in DOMAIN sc /\ sc[EmptySet] = << >> /\ Extends(sc, ix.scopeSets)
      /\ IdOf(sc, c.scopes) \in DOMAIN sc /\ sc[IdOf(sc, c.scopes)] = c.scopes
  BY <1>2, InternSet
<1>8. /\ IsTable(gu) /\ EmptySet \in DOMAIN gu /\ gu[EmptySet] = << >> /\ Extends(gu, ix.guardSets)
      /\ IdOf(gu, c.guards) \in DOMAIN gu /\ gu[IdOf(gu, c.guards)] = c.guards
  BY <1>2, InternSet
<1>9. /\ IsTable(ra) /\ EmptySet \in DOMAIN ra /\ ra[EmptySet] = << >> /\ Extends(ra, ix.raiiSets)
      /\ IdOf(ra, locals) \in DOMAIN ra /\ ra[IdOf(ra, locals)] = locals
      /\ \A i \in DOMAIN ra : i \in DOMAIN ix.raiiSets \/ ra[i] = locals
  BY <1>2, InternSet
<1> HIDE DEF sc, gu, ra
<1>10. /\ DOMAIN hx = IndexFields /\ hx.strings = u /\ hx.scopeSets = sc /\ hx.guardSets = gu
       /\ hx.raiiSets = ra
       /\ hx.contexts = ix.contexts /\ hx.live = ix.live
       /\ hx.byCallee = ix.byCallee /\ hx.byCaller = ix.byCaller /\ hx.bySite = ix.bySite
       /\ hx.byCalleeDisplay = ix.byCalleeDisplay /\ hx.byCallerDisplay = ix.byCallerDisplay
       /\ hx.byTu = ix.byTu /\ hx.noProvenance = ix.noProvenance
  BY <1>2 DEF IndexFields
<1>11. \A i \in DOMAIN ra : ra[i] \in Seq(DOMAIN u)
  <2>1. DOMAIN ix.strings \subseteq DOMAIN u
    BY <1>3 DEF Extends
  <2> DEFINE P == DOMAIN ix.strings
             Q == DOMAIN u
  <2>2. P \subseteq Q /\ (\A n \in DOMAIN ix.raiiSets : ix.raiiSets[n] \in Seq(P)) /\ locals \in Seq(Q)
    BY <1>2, <1>6, <2>1
  <2> HIDE DEF P, Q
  <2>3. \A n \in DOMAIN ix.raiiSets : ix.raiiSets[n] \in Seq(Q)
    BY <2>2, SeqWider
  <2>4. ASSUME NEW i \in DOMAIN ra
        PROVE  ra[i] \in Seq(Q)
    <3>1. CASE i \in DOMAIN ix.raiiSets
      <4>1. ra[i] = ix.raiiSets[i]
        BY <1>9, <3>1 DEF Extends
      <4> QED BY <2>3, <3>1, <4>1
    <3>2. CASE i \notin DOMAIN ix.raiiSets
      BY <1>9, <2>2, <3>2
    <3> QED BY <3>1, <3>2
  <2> QED BY <2>4 DEF Q
<1> HIDE DEF hx
<1>12. Tables(hx)
  BY <1>3, <1>7, <1>8, <1>9, <1>10, <1>11 DEF Tables
<1>13. Widened(ix, hx)
  BY <1>3, <1>7, <1>8, <1>9, <1>10, <1>12 DEF Widened
<1>14. Good(hx) /\ Located(hx) /\ AllContexts(hx) = AllContexts(ix)
  BY <1>13, WidenOk
<1>15. /\ tid # NoString => tu # NoTU /\ tid \in DOMAIN u /\ u[tid] = tu
       /\ tid = NoString => tu = NoTU
  <2>1. NoString \notin DOMAIN u
    BY <1>3, TableDomain DEF NoString
  <2> QED BY <1>5, <2>1
<1>16. /\ Id(c.caller) \in DOMAIN u /\ u[Id(c.caller)] = c.caller
       /\ Id(c.callee) \in DOMAIN u /\ u[Id(c.callee)] = c.callee
       /\ Id(display[c.caller]) \in DOMAIN u /\ u[Id(display[c.caller])] = display[c.caller]
       /\ Id(display[c.callee]) \in DOMAIN u /\ u[Id(display[c.callee])] = display[c.callee]
       /\ Id(c.site) \in DOMAIN u /\ u[Id(c.site)] = c.site
  BY <1>5
<1> HIDE DEF Id, tid
<1>17. Entry(hx, se) /\ se.live
  BY <1>7, <1>8, <1>9, <1>10, <1>15, <1>16 DEF Entry
<1>18. View(hx, se) = Shown(c, tu)
  <2>1. /\ hx.strings[se.caller] = c.caller /\ hx.strings[se.callee] = c.callee
        /\ hx.strings[se.callerDisplay] = display[c.caller]
        /\ hx.strings[se.calleeDisplay] = display[c.callee]
        /\ hx.strings[se.site] = c.site
        /\ hx.scopeSets[se.scopeSet] = c.scopes /\ hx.guardSets[se.guardSet] = c.guards
        /\ hx.raiiSets[se.raiiSet] = locals /\ se.attr = c.attr
    BY <1>7, <1>8, <1>9, <1>10, <1>16
  <2>2. (IF se.tuPath = NoString THEN NoTU ELSE hx.strings[se.tuPath]) = tu
    BY <1>10, <1>15
  <2>3. [n \in DOMAIN hx.raiiSets[se.raiiSet] |-> hx.strings[hx.raiiSets[se.raiiSet][n]]] = c.locals
    BY <1>10, <1>60, <2>1 DEF l
  <2> HIDE DEF se
  <2> QED BY <2>1, <2>2, <2>3 DEF View, Shown
<1>19. Shows(hx, se)
  <2>1. se.tuPath # NoString => hx.strings[se.tuPath] \in TUs
    BY <1>10, <1>15 DEF Owners
  <2>2. Shown(c, tu) \in ShownAll
    BY DEF ShownAll
  <2> HIDE DEF se
  <2> QED BY <1>18, <2>1, <2>2 DEF Shows
<1> HIDE DEF se
<1>20. PICK trackTu \in BOOLEAN : trackTu = TRUE
  OBVIOUS
<1>21. Inserted(hx, jx, se, trackTu)
  <2>1. jx = InsertStored(hx, se, trackTu)
    BY <1>1, <1>20 DEF hx, se, sc, gu, ra, locals, u, l, list, Id, tid
  <2> QED BY <1>14, <1>17, <1>19, <2>1, InsertOk
<1> QED BY <1>14, <1>18, <1>20, <1>21 DEF Inserted

-----------------------------------------------------------------------------
(* absorb.                                                                   *)

\* The live contexts, as they are stored, are what a scan shows.
LEMMA LiveStoredFacts ==
  ASSUME NEW ix, Stored(ix), NEW list, list = LiveStored(ix)
  PROVE  /\ Len(list) \in Nat /\ DOMAIN list = 1..Len(list)
         /\ \A n \in 1..Len(list) : Storable(ix, list[n])
         /\ AllContexts(ix) = [n \in 1..Len(list) |-> View(ix, list[n])]
<1> DEFINE n == Len(ix.contexts)
           L == LiveContexts(ix)
           at == InOrder(L, n)
           c == ix.contexts
           v == Views(ix)
<1>1. n \in Nat /\ DOMAIN c = 1..n /\ c = [i \in 1..n |-> c[i]]
  BY DEF Stored
<1>2. at \in Seq(Nat) /\ \A k \in DOMAIN at : at[k] \in 1..n /\ at[k] \in L
  BY <1>1, InOrderType
<1>3. list = [k \in DOMAIN at |-> c[at[k]]]
  BY DEF LiveStored, Listed
<1>4. \A i \in L : Storable(ix, c[i])
  BY DEF Stored, LiveContexts, Storable
<1>5. Len(v) = n /\ \A i \in 1..n : v[i] = View(ix, c[i])
  BY <1>1, ViewsSeq DEF Views
<1>6. AllContexts(ix) = [k \in DOMAIN at |-> v[at[k]]]
  BY <1>5, AllContextsAre DEF Listed
<1> HIDE DEF at, c, v, n, L
<1>7. DOMAIN at = 1..Len(at) /\ Len(at) \in Nat
  BY <1>2
<1>8. Len(list) = Len(at) /\ DOMAIN list = 1..Len(at) /\ \A k \in 1..Len(at) : list[k] = c[at[k]]
  <2>1. list = [k \in 1..Len(at) |-> c[at[k]]]
    BY <1>3, <1>7
  <2> QED BY <1>7, <2>1
<1>9. \A k \in 1..Len(list) : Storable(ix, list[k])
  BY <1>2, <1>4, <1>7, <1>8
<1>10. AllContexts(ix) = [k \in 1..Len(at) |-> View(ix, list[k])]
  BY <1>2, <1>5, <1>6, <1>7, <1>8
<1> QED BY <1>7, <1>8, <1>9, <1>10

\* The strings, or the sets, of a shard interned: each has an id in the wider table.
LEMMA InternTable ==
  ASSUME NEW t, IsTable(t), NEW s, IsTable(s), NEW u, u = InternAll(t, s)
  PROVE  /\ IsTable(u) /\ Extends(u, t)
         /\ \A i \in DOMAIN s : IdOf(u, s[i]) \in DOMAIN u /\ u[IdOf(u, s[i])] = s[i]
<1>1. DOMAIN s = 1..Len(s) /\ Len(s) \in Nat
  BY TableDomain
<1>2. IsTable(u) /\ Extends(u, t) /\ \A n \in 1..Len(s) : In(s[n], u)
  BY <1>1, InternAllFacts
<1>3. \A i \in DOMAIN s : IdOf(u, s[i]) \in DOMAIN u /\ u[IdOf(u, s[i])] = s[i]
  BY <1>1, <1>2, IdFacts
<1> QED BY <1>2, <1>3

\* A set of locals in the ids of another table of strings.
LEMMA RemapFacts ==
  ASSUME NEW shard, IsTable(shard.strings), NEW u,
         \A i \in DOMAIN shard.strings : /\ IdOf(u, shard.strings[i]) \in DOMAIN u
                                         /\ u[IdOf(u, shard.strings[i])] = shard.strings[i],
         NEW s \in Seq(DOMAIN shard.strings), NEW r, r = RemapLocals(u, shard, s)
  PROVE  /\ r \in Seq(DOMAIN u)
         /\ [n \in DOMAIN r |-> u[r[n]]] = [n \in DOMAIN s |-> shard.strings[s[n]]]
<1> DEFINE D == DOMAIN shard.strings
           E == DOMAIN u
           k == Len(s)
<1>1. k \in Nat /\ DOMAIN s = 1..k /\ \A n \in 1..k : s[n] \in D
  <2> HIDE DEF D
  <2>1. s \in Seq(D)
    BY DEF D
  <2> QED BY <2>1
<1>2. r = [n \in 1..k |-> IdOf(u, shard.strings[s[n]])]
  BY <1>1 DEF RemapLocals
<1>3. \A n \in 1..k : r[n] \in E /\ u[r[n]] = shard.strings[s[n]]
  BY <1>1, <1>2
<1> HIDE DEF E, k, D
<1>4. r = [n \in 1..k |-> r[n]] /\ DOMAIN r = 1..k
  BY <1>2
<1>5. r \in Seq(E)
  BY <1>1, <1>3, <1>4, AsSeq
<1> QED BY <1>1, <1>3, <1>4, <1>5 DEF E

\* The sets of locals of a shard interned in the ids of another table of strings.
(* u is the table t with the elements of the list interned.                  *)
Interned(t, list, u) ==
  /\ IsTable(u) /\ Extends(u, t)
  /\ \A n \in 1..Len(list) : In(list[n], u)
  /\ \A i \in DOMAIN u : i \in DOMAIN t \/ \E n \in 1..Len(list) : u[i] = list[n]

LEMMA InternedAll ==
  ASSUME NEW t, IsTable(t), NEW list, Len(list) \in Nat
  PROVE  Interned(t, list, InternAll(t, list))
<1> DEFINE u == InternAll(t, list)
<1>1. /\ IsTable(u) /\ Extends(u, t)
      /\ \A n \in 1..Len(list) : In(list[n], u)
      /\ \A i \in DOMAIN u : i \in DOMAIN t \/ \E n \in 1..Len(list) : u[i] = list[n]
  BY InternAllFacts
<1> HIDE DEF u
<1>2. Interned(t, list, u)
  BY <1>1 DEF Interned
<1> QED BY <1>2 DEF u

LEMMA InternLocals ==
  ASSUME NEW ix, Tables(ix), NEW shard, Tables(shard),
         NEW u, IsTable(u), Extends(u, ix.strings),
         \A i \in DOMAIN shard.strings : /\ IdOf(u, shard.strings[i]) \in DOMAIN u
                                         /\ u[IdOf(u, shard.strings[i])] = shard.strings[i],
         NEW ra, ra = InternAll(ix.raiiSets, [n \in DOMAIN shard.raiiSets |->
                                                RemapLocals(u, shard, shard.raiiSets[n])])
  PROVE  /\ IsTable(ra) /\ Extends(ra, ix.raiiSets)
         /\ \A n \in DOMAIN ra : ra[n] \in Seq(DOMAIN u)
         /\ \A n \in DOMAIN shard.raiiSets :
              LET r == RemapLocals(u, shard, shard.raiiSets[n])
              IN IdOf(ra, r) \in DOMAIN ra /\ ra[IdOf(ra, r)] = r
<1> DEFINE R(n) == RemapLocals(u, shard, shard.raiiSets[n])
           list == [n \in DOMAIN shard.raiiSets |-> R(n)]
           k == Len(shard.raiiSets)
           E == DOMAIN u
<1>1. IsTable(ix.raiiSets) /\ IsTable(shard.raiiSets) /\ IsTable(shard.strings)
  BY DEF Tables
<1>2. k \in Nat /\ DOMAIN shard.raiiSets = 1..k
  BY <1>1, TableDomain
<1>3. Len(list) = k /\ \A n \in 1..k : list[n] = R(n)
  <2> HIDE DEF R
  <2> QED BY <1>2
<1>4. \A n \in 1..k : R(n) \in Seq(E)
  <2>1. \A n \in 1..k : shard.raiiSets[n] \in Seq(DOMAIN shard.strings)
    BY <1>2 DEF Tables
  <2> QED BY <1>1, <2>1, RemapFacts
<1>5. \A n \in DOMAIN ix.raiiSets : ix.raiiSets[n] \in Seq(E)
  <2> DEFINE P == DOMAIN ix.strings
  <2>1. P \subseteq E /\ \A n \in DOMAIN ix.raiiSets : ix.raiiSets[n] \in Seq(P)
    BY DEF Tables, Extends
  <2> HIDE DEF P, E
  <2> QED BY <2>1, SeqWider
<1>6. ra = InternAll(ix.raiiSets, list)
  OBVIOUS
<1> HIDE DEF list, R, k, E
<1>7. /\ IsTable(ra) /\ Extends(ra, ix.raiiSets)
      /\ \A n \in 1..Len(list) : In(list[n], ra)
      /\ \A i \in DOMAIN ra : i \in DOMAIN ix.raiiSets \/ \E n \in 1..Len(list) : ra[i] = list[n]
  <2>1. Len(list) \in Nat /\ IsTable(ix.raiiSets)
    BY <1>1, <1>2, <1>3
  <2>2. Interned(ix.raiiSets, list, ra)
    BY <1>6, <2>1, InternedAll
  <2> QED BY <2>2 DEF Interned
<1>8. \A i \in DOMAIN ra : ra[i] \in Seq(E)
  <2>1. ASSUME NEW i \in DOMAIN ra
        PROVE  ra[i] \in Seq(E)
    <3>1. CASE i \in DOMAIN ix.raiiSets
      <4>1. ra[i] = ix.raiiSets[i]
        BY <1>7, <3>1 DEF Extends
      <4> QED BY <1>5, <3>1, <4>1
    <3>2. CASE i \notin DOMAIN ix.raiiSets
      <4>1. PICK n \in 1..Len(list) : ra[i] = list[n]
        BY <1>7, <3>2
      <4> QED BY <1>3, <1>4, <4>1
    <3> QED BY <3>1, <3>2
  <2> QED BY <2>1
<1>9. \A n \in 1..k : IdOf(ra, R(n)) \in DOMAIN ra /\ ra[IdOf(ra, R(n))] = R(n)
  BY <1>3, <1>7, IdFacts
<1> QED BY <1>2, <1>7, <1>8, <1>9 DEF R, E

(* A stored context of a shard in the ids of a wider index.                  *)
Translated(u, sc, gu, ra, shard, se) ==
  LET Remap(id) == IF id = NoString THEN NoString ELSE IdOf(u, shard.strings[id])
  IN [se EXCEPT !.caller = Remap(@), !.callee = Remap(@),
                !.callerDisplay = Remap(@), !.calleeDisplay = Remap(@),
                !.site = Remap(@), !.tuPath = Remap(@),
                !.scopeSet = IdOf(sc, shard.scopeSets[@]),
                !.guardSet = IdOf(gu, shard.guardSets[@]),
                !.raiiSet = IdOf(ra, RemapLocals(u, shard, shard.raiiSets[@]))]

(* te is se translated, field by field.                                      *)
Remapped(u, sc, gu, ra, shard, se, te) ==
  /\ te = [caller |-> te.caller, callee |-> te.callee, callerDisplay |-> te.callerDisplay,
           calleeDisplay |-> te.calleeDisplay, site |-> te.site, tuPath |-> te.tuPath,
           scopeSet |-> te.scopeSet, guardSet |-> te.guardSet, raiiSet |-> te.raiiSet,
           attr |-> te.attr, live |-> te.live]
  /\ te.caller = IdOf(u, shard.strings[se.caller])
  /\ te.callee = IdOf(u, shard.strings[se.callee])
  /\ te.callerDisplay = IdOf(u, shard.strings[se.callerDisplay])
  /\ te.calleeDisplay = IdOf(u, shard.strings[se.calleeDisplay])
  /\ te.site = IdOf(u, shard.strings[se.site])
  /\ te.tuPath = IF se.tuPath = NoString THEN NoString ELSE IdOf(u, shard.strings[se.tuPath])
  /\ te.scopeSet = IdOf(sc, shard.scopeSets[se.scopeSet])
  /\ te.guardSet = IdOf(gu, shard.guardSets[se.guardSet])
  /\ te.raiiSet = IdOf(ra, RemapLocals(u, shard, shard.raiiSets[se.raiiSet]))
  /\ te.attr = se.attr /\ te.live = se.live

LEMMA TranslatedFields ==
  ASSUME NEW u, NEW sc, NEW gu, NEW ra, NEW shard, Tables(shard), NEW se, Entry(shard, se),
         NEW te, te = Translated(u, sc, gu, ra, shard, se)
  PROVE  Remapped(u, sc, gu, ra, shard, se, te)
<1> DEFINE Remap(id) == IF id = NoString THEN NoString ELSE IdOf(u, shard.strings[id])
<1>1. NoString \notin DOMAIN shard.strings
  BY TableDomain DEF NoString, Tables
<1>2. /\ Remap(se.caller) = IdOf(u, shard.strings[se.caller])
      /\ Remap(se.callee) = IdOf(u, shard.strings[se.callee])
      /\ Remap(se.callerDisplay) = IdOf(u, shard.strings[se.callerDisplay])
      /\ Remap(se.calleeDisplay) = IdOf(u, shard.strings[se.calleeDisplay])
      /\ Remap(se.site) = IdOf(u, shard.strings[se.site])
      /\ Remap(se.tuPath) = IF se.tuPath = NoString THEN NoString
                            ELSE IdOf(u, shard.strings[se.tuPath])
  BY <1>1 DEF Entry
<1>3. se = [caller |-> se.caller, callee |-> se.callee, callerDisplay |-> se.callerDisplay,
            calleeDisplay |-> se.calleeDisplay, site |-> se.site, tuPath |-> se.tuPath,
            scopeSet |-> se.scopeSet, guardSet |-> se.guardSet, raiiSet |-> se.raiiSet,
            attr |-> se.attr, live |-> se.live]
  BY DEF Entry
<1>4. te = [caller |-> Remap(se.caller), callee |-> Remap(se.callee),
            callerDisplay |-> Remap(se.callerDisplay), calleeDisplay |-> Remap(se.calleeDisplay),
            site |-> Remap(se.site), tuPath |-> Remap(se.tuPath),
            scopeSet |-> IdOf(sc, shard.scopeSets[se.scopeSet]),
            guardSet |-> IdOf(gu, shard.guardSets[se.guardSet]),
            raiiSet |-> IdOf(ra, RemapLocals(u, shard, shard.raiiSets[se.raiiSet])),
            attr |-> se.attr, live |-> se.live]
  <2>1. te = [se EXCEPT !.caller = Remap(@), !.callee = Remap(@),
                !.callerDisplay = Remap(@), !.calleeDisplay = Remap(@),
                !.site = Remap(@), !.tuPath = Remap(@),
                !.scopeSet = IdOf(sc, shard.scopeSets[@]),
                !.guardSet = IdOf(gu, shard.guardSets[@]),
                !.raiiSet = IdOf(ra, RemapLocals(u, shard, shard.raiiSets[@]))]
    BY DEF Translated
  <2> HIDE DEF Remap
  <2>2. PICK v1, v2, v3, v4, v5, v6, w1, w2, w3 :
          /\ v1 = Remap(se.caller) /\ v2 = Remap(se.callee)
          /\ v3 = Remap(se.callerDisplay) /\ v4 = Remap(se.calleeDisplay)
          /\ v5 = Remap(se.site) /\ v6 = Remap(se.tuPath)
          /\ w1 = IdOf(sc, shard.scopeSets[se.scopeSet])
          /\ w2 = IdOf(gu, shard.guardSets[se.guardSet])
          /\ w3 = IdOf(ra, RemapLocals(u, shard, shard.raiiSets[se.raiiSet]))
    OBVIOUS
  <2>3. te = [se EXCEPT !.caller = v1, !.callee = v2, !.callerDisplay = v3, !.calleeDisplay = v4,
                !.site = v5, !.tuPath = v6, !.scopeSet = w1, !.guardSet = w2, !.raiiSet = w3]
    BY <2>1, <2>2
  <2>4. te = [caller |-> v1, callee |-> v2, callerDisplay |-> v3, calleeDisplay |-> v4,
              site |-> v5, tuPath |-> v6, scopeSet |-> w1, guardSet |-> w2, raiiSet |-> w3,
              attr |-> se.attr, live |-> se.live]
    BY <1>3, <2>3
  <2> QED BY <2>2, <2>4
<1> HIDE DEF Remap
<1> QED BY <1>2, <1>4 DEF Remapped

(* What the wider tables u, sc, gu and ra give for those of a shard.         *)
Covers(u, sc, gu, ra, shard) ==
  /\ \A i \in DOMAIN shard.strings : IdOf(u, shard.strings[i]) \in DOMAIN u
                                     /\ u[IdOf(u, shard.strings[i])] = shard.strings[i]
  /\ \A i \in DOMAIN shard.scopeSets : IdOf(sc, shard.scopeSets[i]) \in DOMAIN sc
                                       /\ sc[IdOf(sc, shard.scopeSets[i])] = shard.scopeSets[i]
  /\ \A i \in DOMAIN shard.guardSets : IdOf(gu, shard.guardSets[i]) \in DOMAIN gu
                                       /\ gu[IdOf(gu, shard.guardSets[i])] = shard.guardSets[i]
  /\ \A i \in DOMAIN shard.raiiSets :
       LET r == RemapLocals(u, shard, shard.raiiSets[i])
       IN IdOf(ra, r) \in DOMAIN ra /\ ra[IdOf(ra, r)] = r

LEMMA TranslatedOk ==
  ASSUME NEW hx, NEW shard, Tables(shard), IsTable(hx.strings),
         Covers(hx.strings, hx.scopeSets, hx.guardSets, hx.raiiSets, shard),
         NEW se, Storable(shard, se),
         NEW te, te = Translated(hx.strings, hx.scopeSets, hx.guardSets, hx.raiiSets, shard, se)
  PROVE  Storable(hx, te) /\ View(hx, te) = View(shard, se)
<1> DEFINE u == hx.strings
           s == shard.raiiSets[se.raiiSet]
           r == RemapLocals(u, shard, s)
<1>0. Entry(shard, se) /\ se.live /\ Shows(shard, se)
  BY DEF Storable
<1>1. /\ te = [caller |-> te.caller, callee |-> te.callee, callerDisplay |-> te.callerDisplay,
                  calleeDisplay |-> te.calleeDisplay, site |-> te.site, tuPath |-> te.tuPath,
                  scopeSet |-> te.scopeSet, guardSet |-> te.guardSet, raiiSet |-> te.raiiSet,
                  attr |-> te.attr, live |-> te.live]
      /\ te.caller = IdOf(u, shard.strings[se.caller])
      /\ te.callee = IdOf(u, shard.strings[se.callee])
      /\ te.callerDisplay = IdOf(u, shard.strings[se.callerDisplay])
      /\ te.calleeDisplay = IdOf(u, shard.strings[se.calleeDisplay])
      /\ te.site = IdOf(u, shard.strings[se.site])
      /\ te.tuPath = IF se.tuPath = NoString THEN NoString ELSE IdOf(u, shard.strings[se.tuPath])
      /\ te.scopeSet = IdOf(hx.scopeSets, shard.scopeSets[se.scopeSet])
      /\ te.guardSet = IdOf(hx.guardSets, shard.guardSets[se.guardSet])
      /\ te.raiiSet = IdOf(hx.raiiSets, r)
      /\ te.attr = se.attr /\ te.live = se.live
  <2>1. Remapped(u, hx.scopeSets, hx.guardSets, hx.raiiSets, shard, se, te)
    BY <1>0, TranslatedFields
  <2> QED BY <2>1 DEF Remapped
<1>2. /\ te.caller \in DOMAIN u /\ u[te.caller] = shard.strings[se.caller]
      /\ te.callee \in DOMAIN u /\ u[te.callee] = shard.strings[se.callee]
      /\ te.callerDisplay \in DOMAIN u /\ u[te.callerDisplay] = shard.strings[se.callerDisplay]
      /\ te.calleeDisplay \in DOMAIN u /\ u[te.calleeDisplay] = shard.strings[se.calleeDisplay]
      /\ te.site \in DOMAIN u /\ u[te.site] = shard.strings[se.site]
  BY <1>0, <1>1 DEF Entry, Covers
<1>3. /\ se.tuPath = NoString => te.tuPath = NoString
      /\ se.tuPath # NoString => /\ te.tuPath \in DOMAIN u /\ te.tuPath # NoString
                                 /\ u[te.tuPath] = shard.strings[se.tuPath]
  <2>1. NoString \notin DOMAIN u
    BY TableDomain DEF NoString
  <2> QED BY <1>0, <1>1, <2>1 DEF Entry, Covers
<1>4. /\ te.scopeSet \in DOMAIN hx.scopeSets /\ hx.scopeSets[te.scopeSet] = shard.scopeSets[se.scopeSet]
      /\ te.guardSet \in DOMAIN hx.guardSets /\ hx.guardSets[te.guardSet] = shard.guardSets[se.guardSet]
      /\ te.raiiSet \in DOMAIN hx.raiiSets /\ hx.raiiSets[te.raiiSet] = r
  BY <1>0, <1>1 DEF Entry, Covers
<1>5. [n \in DOMAIN r |-> u[r[n]]] = [n \in DOMAIN s |-> shard.strings[s[n]]]
  <2>1. s \in Seq(DOMAIN shard.strings) /\ IsTable(shard.strings)
    BY <1>0 DEF Entry, Tables
  <2>2. \A i \in DOMAIN shard.strings : IdOf(u, shard.strings[i]) \in DOMAIN u
                                     /\ u[IdOf(u, shard.strings[i])] = shard.strings[i]
    BY DEF Covers
  <2> HIDE DEF s, u
  <2> QED BY <2>1, <2>2, RemapFacts
<1> HIDE DEF r, s
<1>6. View(hx, te) = View(shard, se)
  <2>1. (IF te.tuPath = NoString THEN NoTU ELSE hx.strings[te.tuPath])
          = (IF se.tuPath = NoString THEN NoTU ELSE shard.strings[se.tuPath])
    BY <1>3
  <2> QED BY <1>1, <1>2, <1>4, <1>5, <2>1 DEF View, s
<1>7. Shows(hx, te)
  BY <1>0, <1>3, <1>6 DEF Shows
<1>8. Entry(hx, te)
  <2>1. te.live \in BOOLEAN
    BY <1>0, <1>1 DEF Entry
  <2> QED BY <1>1, <1>2, <1>3, <1>4, <2>1 DEF Entry
<1> QED BY <1>0, <1>1, <1>6, <1>7, <1>8 DEF Storable

LEMMA AbsorbOk ==
  ASSUME NEW ix, Good(ix), Located(ix), NEW shard, Good(shard), NEW jx, jx = Absorb(ix, shard)
  PROVE  /\ Good(jx) /\ Located(jx)
         /\ AllContexts(jx) = AllContexts(ix) \o AllContexts(shard)
<1> DEFINE u == InternAll(ix.strings, shard.strings)
           sc == InternAll(ix.scopeSets, shard.scopeSets)
           gu == InternAll(ix.guardSets, shard.guardSets)
           ra == InternAll(ix.raiiSets, [n \in DOMAIN shard.raiiSets |->
                                           RemapLocals(u, shard, shard.raiiSets[n])])
           hx == [ix EXCEPT !.strings = u, !.scopeSets = sc, !.guardSets = gu, !.raiiSets = ra]
           live == LiveStored(shard)
           list == [n \in DOMAIN live |-> Translated(u, sc, gu, ra, shard, live[n])]
<1>1. jx = InsertAll(hx, list, TRUE)
  BY DEF Absorb, Translated
<1>2. /\ Tables(ix) /\ Tables(shard) /\ Stored(shard) /\ DOMAIN ix = IndexFields
  BY DEF Good
<1>3. /\ IsTable(ix.strings) /\ IsTable(shard.strings)
      /\ IsTable(ix.scopeSets) /\ IsTable(shard.scopeSets)
      /\ IsTable(ix.guardSets) /\ IsTable(shard.guardSets)
  BY <1>2 DEF Tables
<1>4. /\ IsTable(u) /\ Extends(u, ix.strings)
      /\ \A i \in DOMAIN shard.strings : IdOf(u, shard.strings[i]) \in DOMAIN u
                                         /\ u[IdOf(u, shard.strings[i])] = shard.strings[i]
  BY <1>3, InternTable
<1>5. /\ IsTable(sc) /\ Extends(sc, ix.scopeSets)
      /\ \A i \in DOMAIN shard.scopeSets : IdOf(sc, shard.scopeSets[i]) \in DOMAIN sc
                                         /\ sc[IdOf(sc, shard.scopeSets[i])] = shard.scopeSets[i]
  BY <1>3, InternTable
<1>6. /\ IsTable(gu) /\ Extends(gu, ix.guardSets)
      /\ \A i \in DOMAIN shard.guardSets : IdOf(gu, shard.guardSets[i]) \in DOMAIN gu
                                         /\ gu[IdOf(gu, shard.guardSets[i])] = shard.guardSets[i]
  BY <1>3, InternTable
<1> HIDE DEF u, sc, gu
<1>7. /\ IsTable(ra) /\ Extends(ra, ix.raiiSets)
      /\ \A n \in DOMAIN ra : ra[n] \in Seq(DOMAIN u)
      /\ \A n \in DOMAIN shard.raiiSets :
              LET r == RemapLocals(u, shard, shard.raiiSets[n])
              IN IdOf(ra, r) \in DOMAIN ra /\ ra[IdOf(ra, r)] = r
  <2>1. PICK z : z = ra
    OBVIOUS
  <2>2. IsTable(z) /\ Extends(z, ix.raiiSets)
    BY <1>2, <1>4, <2>1, InternLocals
  <2>3. \A n \in DOMAIN z : z[n] \in Seq(DOMAIN u)
    BY <1>2, <1>4, <2>1, InternLocals
  <2>4. \A n \in DOMAIN shard.raiiSets :
              LET r == RemapLocals(u, shard, shard.raiiSets[n])
              IN IdOf(z, r) \in DOMAIN z /\ z[IdOf(z, r)] = r
    BY <1>2, <1>4, <2>1, InternLocals
  <2> QED BY <2>1, <2>2, <2>3, <2>4
<1> HIDE DEF ra
<1>8. /\ DOMAIN hx = IndexFields /\ hx.strings = u /\ hx.scopeSets = sc /\ hx.guardSets = gu
      /\ hx.raiiSets = ra
      /\ hx.contexts = ix.contexts /\ hx.live = ix.live
      /\ hx.byCallee = ix.byCallee /\ hx.byCaller = ix.byCaller /\ hx.bySite = ix.bySite
      /\ hx.byCalleeDisplay = ix.byCalleeDisplay /\ hx.byCallerDisplay = ix.byCallerDisplay
      /\ hx.byTu = ix.byTu /\ hx.noProvenance = ix.noProvenance
  BY <1>2 DEF IndexFields
<1> HIDE DEF hx
<1>9. Tables(hx)
  <2>1. \A n \in DOMAIN ra : ra[n] \in Seq(DOMAIN u)
    BY <1>7
  <2>2. /\ EmptySet \in DOMAIN sc /\ sc[EmptySet] = << >>
        /\ EmptySet \in DOMAIN gu /\ gu[EmptySet] = << >>
        /\ EmptySet \in DOMAIN ra /\ ra[EmptySet] = << >>
    BY <1>2, <1>5, <1>6, <1>7 DEF Tables, Extends
  <2> QED BY <1>4, <1>5, <1>6, <1>7, <1>8, <2>1, <2>2 DEF Tables
<1>10. Widened(ix, hx)
  BY <1>4, <1>5, <1>6, <1>7, <1>8, <1>9 DEF Widened
<1>11. Good(hx) /\ Located(hx) /\ AllContexts(hx) = AllContexts(ix)
  BY <1>10, WidenOk
<1>12. /\ Len(live) \in Nat /\ DOMAIN live = 1..Len(live)
       /\ \A n \in 1..Len(live) : Storable(shard, live[n])
       /\ AllContexts(shard) = [n \in 1..Len(live) |-> View(shard, live[n])]
  BY <1>2, LiveStoredFacts
<1> HIDE DEF live
<1>13. Covers(hx.strings, hx.scopeSets, hx.guardSets, hx.raiiSets, shard)
  BY <1>4, <1>5, <1>6, <1>7, <1>8 DEF Covers
<1>14. Len(list) = Len(live) /\ \A n \in 1..Len(live) : list[n] = Translated(u, sc, gu, ra, shard, live[n])
  BY <1>12
<1> HIDE DEF list
<1>15. \A n \in 1..Len(live) : Storable(hx, list[n]) /\ View(hx, list[n]) = View(shard, live[n])
  BY <1>2, <1>4, <1>8, <1>12, <1>13, <1>14, TranslatedOk
<1>16. PICK trackTu \in BOOLEAN : trackTu = TRUE
  OBVIOUS
<1>17. AllInserted(hx, jx, list, trackTu)
  <2>1. jx = InsertAll(hx, list, trackTu)
    BY <1>1, <1>16 DEF hx, list, live, ra, u, sc, gu
  <2>2. Len(list) \in Nat /\ \A n \in 1..Len(list) : Storable(hx, list[n])
    BY <1>12, <1>14, <1>15
  <2> QED BY <1>11, <2>1, <2>2, InsertAllOk
<1>18. [m \in 1..Len(list) |-> View(hx, list[m])] = AllContexts(shard)
  BY <1>12, <1>14, <1>15
<1> QED BY <1>11, <1>16, <1>17, <1>18 DEF AllInserted

-----------------------------------------------------------------------------
(* removeTUs.                                                                *)

\* Lists scrubbed of the dead.
LEMMA ScrubListed ==
  ASSUME NEW n \in Nat, NEW A, NEW B, NEW dead,
         \A m \in 1..n : m \in B <=> m \in A /\ m \notin dead
  PROVE  Scrub(InOrder(A, n), dead) = InOrder(B, n)
<1> DEFINE s == InOrder(A, n)
           J == 1..n \ dead
           K == Where(s, J)
           M == {k \in DOMAIN s : s[k] \notin dead}
<1>1. Scrub(s, dead) = Listed(s, M)
  BY DEF Scrub, Only
<1>2. \A k \in DOMAIN s : s[k] \in 1..n
  BY InOrderType
<1>3. K = M
  BY <1>2 DEF Where
<1>4. Listed(s, K) = InOrder(A \cap J, n)
  BY InOrderOnly
<1>5. InOrder(A \cap J, n) = InOrder(B, n)
  <2>1. \A m \in 1..n : m \in A \cap J <=> m \in B
    OBVIOUS
  <2> HIDE DEF J
  <2> QED BY <2>1, InOrderSame
<1> HIDE DEF s, K, M, J
<1> QED BY <1>1, <1>3, <1>4, <1>5 DEF s

LEMMA ScrubPlaces ==
  ASSUME NEW P, NEW s \in Seq(P), NEW dead
  PROVE  /\ Scrub(s, dead) \in Seq(P)
         /\ \A i : In(i, Scrub(s, dead)) <=> In(i, s) /\ i \notin dead
<1> DEFINE M == {k \in DOMAIN s : s[k] \notin dead}
           r == Listed(s, M)
<1>1. Scrub(s, dead) = r
  BY DEF Scrub, Only
<1>2. r \in Seq(P)
  BY ListedType
<1>3. \A i : In(i, r) <=> \E m \in DOMAIN s : m \in M /\ s[m] = i
  <2> HIDE DEF M
  <2>1. ASSUME NEW i
        PROVE  In(i, r) <=> \E m \in DOMAIN s : m \in M /\ s[m] = i
    BY ListedPlaces
  <2> QED BY <2>1
<1> HIDE DEF r
<1>4. \A i : (\E m \in DOMAIN s : m \in M /\ s[m] = i) <=> (\E m \in DOMAIN s : s[m] = i) /\ i \notin dead
  OBVIOUS
<1> QED BY <1>1, <1>2, <1>3, <1>4 DEF In

\* What goes with the TUs of S: their contexts, and those without a TU whose site
\* lies in one of them.
Gone(S) == {x \in ShownAll : x.tu \in S \/ (x.tu = NoTU /\ siteFile[x.site] \in S)}

LEMMA OfTuIn ==
  ASSUME NEW s, NEW P, NEW c, NEW k, OfTu(s, P, c, k), NEW i
  PROVE  /\ Contains(s, i) <=> In(i, s)
         /\ Contains(s, i) => i \in P /\ c[i].tuPath = k
<1>1. s \in Seq(P) /\ \A m \in DOMAIN s : c[s[m]].tuPath = k
  BY DEF OfTu
<1>2. DOMAIN s = 1..Len(s) /\ \A m \in DOMAIN s : s[m] \in P
  BY <1>1
<1> QED BY <1>1, <1>2 DEF Contains, In

LEMMA ViewFields ==
  ASSUME NEW ix, NEW se
  PROVE  /\ View(ix, se).site = ix.strings[se.site]
         /\ View(ix, se).caller = ix.strings[se.caller]
         /\ View(ix, se).callerName = ix.strings[se.callerDisplay]
         /\ View(ix, se).callee = ix.strings[se.callee]
         /\ View(ix, se).calleeName = ix.strings[se.calleeDisplay]
         /\ View(ix, se).scopes = ix.scopeSets[se.scopeSet]
         /\ se.tuPath = NoString => View(ix, se).tu = NoTU
         /\ se.tuPath # NoString => View(ix, se).tu = ix.strings[se.tuPath]
BY DEF View

LEMMA DoomedAre ==
  ASSUME NEW ix, Good(ix), Located(ix), NEW S, S \subseteq TUs
  PROVE  Doomed(ix, S) = {i \in LiveContexts(ix) : Views(ix)[i] \in Gone(S)}
<1> DEFINE c == ix.contexts
           P == DOMAIN c
           str == ix.strings
           q == ix.noProvenance
<1>1. /\ \A k \in DOMAIN ix.byTu : k \in DOMAIN str /\ k # NoString /\ OfTu(ix.byTu[k], P, c, k)
      /\ OfTu(q, P, c, NoString)
      /\ \A i \in LiveContexts(ix) :
           IF c[i].tuPath = NoString THEN In(i, q)
           ELSE c[i].tuPath \in DOMAIN ix.byTu /\ In(i, ix.byTu[c[i].tuPath])
  BY DEF Located
<1>2. IsTable(str) /\ Stored(ix)
  BY DEF Good, Tables
<1>3. \A i \in P : Views(ix)[i] = View(ix, c[i])
  BY DEF Views
<1>4. ASSUME NEW i \in LiveContexts(ix), NEW se, se = c[i], NEW x, x = Views(ix)[i]
      PROVE  /\ (\E t \in S : Contains(str, t) /\ Contains(At(ix.byTu, IdOf(str, t)), i))
                  \/ (Contains(q, i) /\ siteFile[str[se.site]] \in S)
                <=> x \in Gone(S)
  <2>1. i \in P /\ x = View(ix, se) /\ Entry(ix, se) /\ Shows(ix, se)
    BY <1>2, <1>3, <1>4 DEF Stored, LiveContexts
  <2>2. /\ x \in ShownAll
        /\ x.site = str[se.site]
        /\ se.tuPath = NoString => x.tu = NoTU
        /\ se.tuPath # NoString => x.tu = str[se.tuPath] /\ x.tu \in TUs
    BY <2>1, ViewFields DEF Shows
  <2>3. Contains(q, i) => se.tuPath = NoString
    BY <1>1, <1>4, OfTuIn
  <2>4. ASSUME NEW t \in S, Contains(str, t), Contains(At(ix.byTu, IdOf(str, t)), i)
        PROVE  se.tuPath # NoString /\ str[se.tuPath] = t
    <3> DEFINE k == IdOf(str, t)
    <3>1. k \in DOMAIN str /\ str[k] = t
      BY <1>2, <2>4, ContainsIn, IdFacts
    <3>2. CASE k \in DOMAIN ix.byTu
      <4>1. At(ix.byTu, k) = ix.byTu[k]
        BY <3>2 DEF At
      <4>2. OfTu(ix.byTu[k], P, c, k) /\ Contains(ix.byTu[k], i) /\ k # NoString
        BY <1>1, <2>4, <3>2, <4>1
      <4>3. c[i].tuPath = k
        BY <4>2, OfTuIn
      <4> QED BY <1>4, <3>1, <4>2, <4>3
    <3>3. CASE k \notin DOMAIN ix.byTu
      <4>1. At(ix.byTu, k) = << >>
        BY <3>3 DEF At
      <4>2. ~ Contains(<< >>, i)
        BY DEF Contains
      <4> QED BY <2>4, <4>1, <4>2
    <3> QED BY <3>2, <3>3
  <2>5. CASE se.tuPath = NoString
    <3>1. Contains(q, i)
      <4>1. In(i, q)
        BY <1>1, <1>4, <2>5
      <4> QED BY <1>1, <4>1, OfTuIn
    <3>2. x.tu = NoTU /\ NoTU \notin S
      BY <2>2, <2>5, TUsAssumption
    <3>3. ~ \E t \in S : Contains(str, t) /\ Contains(At(ix.byTu, IdOf(str, t)), i)
      BY <2>4, <2>5
    <3>4. x \in Gone(S) <=> siteFile[str[se.site]] \in S
      BY <2>2, <3>2 DEF Gone
    <3> QED BY <3>1, <3>3, <3>4
  <2>6. CASE se.tuPath # NoString
    <3> DEFINE k == se.tuPath
    <3>1. k \in DOMAIN ix.byTu /\ In(i, ix.byTu[k]) /\ k \in DOMAIN str /\ OfTu(ix.byTu[k], P, c, k)
      BY <1>1, <1>4, <2>6
    <3>2. At(ix.byTu, k) = ix.byTu[k]
      BY <3>1 DEF At
    <3>3. Contains(str, str[k]) /\ IdOf(str, str[k]) = k
      <4>1. In(str[k], str)
        BY <3>1 DEF In
      <4> QED BY <1>2, <3>1, <4>1, ContainsIn, IdBack
    <3>4. Contains(ix.byTu[k], i)
      BY <3>1, OfTuIn
    <3>5. (\E t \in S : Contains(str, t) /\ Contains(At(ix.byTu, IdOf(str, t)), i)) <=> str[k] \in S
      BY <2>4, <3>2, <3>3, <3>4
    <3>6. x.tu = str[k] /\ x.tu # NoTU
      BY <2>2, <2>6, TUsAssumption
    <3>7. x \in Gone(S) <=> str[k] \in S
      BY <2>2, <3>6 DEF Gone
    <3> QED BY <2>3, <2>6, <3>5, <3>7
  <2> QED BY <2>5, <2>6
<1>5. \A i \in LiveContexts(ix) :
        (\/ \E t \in S : Contains(str, t) /\ Contains(At(ix.byTu, IdOf(str, t)), i)
         \/ Contains(q, i) /\ siteFile[str[c[i].site]] \in S) <=> Views(ix)[i] \in Gone(S)
  BY <1>4
<1> QED BY <1>5 DEF Doomed

LEMMA Buried ==
  ASSUME NEW ix, NEW se, Entry(ix, se), NEW b \in BOOLEAN, NEW te, te = [se EXCEPT !.live = @ /\ b]
  PROVE  /\ te.callee = se.callee /\ te.caller = se.caller /\ te.site = se.site
         /\ te.calleeDisplay = se.calleeDisplay /\ te.callerDisplay = se.callerDisplay
         /\ te.tuPath = se.tuPath
         /\ te.live = (se.live /\ b)
         /\ Entry(ix, te) /\ View(ix, te) = View(ix, se)
         /\ Shows(ix, se) => Shows(ix, te)
<1>1. PICK a : a = (se.live /\ b)
  OBVIOUS
<1>2. a \in BOOLEAN
  BY <1>1 DEF Entry
<1>3. te = [se EXCEPT !.live = a]
  BY <1>1
<1>4. te = [caller |-> se.caller, callee |-> se.callee, callerDisplay |-> se.callerDisplay,
            calleeDisplay |-> se.calleeDisplay, site |-> se.site, tuPath |-> se.tuPath,
            scopeSet |-> se.scopeSet, guardSet |-> se.guardSet, raiiSet |-> se.raiiSet,
            attr |-> se.attr, live |-> a]
  BY <1>3 DEF Entry
<1>5. /\ te.callee = se.callee /\ te.caller = se.caller /\ te.site = se.site
      /\ te.calleeDisplay = se.calleeDisplay /\ te.callerDisplay = se.callerDisplay
      /\ te.tuPath = se.tuPath /\ te.scopeSet = se.scopeSet /\ te.guardSet = se.guardSet
      /\ te.raiiSet = se.raiiSet /\ te.attr = se.attr
      /\ te.live = a
  BY <1>4
<1>6. te = [caller |-> te.caller, callee |-> te.callee, callerDisplay |-> te.callerDisplay,
            calleeDisplay |-> te.calleeDisplay, site |-> te.site, tuPath |-> te.tuPath,
            scopeSet |-> te.scopeSet, guardSet |-> te.guardSet, raiiSet |-> te.raiiSet,
            attr |-> te.attr, live |-> te.live]
  BY <1>4, <1>5
<1>7. Entry(ix, te)
  BY <1>2, <1>5, <1>6 DEF Entry
<1>8. View(ix, te) = View(ix, se)
  BY <1>5 DEF View
<1>9. Shows(ix, se) => Shows(ix, te)
  BY <1>5, <1>8 DEF Shows
<1> QED BY <1>1, <1>5, <1>7, <1>8, <1>9

\* One list of one map, scrubbed.
LEMMA ScrubMapAt ==
  ASSUME NEW map, NEW dead, NEW k
  PROVE  At(ScrubMap(map, dead), k) = Scrub(At(map, k), dead)
<1>1. CASE k \in DOMAIN map
  BY <1>1 DEF At, ScrubMap
<1>2. CASE k \notin DOMAIN map
  <2>1. At(map, k) = << >> /\ At(ScrubMap(map, dead), k) = << >>
    BY <1>2 DEF At, ScrubMap
  <2>2. Scrub(<< >>, dead) = << >>
    BY ListedEmpty DEF Scrub, Only
  <2> QED BY <2>1, <2>2
<1> QED BY <1>1, <1>2

\* One list of bySite, whose key goes with the last of its contexts.
LEMMA ScrubSitesAt ==
  ASSUME NEW map, NEW dead, NEW k
  PROVE  At([x \in {y \in DOMAIN map : Scrub(map[y], dead) # <<>>} |-> Scrub(map[x], dead)], k)
           = Scrub(At(map, k), dead)
<1>1. CASE k \in DOMAIN map
  BY <1>1 DEF At
<1>2. CASE k \notin DOMAIN map
  <2>1. At(map, k) = << >>
    BY <1>2 DEF At
  <2>2. Scrub(<< >>, dead) = << >>
    BY ListedEmpty DEF Scrub, Only
  <2> QED BY <1>2, <2>1, <2>2 DEF At
<1> QED BY <1>1, <1>2

(* jx is ix after the removal of the TUs of S, whose contexts are dead.      *)
Removed(ix, jx, S, dead) ==
  /\ DOMAIN jx = IndexFields /\ SameTables(ix, jx)
  /\ DOMAIN jx.contexts = DOMAIN ix.contexts
  /\ jx.contexts = [i \in DOMAIN ix.contexts |-> [ix.contexts[i] EXCEPT !.live = @ /\ i \notin dead]]
  /\ \A k : /\ At(jx.byCallee, k) = Scrub(At(ix.byCallee, k), dead)
            /\ At(jx.byCaller, k) = Scrub(At(ix.byCaller, k), dead)
            /\ At(jx.byCalleeDisplay, k) = Scrub(At(ix.byCalleeDisplay, k), dead)
            /\ At(jx.byCallerDisplay, k) = Scrub(At(ix.byCallerDisplay, k), dead)
            /\ At(jx.bySite, k) = Scrub(At(ix.bySite, k), dead)
  /\ DOMAIN jx.byCallee = DOMAIN ix.byCallee /\ DOMAIN jx.byCaller = DOMAIN ix.byCaller
  /\ \A id : id \in DOMAIN jx.byTu <=> id \in DOMAIN ix.byTu /\ ix.strings[id] \notin S
  /\ \A id \in DOMAIN jx.byTu : jx.byTu[id] = ix.byTu[id]
  /\ jx.noProvenance = Scrub(ix.noProvenance, dead)
  /\ jx.live = ix.live - Cardinality(dead)

LEMMA RemoveFields ==
  ASSUME NEW ix, DOMAIN ix = IndexFields, NEW S, NEW dead, dead = Doomed(ix, S), dead # {},
         NEW jx, jx = RemoveTUs(ix, S)
  PROVE  Removed(ix, jx, S, dead)
<1> DEFINE tuIds == {id \in DOMAIN ix.byTu : ix.strings[id] \notin S}
           sites == {k \in DOMAIN ix.bySite : Scrub(ix.bySite[k], dead) # <<>>}
           cc == [i \in DOMAIN ix.contexts |-> [ix.contexts[i] EXCEPT !.live = @ /\ i \notin dead]]
           ss == [k \in sites |-> Scrub(ix.bySite[k], dead)]
           tt == [id \in tuIds |-> ix.byTu[id]]
           m1 == ScrubMap(ix.byCallee, dead)
           m2 == ScrubMap(ix.byCaller, dead)
           m3 == ScrubMap(ix.byCalleeDisplay, dead)
           m4 == ScrubMap(ix.byCallerDisplay, dead)
           np == Scrub(ix.noProvenance, dead)
           nl == ix.live - Cardinality(dead)
<1>1. jx = [ix EXCEPT !.contexts = cc, !.byCallee = m1, !.byCaller = m2,
                      !.byCalleeDisplay = m3, !.byCallerDisplay = m4, !.bySite = ss, !.byTu = tt,
                      !.noProvenance = np, !.live = nl]
  BY DEF RemoveTUs
<1> HIDE DEF sites, tuIds
<1>2. /\ DOMAIN jx = IndexFields /\ SameTables(ix, jx)
      /\ jx.contexts = [i \in DOMAIN ix.contexts |-> [ix.contexts[i] EXCEPT !.live = @ /\ i \notin dead]]
      /\ jx.byCallee = ScrubMap(ix.byCallee, dead)
      /\ jx.byCaller = ScrubMap(ix.byCaller, dead)
      /\ jx.byCalleeDisplay = ScrubMap(ix.byCalleeDisplay, dead)
      /\ jx.byCallerDisplay = ScrubMap(ix.byCallerDisplay, dead)
      /\ jx.bySite = [k \in sites |-> Scrub(ix.bySite[k], dead)]
      /\ jx.byTu = [id \in tuIds |-> ix.byTu[id]]
      /\ jx.noProvenance = Scrub(ix.noProvenance, dead)
      /\ jx.live = ix.live - Cardinality(dead)
  <2> HIDE DEF cc, ss, tt, m1, m2, m3, m4, np, nl
  <2>2. /\ DOMAIN jx = IndexFields /\ SameTables(ix, jx)
        /\ jx.contexts = cc /\ jx.byCallee = m1 /\ jx.byCaller = m2
        /\ jx.byCalleeDisplay = m3 /\ jx.byCallerDisplay = m4 /\ jx.bySite = ss /\ jx.byTu = tt
        /\ jx.noProvenance = np /\ jx.live = nl
    BY <1>1 DEF IndexFields, SameTables
  <2> QED BY <2>2 DEF cc, ss, tt, m1, m2, m3, m4, np, nl
<1> HIDE DEF cc, ss, tt, m1, m2, m3, m4, np, nl
<1>3. ASSUME NEW k
      PROVE  /\ At(jx.byCallee, k) = Scrub(At(ix.byCallee, k), dead)
             /\ At(jx.byCaller, k) = Scrub(At(ix.byCaller, k), dead)
             /\ At(jx.byCalleeDisplay, k) = Scrub(At(ix.byCalleeDisplay, k), dead)
             /\ At(jx.byCallerDisplay, k) = Scrub(At(ix.byCallerDisplay, k), dead)
             /\ At(jx.bySite, k) = Scrub(At(ix.bySite, k), dead)
  <2>1. At(jx.bySite, k) = Scrub(At(ix.bySite, k), dead)
    BY <1>2, ScrubSitesAt DEF sites
  <2> QED BY <1>2, <2>1, ScrubMapAt
<1>4. /\ DOMAIN jx.byCallee = DOMAIN ix.byCallee /\ DOMAIN jx.byCaller = DOMAIN ix.byCaller
      /\ DOMAIN jx.contexts = DOMAIN ix.contexts
  BY <1>2 DEF ScrubMap
<1>5. /\ \A id : id \in DOMAIN jx.byTu <=> id \in DOMAIN ix.byTu /\ ix.strings[id] \notin S
      /\ \A id \in DOMAIN jx.byTu : jx.byTu[id] = ix.byTu[id]
  BY <1>2 DEF tuIds
<1> QED BY <1>2, <1>3, <1>4, <1>5 DEF Removed

Left(ix, jx, dead) ==
  /\ Stored(jx) /\ Tables(jx)
  /\ LiveContexts(jx) = LiveContexts(ix) \ dead
  /\ Views(jx) = Views(ix)
  /\ Len(jx.contexts) = Len(ix.contexts)
  /\ \A i \in DOMAIN ix.contexts : /\ jx.contexts[i].callee = ix.contexts[i].callee
                                   /\ jx.contexts[i].caller = ix.contexts[i].caller
                                   /\ jx.contexts[i].site = ix.contexts[i].site
                                   /\ jx.contexts[i].calleeDisplay = ix.contexts[i].calleeDisplay
                                   /\ jx.contexts[i].callerDisplay = ix.contexts[i].callerDisplay
                                   /\ jx.contexts[i].tuPath = ix.contexts[i].tuPath

LEMMA RemovedStored ==
  ASSUME NEW ix, Good(ix), NEW S, NEW dead, dead \subseteq LiveContexts(ix),
         NEW jx, Removed(ix, jx, S, dead)
  PROVE  Left(ix, jx, dead)
<1> DEFINE c == ix.contexts
           d == jx.contexts
           n == Len(c)
           P == DOMAIN c
           L == LiveContexts(ix)
<1>1. n \in Nat /\ P = 1..n /\ \A i \in P : Entry(ix, c[i]) /\ Shows(ix, c[i])
  BY DEF Good, Stored
<1>2. DOMAIN d = P /\ SameTables(ix, jx) /\ d = [i \in P |-> [c[i] EXCEPT !.live = @ /\ i \notin dead]]
  BY DEF Removed
<1>3. ASSUME NEW i \in P
      PROVE  /\ d[i].callee = c[i].callee /\ d[i].caller = c[i].caller /\ d[i].site = c[i].site
             /\ d[i].calleeDisplay = c[i].calleeDisplay /\ d[i].callerDisplay = c[i].callerDisplay
             /\ d[i].tuPath = c[i].tuPath
             /\ d[i].live = (c[i].live /\ i \notin dead)
             /\ Entry(jx, d[i]) /\ View(jx, d[i]) = View(ix, c[i]) /\ Shows(jx, d[i])
  <2>1. PICK b \in BOOLEAN : b = (i \notin dead)
    OBVIOUS
  <2> DEFINE se == c[i]
             te == d[i]
  <2>2. te = [se EXCEPT !.live = @ /\ b]
    BY <1>2, <2>1
  <2>3. Entry(ix, se) /\ Shows(ix, se)
    BY <1>1
  <2> HIDE DEF se, te
  <2>4. /\ te.callee = se.callee /\ te.caller = se.caller /\ te.site = se.site
        /\ te.calleeDisplay = se.calleeDisplay /\ te.callerDisplay = se.callerDisplay
        /\ te.tuPath = se.tuPath
        /\ te.live = (se.live /\ b)
        /\ Entry(ix, te) /\ View(ix, te) = View(ix, se)
        /\ Shows(ix, se) => Shows(ix, te)
    BY <2>2, <2>3, Buried
  <2>5. Entry(jx, te) /\ View(jx, te) = View(ix, te) /\ Shows(jx, te)
    BY <1>2, <2>3, <2>4, SameMeaning
  <2> QED BY <2>1, <2>4, <2>5 DEF se, te
<1>4. LiveContexts(jx) = L \ dead
  <2>1. LiveContexts(jx) = {i \in P : d[i].live} /\ L = {i \in P : c[i].live}
    BY <1>2 DEF LiveContexts
  <2>2. \A i \in P : d[i].live <=> c[i].live /\ i \notin dead
    BY <1>3
  <2> HIDE DEF P, L, c, d
  <2> QED BY <2>1, <2>2
<1>5. Len(d) = n /\ d = [i \in 1..n |-> d[i]]
  BY <1>1, <1>2
<1>6. jx.live = Cardinality(L \ dead)
  <2>1. IsFiniteSet(L)
    <3>1. L \subseteq 1..n
      BY <1>1 DEF LiveContexts
    <3>2. IsFiniteSet(1..n)
      BY <1>1, FS_Interval
    <3> QED BY <3>1, <3>2, FS_Subset
  <2>2. ix.live = Cardinality(L) /\ jx.live = ix.live - Cardinality(dead)
    BY DEF Good, Stored, Removed
  <2> HIDE DEF L
  <2>3. L \cap dead = dead
    BY DEF L
  <2>4. Cardinality(L \ dead) = Cardinality(L) - Cardinality(L \cap dead)
    BY <2>1, FS_Difference
  <2> QED BY <2>2, <2>3, <2>4
<1>7. Stored(jx)
  BY <1>1, <1>2, <1>3, <1>4, <1>5, <1>6 DEF Stored
<1>8. Tables(jx)
  BY <1>2 DEF Good, Tables, SameTables
<1>9. Views(jx) = Views(ix)
  BY <1>2, <1>3 DEF Views
<1> QED BY <1>3, <1>4, <1>5, <1>7, <1>8, <1>9 DEF Left

LEMMA RemovedLists ==
  ASSUME NEW ix, Good(ix), NEW S, NEW dead, dead \subseteq LiveContexts(ix),
         NEW jx, Removed(ix, jx, S, dead)
  PROVE  Lists(jx)
<1>0. PICK n : n = Len(ix.contexts)
  OBVIOUS
<1>1. n \in Nat /\ DOMAIN ix.contexts = 1..n
  BY <1>0 DEF Good, Stored
<1>2. /\ LiveContexts(jx) = LiveContexts(ix) \ dead
      /\ Len(jx.contexts) = n
      /\ \A i \in 1..n : /\ jx.contexts[i].callee = ix.contexts[i].callee
                         /\ jx.contexts[i].caller = ix.contexts[i].caller
                         /\ jx.contexts[i].site = ix.contexts[i].site
                         /\ jx.contexts[i].calleeDisplay = ix.contexts[i].calleeDisplay
                         /\ jx.contexts[i].callerDisplay = ix.contexts[i].callerDisplay
  <2>1. Left(ix, jx, dead)
    BY RemovedStored
  <2> QED BY <1>0, <1>1, <2>1 DEF Left
<1>3. /\ \A k : At(ix.byCallee, k) = InOrder(ByCallee(ix, k), n)
      /\ \A k : At(ix.byCaller, k) = InOrder(ByCaller(ix, k), n)
      /\ \A k : At(ix.bySite, k) = InOrder(BySite(ix, k), n)
      /\ \A k : At(ix.byCalleeDisplay, k) = InOrder(ByCalleeDisplay(ix, k), n)
      /\ \A k : At(ix.byCallerDisplay, k) = InOrder(ByCallerDisplay(ix, k), n)
  BY <1>0 DEF Good, Lists, CalleesListed, CallersListed, SitesListed, CalleeNamesListed, CallerNamesListed
<1>4. \A k : /\ At(jx.byCallee, k) = Scrub(At(ix.byCallee, k), dead)
             /\ At(jx.byCaller, k) = Scrub(At(ix.byCaller, k), dead)
             /\ At(jx.byCalleeDisplay, k) = Scrub(At(ix.byCalleeDisplay, k), dead)
             /\ At(jx.byCallerDisplay, k) = Scrub(At(ix.byCallerDisplay, k), dead)
             /\ At(jx.bySite, k) = Scrub(At(ix.bySite, k), dead)
  BY DEF Removed
<1>5. ASSUME NEW k
      PROVE  At(jx.byCallee, k) = InOrder(ByCallee(jx, k), n)
  <2>1. \A m \in 1..n : m \in ByCallee(jx, k) <=> m \in ByCallee(ix, k) /\ m \notin dead
    BY <1>2 DEF ByCallee
  <2> QED BY <1>1, <1>3, <1>4, <2>1, ScrubListed
<1>6. ASSUME NEW k
      PROVE  At(jx.byCaller, k) = InOrder(ByCaller(jx, k), n)
  <2>1. \A m \in 1..n : m \in ByCaller(jx, k) <=> m \in ByCaller(ix, k) /\ m \notin dead
    BY <1>2 DEF ByCaller
  <2> QED BY <1>1, <1>3, <1>4, <2>1, ScrubListed
<1>7. ASSUME NEW k
      PROVE  At(jx.bySite, k) = InOrder(BySite(jx, k), n)
  <2>1. \A m \in 1..n : m \in BySite(jx, k) <=> m \in BySite(ix, k) /\ m \notin dead
    BY <1>2 DEF BySite
  <2> QED BY <1>1, <1>3, <1>4, <2>1, ScrubListed
<1>8. ASSUME NEW k
      PROVE  At(jx.byCalleeDisplay, k) = InOrder(ByCalleeDisplay(jx, k), n)
  <2>1. \A m \in 1..n : m \in ByCalleeDisplay(jx, k) <=> m \in ByCalleeDisplay(ix, k) /\ m \notin dead
    BY <1>2 DEF ByCalleeDisplay
  <2> QED BY <1>1, <1>3, <1>4, <2>1, ScrubListed
<1>9. ASSUME NEW k
      PROVE  At(jx.byCallerDisplay, k) = InOrder(ByCallerDisplay(jx, k), n)
  <2>1. \A m \in 1..n : m \in ByCallerDisplay(jx, k) <=> m \in ByCallerDisplay(ix, k) /\ m \notin dead
    BY <1>2 DEF ByCallerDisplay
  <2> QED BY <1>1, <1>3, <1>4, <2>1, ScrubListed
<1>10. UsrKeys(jx)
  <2>1. UsrKeys(ix)
    BY DEF Good, Lists
  <2>2. /\ DOMAIN jx.byCallee = DOMAIN ix.byCallee /\ DOMAIN jx.byCaller = DOMAIN ix.byCaller
        /\ jx.strings = ix.strings
    BY DEF Removed, SameTables
  <2> QED BY <2>1, <2>2 DEF UsrKeys
<1> QED BY <1>2, <1>5, <1>6, <1>7, <1>8, <1>9, <1>10
        DEF Lists, CalleesListed, CallersListed, SitesListed, CalleeNamesListed, CallerNamesListed

LEMMA RemovedLocated ==
  ASSUME NEW ix, Good(ix), Located(ix), NEW S, NEW dead, dead = Doomed(ix, S), S \subseteq TUs,
         NEW jx, Removed(ix, jx, S, dead)
  PROVE  Located(jx)
<1> DEFINE c == ix.contexts
           d == jx.contexts
           P == DOMAIN c
           str == ix.strings
           q == ix.noProvenance
           L == LiveContexts(ix)
<1>1. /\ \A k \in DOMAIN ix.byTu : k \in DOMAIN str /\ k # NoString /\ OfTu(ix.byTu[k], P, c, k)
      /\ OfTu(q, P, c, NoString)
      /\ \A i \in L : IF c[i].tuPath = NoString THEN In(i, q)
                      ELSE c[i].tuPath \in DOMAIN ix.byTu /\ In(i, ix.byTu[c[i].tuPath])
  BY DEF Located
<1>2. dead \subseteq L
  BY DEF Doomed
<1>3. /\ LiveContexts(jx) = L \ dead
      /\ \A i \in P : d[i].tuPath = c[i].tuPath
  <2>1. LiveContexts(jx) = LiveContexts(ix) \ dead
    BY <1>2, RemovedStored DEF Left
  <2>2. \A i \in DOMAIN ix.contexts : jx.contexts[i].tuPath = ix.contexts[i].tuPath
    BY <1>2, RemovedStored DEF Left
  <2> QED BY <2>1, <2>2
<1>4. /\ DOMAIN d = P /\ jx.strings = str
      /\ \A id : id \in DOMAIN jx.byTu <=> id \in DOMAIN ix.byTu /\ str[id] \notin S
      /\ \A id \in DOMAIN jx.byTu : jx.byTu[id] = ix.byTu[id]
      /\ jx.noProvenance = Scrub(q, dead)
  BY DEF Removed, SameTables
<1>5. \A s, k : OfTu(s, P, c, k) => OfTu(s, P, d, k)
  <2>1. ASSUME NEW s, NEW k, OfTu(s, P, c, k)
        PROVE  OfTu(s, P, d, k)
    <3> HIDE DEF P, c, d
    <3>1. s \in Seq(P) /\ \A m \in DOMAIN s : c[s[m]].tuPath = k
      BY <2>1 DEF OfTu
    <3>2. \A m \in DOMAIN s : s[m] \in P
      BY <3>1
    <3> QED BY <1>3, <3>1, <3>2 DEF OfTu
  <2> QED BY <2>1
<1>6. OfTu(Scrub(q, dead), P, c, NoString) /\ \A i : In(i, Scrub(q, dead)) <=> In(i, q) /\ i \notin dead
  <2>1. q \in Seq(P) /\ \A m \in DOMAIN q : c[q[m]].tuPath = NoString
    BY <1>1 DEF OfTu
  <2> HIDE DEF q, P, c
  <2>2. Scrub(q, dead) \in Seq(P) /\ \A i : In(i, Scrub(q, dead)) <=> In(i, q) /\ i \notin dead
    BY <2>1, ScrubPlaces
  <2>3. \A i : In(i, q) => c[i].tuPath = NoString
    BY <2>1 DEF In
  <2>4. \A m \in DOMAIN Scrub(q, dead) : In(Scrub(q, dead)[m], Scrub(q, dead))
    BY DEF In
  <2> QED BY <2>2, <2>3, <2>4 DEF OfTu
<1>7. L \subseteq P
  BY DEF LiveContexts
<1>8. ASSUME NEW i \in L, i \notin dead, c[i].tuPath # NoString
      PROVE  str[c[i].tuPath] \notin S
  <2>1. Views(ix)[i] \notin Gone(S)
    BY <1>8, DoomedAre
  <2>2. Shows(ix, c[i]) /\ Views(ix)[i] = View(ix, c[i])
    BY <1>7, <1>8 DEF Good, Stored, Views
  <2>3. View(ix, c[i]).tu = str[c[i].tuPath]
    BY <1>8, ViewFields
  <2>4. View(ix, c[i]) \in ShownAll
    BY <2>2 DEF Shows
  <2> QED BY <2>1, <2>2, <2>3, <2>4 DEF Gone
<1> HIDE DEF c, d, P, str, q, L
<1>9. \A k \in DOMAIN jx.byTu : k \in DOMAIN jx.strings /\ k # NoString /\ OfTu(jx.byTu[k], P, d, k)
  BY <1>1, <1>4, <1>5
<1>10. OfTu(jx.noProvenance, P, d, NoString)
  BY <1>4, <1>5, <1>6
<1>11. ASSUME NEW i \in LiveContexts(jx), NEW k, k = d[i].tuPath
       PROVE  IF k = NoString THEN In(i, jx.noProvenance) ELSE k \in DOMAIN jx.byTu /\ In(i, jx.byTu[k])
  <2>1. i \in L /\ i \notin dead /\ k = c[i].tuPath
    BY <1>3, <1>7, <1>11
  <2>2. CASE k = NoString
    BY <1>1, <1>4, <1>6, <2>1, <2>2
  <2>3. CASE k # NoString
    BY <1>1, <1>4, <1>8, <2>1, <2>3
  <2> QED BY <2>2, <2>3
<1> QED BY <1>4, <1>9, <1>10, <1>11 DEF Located, d

LEMMA RemoveOk ==
  ASSUME NEW ix, Good(ix), Located(ix), NEW S, S \subseteq TUs, NEW jx, jx = RemoveTUs(ix, S)
  PROVE  /\ Good(jx) /\ Located(jx)
         /\ AllContexts(jx) = Listed(Views(ix), {i \in LiveContexts(ix) : Views(ix)[i] \notin Gone(S)})
<1> DEFINE L == LiveContexts(ix)
           K == {i \in L : Views(ix)[i] \notin Gone(S)}
<1>0. PICK dead : dead = Doomed(ix, S)
  OBVIOUS
<1>1. dead = {i \in L : Views(ix)[i] \in Gone(S)}
  BY <1>0, DoomedAre
<1>2. K = L \ dead /\ dead \subseteq L
  BY <1>1
<1>3. CASE dead = {}
  <2>1. jx = ix
    BY <1>0, <1>3 DEF RemoveTUs
  <2>2. K = L
    BY <1>2, <1>3
  <2>3. AllContexts(ix) = Listed(Views(ix), L)
    BY AllContextsAre DEF Good
  <2> QED BY <2>1, <2>2, <2>3
<1>4. CASE dead # {}
  <2>1. Removed(ix, jx, S, dead)
    BY <1>0, <1>4, RemoveFields DEF Good
  <2>2. Stored(jx) /\ Tables(jx) /\ LiveContexts(jx) = L \ dead /\ Views(jx) = Views(ix)
    BY <1>2, <2>1, RemovedStored DEF Left
  <2>3. Lists(jx)
    BY <1>2, <2>1, RemovedLists
  <2>4. Located(jx)
    BY <1>0, <2>1, RemovedLocated
  <2>5. AllContexts(jx) = Listed(Views(jx), LiveContexts(jx))
    BY <2>2, AllContextsAre
  <2>6. Good(jx)
    BY <2>1, <2>2, <2>3 DEF Good, Removed
  <2> QED BY <1>2, <2>2, <2>4, <2>5, <2>6
<1> QED BY <1>3, <1>4

-----------------------------------------------------------------------------
(* compact, and the snapshot: the live contexts inserted anew.               *)

LEMMA EmptiedOk ==
  ASSUME NEW ix, Tables(ix), NEW jx, jx = Emptied(ix)
  PROVE  Good(jx) /\ Located(jx) /\ SameTables(ix, jx) /\ AllContexts(jx) = << >>
<1>1. /\ DOMAIN jx = IndexFields /\ SameTables(ix, jx)
      /\ jx.contexts = << >> /\ jx.live = 0
      /\ jx.byCallee = << >> /\ jx.byCaller = << >> /\ jx.bySite = << >>
      /\ jx.byCalleeDisplay = << >> /\ jx.byCallerDisplay = << >>
      /\ jx.byTu = << >> /\ jx.noProvenance = << >>
  BY DEF Emptied, EmptyIndex, IndexFields, SameTables
<1>2. Tables(jx)
  BY <1>1 DEF Tables, SameTables
<1>3. Len(jx.contexts) = 0 /\ DOMAIN jx.contexts = {} /\ LiveContexts(jx) = {}
  <2>1. Len(<< >>) = 0 /\ DOMAIN << >> = {}
    OBVIOUS
  <2> QED BY <1>1, <2>1 DEF LiveContexts
<1>4. Stored(jx)
  <2>1. jx.contexts = [i \in 1..0 |-> jx.contexts[i]]
    <3>1. << >> = [i \in 1..0 |-> jx.contexts[i]]
      OBVIOUS
    <3> QED BY <1>1, <3>1
  <2>2. jx.live = Cardinality({})
    BY <1>1, FS_EmptySet
  <2> QED BY <1>3, <2>1, <2>2 DEF Stored
<1>5. \A k : At(<< >>, k) = << >>
  BY DEF At
<1>6. \A I : InOrder(I, 0) = << >>
  BY InOrderSteps
<1>7. Lists(jx)
  <2>1. UsrKeys(jx)
    BY <1>1 DEF UsrKeys
  <2> QED BY <1>1, <1>3, <1>5, <1>6, <2>1
          DEF Lists, CalleesListed, CallersListed, SitesListed, CalleeNamesListed, CallerNamesListed
<1>8. Located(jx)
  <2>1. OfTu(<< >>, DOMAIN jx.contexts, jx.contexts, NoString)
    BY DEF OfTu
  <2>2. DOMAIN jx.byTu = {}
    BY <1>1
  <2> QED BY <1>1, <1>3, <2>1, <2>2 DEF Located
<1>9. AllContexts(jx) = << >>
  <2>1. AllContexts(jx) = Listed(Views(jx), LiveContexts(jx))
    BY <1>4, AllContextsAre
  <2>2. Views(jx) = << >>
    BY <1>3 DEF Views
  <2> QED BY <2>1, <2>2, ListedEmpty
<1> QED BY <1>1, <1>2, <1>4, <1>7, <1>8, <1>9 DEF Good

LEMMA EmptyOk == Good(EmptyIndex) /\ Located(EmptyIndex) /\ AllContexts(EmptyIndex) = << >>
<1>1. EmptyIndex = Emptied(EmptyIndex)
  BY DEF Emptied, EmptyIndex
<1>2. Tables(EmptyIndex)
  <2>1. /\ EmptyIndex.strings = << >> /\ EmptyIndex.scopeSets = << << >> >>
        /\ EmptyIndex.guardSets = << << >> >> /\ EmptyIndex.raiiSets = << << >> >>
    BY DEF EmptyIndex
  <2>2. IsTable(<< >>)
    BY DEF IsTable
  <2>3. /\ IsTable(<< << >> >>) /\ EmptySet \in DOMAIN << << >> >>
        /\ << << >> >>[EmptySet] = << >>
    BY DEF IsTable, EmptySet
  <2>4. \A n \in DOMAIN << << >> >> : << << >> >>[n] \in Seq(DOMAIN << >>)
    <3>1. \A n \in DOMAIN << << >> >> : << << >> >>[n] = << >>
      OBVIOUS
    <3>2. \A D : << >> \in Seq(D)
      OBVIOUS
    <3> QED BY <3>1, <3>2, Zenon
  <2> QED BY <2>1, <2>2, <2>3, <2>4 DEF Tables
<1> QED BY <1>1, <1>2, EmptiedOk

LEMMA RebuildOk ==
  ASSUME NEW ix, Good(ix), NEW trackTu \in BOOLEAN,
         NEW jx, jx = InsertAll(Emptied(ix), LiveStored(ix), trackTu)
  PROVE  /\ Good(jx) /\ SameTables(ix, jx)
         /\ trackTu => Located(jx)
         /\ AllContexts(jx) = AllContexts(ix)
<1> DEFINE list == LiveStored(ix)
           ex == Emptied(ix)
<1>1. Good(ex) /\ Located(ex) /\ SameTables(ix, ex) /\ AllContexts(ex) = << >>
  BY EmptiedOk DEF Good
<1>2. /\ Len(list) \in Nat /\ DOMAIN list = 1..Len(list)
      /\ \A n \in 1..Len(list) : Storable(ix, list[n])
      /\ AllContexts(ix) = [n \in 1..Len(list) |-> View(ix, list[n])]
  BY LiveStoredFacts DEF Good
<1> HIDE DEF list, ex
<1>3. \A n \in 1..Len(list) : Storable(ex, list[n]) /\ View(ex, list[n]) = View(ix, list[n])
  <2>1. \A se : (Storable(ex, se) <=> Storable(ix, se)) /\ View(ex, se) = View(ix, se)
    BY <1>1, SameMeaning DEF Storable
  <2> QED BY <1>2, <2>1
<1>4. AllInserted(ex, jx, list, trackTu)
  BY <1>1, <1>2, <1>3, InsertAllOk DEF ex, list
<1>5. AllContexts(jx) = << >> \o [n \in 1..Len(list) |-> View(ex, list[n])]
  BY <1>1, <1>4 DEF AllInserted
<1>6. [n \in 1..Len(list) |-> View(ex, list[n])] = AllContexts(ix)
  BY <1>2, <1>3
<1>7. << >> \o AllContexts(ix) = AllContexts(ix)
  <2>1. AllContexts(ix) \in Seq(ShownAll)
    BY AllContextsSeq
  <2> DEFINE a == AllContexts(ix)
  <2> HIDE DEF a
  <2>2. a \in Seq(ShownAll)
    BY <2>1 DEF a
  <2>3. << >> \o a = a
    BY <2>2
  <2> QED BY <2>3 DEF a
<1> QED BY <1>1, <1>4, <1>5, <1>6, <1>7 DEF AllInserted, SameTables

LEMMA CompactOk ==
  ASSUME NEW ix, Good(ix), NEW jx, jx = Compact(ix)
  PROVE  Good(jx) /\ Located(jx) /\ AllContexts(jx) = AllContexts(ix)
<1>1. PICK trackTu \in BOOLEAN : trackTu = TRUE
  OBVIOUS
<1>2. jx = InsertAll(Emptied(ix), LiveStored(ix), trackTu)
  BY <1>1 DEF Compact
<1> QED BY <1>1, <1>2, RebuildOk

LEMMA ReloadOk ==
  ASSUME NEW ix, Good(ix), NEW mutable \in BOOLEAN,
         NEW jx, jx = LoadContexts(SaveContexts(ix), mutable)
  PROVE  Good(jx) /\ (mutable => Located(jx)) /\ AllContexts(jx) = AllContexts(ix)
<1> DEFINE file == SaveContexts(ix)
<1>1. /\ file.strings = ix.strings /\ file.scopeSets = ix.scopeSets /\ file.guardSets = ix.guardSets
      /\ file.raiiSets = ix.raiiSets /\ file.contexts = LiveStored(ix)
  BY DEF SaveContexts
<1>2. Emptied(file) = Emptied(ix)
  <2> HIDE DEF file
  <2> QED BY <1>1 DEF Emptied
<1>3. jx = InsertAll(Emptied(ix), LiveStored(ix), mutable)
  <2> HIDE DEF file
  <2> QED BY <1>1, <1>2 DEF LoadContexts, file
<1> QED BY <1>3, RebuildOk

\* What is saved is accepted when it is loaded.
LEMMA SavedSound ==
  ASSUME NEW ix, Good(ix)
  PROVE  Sound(SaveContexts(ix))
<1> DEFINE file == SaveContexts(ix)
           list == LiveStored(ix)
<1>1. /\ file.strings = ix.strings /\ file.scopeSets = ix.scopeSets /\ file.guardSets = ix.guardSets
      /\ file.raiiSets = ix.raiiSets /\ file.contexts = list
  BY DEF SaveContexts
<1>2. DOMAIN list = 1..Len(list) /\ \A n \in 1..Len(list) : Storable(ix, list[n])
  BY LiveStoredFacts DEF Good
<1> HIDE DEF file, list
<1>3. \A t \in {file.scopeSets, file.guardSets, file.raiiSets} : t # << >> /\ t[EmptySet] = << >>
  <2>1. \A t \in {ix.scopeSets, ix.guardSets, ix.raiiSets} : EmptySet \in DOMAIN t /\ t[EmptySet] = << >>
    BY DEF Good, Tables
  <2>2. DOMAIN << >> = {}
    OBVIOUS
  <2> QED BY <1>1, <2>1, <2>2
<1>4. \A n \in DOMAIN file.raiiSets : ToSet(file.raiiSets[n]) \subseteq DOMAIN file.strings
  <2>1. ASSUME NEW s, NEW D, s \in Seq(D)
        PROVE  ToSet(s) \subseteq D
    BY <2>1 DEF ToSet
  <2>2. \A n \in DOMAIN ix.raiiSets : ix.raiiSets[n] \in Seq(DOMAIN ix.strings)
    BY DEF Good, Tables
  <2> QED BY <1>1, <2>1, <2>2
<1>5. ASSUME NEW n \in DOMAIN file.contexts, NEW se, se = file.contexts[n]
      PROVE  /\ {se.caller, se.callee, se.callerDisplay, se.calleeDisplay, se.site}
                  \cup ({se.tuPath} \ {NoString}) \subseteq DOMAIN file.strings
             /\ se.scopeSet \in DOMAIN file.scopeSets
             /\ se.guardSet \in DOMAIN file.guardSets
             /\ se.raiiSet \in DOMAIN file.raiiSets
  <2>1. Entry(ix, se)
    BY <1>1, <1>2, <1>5 DEF Storable
  <2> QED BY <1>1, <2>1 DEF Entry
<1>6. Sound(file)
  BY <1>3, <1>4, <1>5 DEF Sound
<1> QED BY <1>6 DEF file

-----------------------------------------------------------------------------
(* The index against what has been registered.                               *)

AllItems == Contexts \cup ChannelKeys
Registers(reg) == reg \in [Owners -> Seq(AllItems)]

Counts(ix, reg) ==
  \A t \in Owners, c \in Contexts : Times(Shown(c, t), AllContexts(ix)) = Times(c, reg[t])

IndexOk(ix, reg) == Good(ix) /\ Located(ix) /\ Counts(ix, reg)

LEMMA ShownInjective ==
  ASSUME NEW c \in Contexts, NEW d \in Contexts, NEW t, NEW u, Shown(c, t) = Shown(d, u)
  PROVE  c = d /\ t = u
<1>1. /\ Shown(c, t).tu = t /\ Shown(d, u).tu = u
      /\ Shown(c, t).caller = c.caller /\ Shown(d, u).caller = d.caller
      /\ Shown(c, t).callee = c.callee /\ Shown(d, u).callee = d.callee
      /\ Shown(c, t).site = c.site /\ Shown(d, u).site = d.site
      /\ Shown(c, t).scopes = c.scopes /\ Shown(d, u).scopes = d.scopes
      /\ Shown(c, t).guards = c.guards /\ Shown(d, u).guards = d.guards
      /\ Shown(c, t).locals = c.locals /\ Shown(d, u).locals = d.locals
      /\ Shown(c, t).attr = c.attr /\ Shown(d, u).attr = d.attr
  BY DEF Shown
<1>2. ASSUME NEW e \in Contexts
      PROVE  e = [caller |-> e.caller, callee |-> e.callee, site |-> e.site, scopes |-> e.scopes,
                  guards |-> e.guards, locals |-> e.locals, attr |-> e.attr]
  <2>1. e \in [caller : Fns, callee : Fns, site : Sites, scopes : {e.scopes}, guards : {e.guards},
               locals : Seq(ToSet(e.locals)), attr : {e.attr}]
    BY ContextsAssumption
  <2> QED BY <2>1
<1>3. /\ c.caller = d.caller /\ c.callee = d.callee /\ c.site = d.site /\ c.scopes = d.scopes
      /\ c.guards = d.guards /\ c.locals = d.locals /\ c.attr = d.attr /\ t = u
  BY <1>1
<1>4. /\ c = [caller |-> c.caller, callee |-> c.callee, site |-> c.site, scopes |-> c.scopes,
                  guards |-> c.guards, locals |-> c.locals, attr |-> c.attr]
      /\ d = [caller |-> d.caller, callee |-> d.callee, site |-> d.site, scopes |-> d.scopes,
                  guards |-> d.guards, locals |-> d.locals, attr |-> d.attr]
  BY <1>2
<1> QED BY <1>3, <1>4

LEMMA NothingRegistered == IndexOk(EmptyIndex, None) /\ Registers(None)
<1>1. Good(EmptyIndex) /\ Located(EmptyIndex) /\ AllContexts(EmptyIndex) = << >>
  BY EmptyOk
<1>2. \A x : Times(x, << >>) = 0
  <2>1. << >> \in Seq(Nat) /\ 0 \in Nat
    OBVIOUS
  <2> QED BY <2>1, TimesSteps
<1>3. \A t \in Owners : None[t] = << >>
  BY DEF None
<1>4. Registers(None)
  BY DEF Registers, None
<1> QED BY <1>1, <1>2, <1>3, <1>4 DEF IndexOk, Counts

Tracks(ix, reg) == IndexOk(ix, reg) /\ Registers(reg)

Registering(ix, reg, item, o, jx, new) ==
  /\ Tracks(ix, reg)
  /\ item \in AllItems /\ o \in Owners
  /\ jx = IF item \in Contexts THEN AddContext(ix, item, o) ELSE ix
  /\ new = [reg EXCEPT ![o] = Append(@, item)]

LEMMA RegisterOk ==
  ASSUME NEW ix, NEW reg, NEW item, NEW o, NEW jx, NEW new, Registering(ix, reg, item, o, jx, new)
  PROVE  Tracks(jx, new)
<1>0. /\ IndexOk(ix, reg) /\ Registers(reg) /\ item \in AllItems /\ o \in Owners
      /\ jx = IF item \in Contexts THEN AddContext(ix, item, o) ELSE ix
      /\ new = [reg EXCEPT ![o] = Append(@, item)]
  BY DEF Registering, Tracks
<1> DEFINE Q == AllItems
<1>1. /\ \A t \in Owners : reg[t] \in Seq(Q)
      /\ \A t \in Owners : new[t] = IF t = o THEN Append(reg[t], item) ELSE reg[t]
      /\ new = [t \in Owners |-> new[t]]
  BY <1>0 DEF Registers
<1>2. Registers(new)
  <2>1. \A t \in Owners : Append(reg[t], item) \in Seq(Q)
    <3> HIDE DEF Q
    <3>1. item \in Q
      BY <1>0 DEF Q
    <3> QED BY <1>1, <3>1
  <2>2. \A t \in Owners : new[t] \in Seq(Q)
    BY <1>1, <2>1
  <2> HIDE DEF Q
  <2>3. new \in [Owners -> Seq(Q)]
    BY <1>1, <2>2
  <2> QED BY <2>3 DEF Q, Registers
<1>3. Good(ix) /\ Located(ix) /\ Counts(ix, reg)
  BY <1>0 DEF IndexOk
<1>4. ASSUME NEW t \in Owners, NEW c \in Contexts
      PROVE  Times(c, new[t]) = Times(c, reg[t]) + IF t = o /\ c = item THEN 1 ELSE 0
  <2> DEFINE s == reg[t]
  <2>1. s \in Seq(Q) /\ item \in Q
    BY <1>0, <1>1
  <2>2. new[t] = IF t = o THEN Append(s, item) ELSE s
    BY <1>1
  <2> HIDE DEF s, Q
  <2>3. Times(c, s) \in Nat /\ Times(c, Append(s, item)) = Times(c, s) + IF c = item THEN 1 ELSE 0
    BY <2>1, TimesSteps
  <2> QED BY <2>2, <2>3 DEF s
<1>5. CASE item \notin Contexts
  <2>1. jx = ix
    BY <1>0, <1>5
  <2>2. ASSUME NEW t \in Owners, NEW c \in Contexts
        PROVE  Times(c, new[t]) = Times(c, reg[t])
    <3>1. Times(c, reg[t]) \in Nat
      <4> DEFINE s == reg[t]
      <4>1. s \in Seq(Q) /\ item \in Q
        BY <1>0, <1>1
      <4> HIDE DEF s, Q
      <4>2. Times(c, s) \in Nat
        BY <4>1, TimesSteps
      <4> QED BY <4>2 DEF s
    <3>2. c # item
      BY <1>5
    <3> QED BY <1>4, <3>1, <3>2
  <2> QED BY <1>2, <1>3, <2>1, <2>2 DEF Tracks, IndexOk, Counts
<1>6. CASE item \in Contexts
  <2>0. jx = AddContext(ix, item, o)
    BY <1>0, <1>6
  <2>1. Good(jx) /\ Located(jx) /\ AllContexts(jx) = Append(AllContexts(ix), Shown(item, o))
    BY <1>0, <1>3, <1>6, <2>0, AddContextOk
  <2> DEFINE a == AllContexts(ix)
             y == Shown(item, o)
  <2>2. a \in Seq(ShownAll) /\ y \in ShownAll
    BY <1>0, <1>3, <1>6, AllContextsSeq DEF ShownAll
  <2>3. ASSUME NEW t \in Owners, NEW c \in Contexts
        PROVE  Times(Shown(c, t), AllContexts(jx)) = Times(c, new[t])
    <3> DEFINE x == Shown(c, t)
    <3>1. x = y <=> c = item /\ t = o
      BY <1>0, <1>6, ShownInjective
    <3>2. Times(x, a) = Times(c, reg[t])
      BY <1>3 DEF Counts
    <3> HIDE DEF x, y, a
    <3>3. Times(x, Append(a, y)) = Times(x, a) + IF x = y THEN 1 ELSE 0
      BY <2>2, TimesSteps
    <3> QED BY <1>4, <2>1, <3>1, <3>2, <3>3 DEF x, y, a
  <2> QED BY <1>2, <2>1, <2>3 DEF Tracks, IndexOk, Counts
<1> QED BY <1>5, <1>6

Absorbing(ix, reg, fx, pend, jx, new) ==
  /\ Tracks(ix, reg)
  /\ Good(fx) /\ Counts(fx, pend) /\ Registers(pend)
  /\ jx = Absorb(ix, fx)
  /\ new = [t \in Owners |-> reg[t] \o pend[t]]

LEMMA AbsorbedOk ==
  ASSUME NEW ix, NEW reg, NEW fx, NEW pend, NEW jx, NEW new, Absorbing(ix, reg, fx, pend, jx, new)
  PROVE  Tracks(jx, new)
<1>0. /\ IndexOk(ix, reg) /\ Registers(reg)
      /\ Good(fx) /\ Counts(fx, pend) /\ Registers(pend)
      /\ jx = Absorb(ix, fx)
      /\ new = [t \in Owners |-> reg[t] \o pend[t]]
  BY DEF Absorbing, Tracks
<1> DEFINE Q == AllItems
           a == AllContexts(ix)
           b == AllContexts(fx)
<1>1. Good(ix) /\ Located(ix) /\ Counts(ix, reg)
  BY <1>0 DEF IndexOk
<1>2. Good(jx) /\ Located(jx) /\ AllContexts(jx) = a \o b
  BY <1>0, <1>1, AbsorbOk
<1>3. a \in Seq(ShownAll) /\ b \in Seq(ShownAll)
  BY <1>0, <1>1, AllContextsSeq
<1>4. \A t \in Owners : reg[t] \in Seq(Q) /\ pend[t] \in Seq(Q) /\ new[t] = reg[t] \o pend[t]
  BY <1>0 DEF Registers
<1> HIDE DEF Q, a, b
<1>5. Registers(new)
  <2>0. \A s, p \in Seq(Q) : s \o p \in Seq(Q)
    OBVIOUS
  <2>1. \A t \in Owners : new[t] \in Seq(Q)
    BY <1>4, <2>0
  <2>2. new \in [Owners -> Seq(Q)]
    BY <1>0, <2>1, Zenon
  <2> QED BY <2>2 DEF Registers, Q
<1>6. ASSUME NEW t \in Owners, NEW c \in Contexts
      PROVE  Times(Shown(c, t), AllContexts(jx)) = Times(c, new[t])
  <2> DEFINE x == Shown(c, t)
             s == reg[t]
             p == pend[t]
  <2>1. s \in Seq(Q) /\ p \in Seq(Q) /\ new[t] = s \o p
    BY <1>4
  <2>2. Times(x, a) = Times(c, s) /\ Times(x, b) = Times(c, p)
    BY <1>0, <1>1 DEF Counts, a, b
  <2> HIDE DEF x, s, p
  <2>3. Times(x, a \o b) = Times(x, a) + Times(x, b)
    BY <1>3, TimesConcat
  <2>4. Times(c, s \o p) = Times(c, s) + Times(c, p)
    BY <2>1, TimesConcat
  <2> QED BY <1>2, <2>1, <2>2, <2>3, <2>4 DEF x
<1> QED BY <1>2, <1>5, <1>6 DEF Tracks, IndexOk, Counts

LEMMA TimesGone ==
  ASSUME NEW Q, NEW s \in Seq(Q), NEW L, NEW G, NEW x
  PROVE  Times(x, Listed(s, {i \in L : s[i] \notin G})) = IF x \in G THEN 0 ELSE Times(x, Listed(s, L))
<1> DEFINE K == {i \in L : s[i] \notin G}
           A == {i \in DOMAIN s : i \in K /\ s[i] = x}
           B == {i \in DOMAIN s : i \in L /\ s[i] = x}
<1>1. Times(x, Listed(s, K)) = Cardinality(A)
  <2> HIDE DEF K
  <2> QED BY TimesListed
<1>2. Times(x, Listed(s, L)) = Cardinality(B)
  BY TimesListed
<1>3. A = IF x \in G THEN {} ELSE B
  OBVIOUS
<1>4. Cardinality({}) = 0
  BY FS_EmptySet
<1> HIDE DEF A, B, K
<1> QED BY <1>1, <1>2, <1>3, <1>4 DEF K

Dropping(ix, reg, S, jx, new) ==
  /\ Tracks(ix, reg) /\ S \subseteq TUs
  /\ jx = RemoveTUs(ix, S)
  /\ new = [t \in Owners |->
              IF t \in S THEN <<>>
              ELSE IF t = NoTU THEN Only(reg[t], LAMBDA c : siteFile[c.site] \notin S)
              ELSE reg[t]]

LEMMA DroppedOk ==
  ASSUME NEW ix, NEW reg, NEW S, NEW jx, NEW new, Dropping(ix, reg, S, jx, new)
  PROVE  Tracks(jx, new)
<1>0. /\ IndexOk(ix, reg) /\ Registers(reg) /\ S \subseteq TUs
      /\ jx = RemoveTUs(ix, S)
      /\ new = [t \in Owners |->
                  IF t \in S THEN <<>>
                  ELSE IF t = NoTU THEN Only(reg[t], LAMBDA c : siteFile[c.site] \notin S)
                  ELSE reg[t]]
  BY DEF Dropping, Tracks
<1> DEFINE Q == AllItems
           v == Views(ix)
           L == LiveContexts(ix)
           K == {i \in L : v[i] \notin Gone(S)}
           s == reg[NoTU]
           I == {i \in DOMAIN s : siteFile[s[i].site] \notin S}
<1>1. Good(ix) /\ Located(ix) /\ Counts(ix, reg)
  BY <1>0 DEF IndexOk
<1>2. Good(jx) /\ Located(jx) /\ AllContexts(jx) = Listed(v, K)
  BY <1>0, <1>1, RemoveOk
<1>3. v \in Seq(ShownAll) /\ AllContexts(ix) = Listed(v, L)
  BY <1>1, ViewsSeq, AllContextsAre DEF Good
<1>4. NoTU \in Owners /\ NoTU \notin S
  BY <1>0, TUsAssumption DEF Owners
<1>5. \A t \in Owners : new[t] = IF t \in S THEN <<>> ELSE IF t = NoTU THEN Listed(s, I) ELSE reg[t]
  BY <1>0 DEF Only
<1>6. \A t \in Owners : reg[t] \in Seq(Q)
  BY <1>0 DEF Registers
<1>7. Listed(s, I) \in Seq(Q)
  <2>1. s \in Seq(Q)
    BY <1>4, <1>6
  <2> HIDE DEF s, I, Q
  <2> QED BY <2>1, ListedType
<1>8. Registers(new)
  <2>1. << >> \in Seq(Q)
    OBVIOUS
  <2> HIDE DEF Q, s, I
  <2>2. \A t \in Owners : new[t] \in Seq(Q)
    BY <1>5, <1>6, <1>7, <2>1
  <2>3. new = [t \in Owners |-> new[t]]
    BY <1>0
  <2>4. new \in [Owners -> Seq(Q)]
    BY <2>2, <2>3, Zenon
  <2> QED BY <2>4 DEF Registers, Q
<1>9. ASSUME NEW c \in Contexts
      PROVE  Times(c, Listed(s, I)) = IF siteFile[c.site] \in S THEN 0 ELSE Times(c, s)
  <2> DEFINE A == {i \in DOMAIN s : i \in I /\ s[i] = c}
             B == {i \in DOMAIN s : s[i] = c}
  <2>1. s \in Seq(Q)
    BY <1>4, <1>6
  <2>2. Times(c, Listed(s, I)) = Cardinality(A)
    <3> HIDE DEF s, I, Q
    <3> QED BY <2>1, TimesListed
  <2>3. A = IF siteFile[c.site] \in S THEN {} ELSE B
    OBVIOUS
  <2>4. Times(c, s) = Cardinality(B) /\ Cardinality({}) = 0
    BY FS_EmptySet DEF Times
  <2> HIDE DEF A, B, s, I
  <2> QED BY <2>2, <2>3, <2>4
<1>10. ASSUME NEW t \in Owners, NEW c \in Contexts
       PROVE  Times(Shown(c, t), AllContexts(jx)) = Times(c, new[t])
  <2> DEFINE x == Shown(c, t)
  <2>1. Times(x, Listed(v, K)) = IF x \in Gone(S) THEN 0 ELSE Times(x, Listed(v, L))
    <3> HIDE DEF v, L
    <3> QED BY <1>3, TimesGone
  <2>2. x \in Gone(S) <=> t \in S \/ (t = NoTU /\ siteFile[c.site] \in S)
    <3>1. x \in ShownAll
      BY DEF ShownAll
    <3>2. x.tu = t /\ x.site = c.site
      BY DEF Shown
    <3> HIDE DEF x
    <3> QED BY <3>1, <3>2 DEF Gone
  <2>3. Times(x, Listed(v, L)) = Times(c, reg[t])
    BY <1>1, <1>3 DEF Counts
  <2>4. Times(c, << >>) = 0
    <3>1. << >> \in Seq(Nat) /\ 0 \in Nat
      OBVIOUS
    <3> QED BY <3>1, TimesSteps
  <2> HIDE DEF x, v, K, L, s, I
  <2>5. CASE t \in S
    <3>1. new[t] = << >>
      BY <1>5, <2>5
    <3> QED BY <1>2, <2>1, <2>2, <2>4, <2>5, <3>1 DEF x
  <2>6. CASE t \notin S /\ t = NoTU
    <3>1. new[t] = Listed(s, I) /\ reg[t] = s
      BY <1>5, <2>6 DEF s
    <3> QED BY <1>2, <1>9, <2>1, <2>2, <2>3, <2>6, <3>1 DEF x
  <2>7. CASE t \notin S /\ t # NoTU
    <3>1. new[t] = reg[t]
      BY <1>5, <2>7
    <3> QED BY <1>2, <2>1, <2>2, <2>3, <2>7, <3>1 DEF x
  <2> QED BY <2>5, <2>6, <2>7
<1> QED BY <1>2, <1>8, <1>10 DEF Tracks, IndexOk, Counts

-----------------------------------------------------------------------------
(* The two indexes of contexts through the steps.                            *)

ContextInv ==
  /\ Registers(contrib) /\ Registers(pending)
  /\ IndexOk(contexts, contrib) /\ IndexOk(freshContexts, pending)

LEMMA ContextInvInit == Init => ContextInv
BY NothingRegistered DEF Init, ContextInv

LEMMA OwnerAndItem ==
  ASSUME NEW tu \in TUs, NEW item \in Items(tu)
  PROVE  item \in AllItems /\ Owner(tu, item) \in Owners
BY DEF Items, AllItems, Owner, Owners

LEMMA ContextInvStep == ContextInv /\ [Next]_vars => ContextInv'
<1> SUFFICES ASSUME ContextInv, [Next]_vars PROVE ContextInv'
  OBVIOUS
<1>0. /\ Registers(contrib) /\ Registers(pending)
      /\ IndexOk(contexts, contrib) /\ IndexOk(freshContexts, pending)
  BY DEF ContextInv
<1>00. IndexOk(EmptyIndex, None) /\ Registers(None)
  BY NothingRegistered
<1>000. PICK yes \in BOOLEAN : yes = TRUE
  OBVIOUS
<1>1. ASSUME NEW tu \in TUs, NEW item \in Items(tu), Bake(tu, item) PROVE ContextInv'
  <2>1. item \in AllItems /\ Owner(tu, item) \in Owners
    BY OwnerAndItem
  <2>2. /\ contexts' = IF item \in Contexts THEN AddContext(contexts, item, Owner(tu, item)) ELSE contexts
        /\ contrib' = [contrib EXCEPT ![Owner(tu, item)] = Append(@, item)]
        /\ freshContexts' = freshContexts /\ pending' = pending
    BY <1>1 DEF Bake
  <2>3. IndexOk(contexts', contrib') /\ Registers(contrib')
    <3>1. Registering(contexts, contrib, item, Owner(tu, item), contexts', contrib')
      BY <1>0, <2>1, <2>2 DEF Registering, Tracks
    <3>2. Tracks(contexts', contrib')
      BY <3>1, RegisterOk
    <3> QED BY <3>2 DEF Tracks
  <2> QED BY <1>0, <2>2, <2>3 DEF ContextInv
<1>2. ASSUME NEW tu \in TUs, NEW item \in Items(tu), BakeAside(tu, item) PROVE ContextInv'
  <2>1. item \in AllItems /\ Owner(tu, item) \in Owners
    BY OwnerAndItem
  <2>2. /\ freshContexts' = IF item \in Contexts THEN AddContext(freshContexts, item, Owner(tu, item))
                            ELSE freshContexts
        /\ pending' = [pending EXCEPT ![Owner(tu, item)] = Append(@, item)]
        /\ contexts' = contexts /\ contrib' = contrib
    BY <1>2 DEF BakeAside
  <2>3. IndexOk(freshContexts', pending') /\ Registers(pending')
    <3>1. Registering(freshContexts, pending, item, Owner(tu, item), freshContexts', pending')
      BY <1>0, <2>1, <2>2 DEF Registering, Tracks
    <3>2. Tracks(freshContexts', pending')
      BY <3>1, RegisterOk
    <3> QED BY <3>2 DEF Tracks
  <2> QED BY <1>0, <2>2, <2>3 DEF ContextInv
<1>3. ASSUME NEW fx, NEW fc, Good(fx), Counts(fx, pending), Absorbed(fx, fc) PROVE ContextInv'
  <2>1. /\ contexts' = Absorb(contexts, fx)
        /\ contrib' = [t \in Owners |-> contrib[t] \o pending[t]]
        /\ freshContexts' = EmptyIndex /\ pending' = None
    BY <1>3 DEF Absorbed
  <2>2. IndexOk(contexts', contrib') /\ Registers(contrib')
    <3>1. Absorbing(contexts, contrib, fx, pending, contexts', contrib')
      BY <1>0, <1>3, <2>1 DEF Absorbing, Tracks
    <3>2. Tracks(contexts', contrib')
      BY <3>1, AbsorbedOk
    <3> QED BY <3>2 DEF Tracks
  <2> QED BY <1>00, <2>1, <2>2 DEF ContextInv
<1>4. ASSUME AbsorbFresh PROVE ContextInv'
  <2>1. Absorbed(freshContexts, freshChannels)
    BY <1>4 DEF AbsorbFresh
  <2>2. Good(freshContexts) /\ Counts(freshContexts, pending)
    BY <1>0 DEF IndexOk
  <2> QED BY <1>3, <2>1, <2>2
<1>5. ASSUME NEW order \in Orders, AbsorbShardFile(order) PROVE ContextInv'
  <2> DEFINE fx == LoadContexts(SaveContexts(freshContexts), TRUE)
             fc == LoadSites(SaveSites(freshChannels, order), TRUE)
  <2>1. Absorbed(fx, fc)
    BY <1>5 DEF AbsorbShardFile
  <2>2. Good(freshContexts) /\ Counts(freshContexts, pending)
    BY <1>0 DEF IndexOk
  <2>3. fx = LoadContexts(SaveContexts(freshContexts), yes)
    BY <1>000
  <2> HIDE DEF fx, fc
  <2>4. Good(fx) /\ AllContexts(fx) = AllContexts(freshContexts)
    BY <2>2, <2>3, ReloadOk
  <2>5. Counts(fx, pending)
    BY <2>2, <2>4 DEF Counts
  <2> QED BY <1>3, <2>1, <2>4, <2>5
<1>6. ASSUME NEW S \in SUBSET TUs, Drop(S) PROVE ContextInv'
  <2>1. /\ contexts' = RemoveTUs(contexts, S)
        /\ contrib' = [t \in Owners |->
                   IF t \in S THEN <<>>
                   ELSE IF t = NoTU THEN Only(contrib[t], LAMBDA c : siteFile[c.site] \notin S)
                   ELSE contrib[t]]
        /\ freshContexts' = freshContexts /\ pending' = pending
    BY <1>6 DEF Drop
  <2>2. IndexOk(contexts', contrib') /\ Registers(contrib')
    <3>1. Dropping(contexts, contrib, S, contexts', contrib')
      BY <1>0, <2>1 DEF Dropping, Tracks
    <3>2. Tracks(contexts', contrib')
      BY <3>1, DroppedOk
    <3> QED BY <3>2 DEF Tracks
  <2> QED BY <1>0, <2>1, <2>2 DEF ContextInv
<1>7. ASSUME CompactBoth PROVE ContextInv'
  <2>1. /\ contexts' = Compact(contexts) /\ contrib' = contrib
        /\ freshContexts' = freshContexts /\ pending' = pending
    BY <1>7 DEF CompactBoth
  <2>2. Good(contexts') /\ Located(contexts') /\ AllContexts(contexts') = AllContexts(contexts)
    BY <1>0, <2>1, CompactOk DEF IndexOk
  <2>3. IndexOk(contexts', contrib)
    BY <1>0, <2>2 DEF IndexOk, Counts
  <2> QED BY <1>0, <2>1, <2>3 DEF ContextInv
<1>8. ASSUME NEW order \in Orders, Restart(order) PROVE ContextInv'
  <2>1. /\ contexts' = LoadContexts(SaveContexts(contexts), TRUE) /\ contrib' = contrib
        /\ freshContexts' = EmptyIndex /\ pending' = None
    BY <1>8 DEF Restart
  <2>2. contexts' = LoadContexts(SaveContexts(contexts), yes)
    BY <1>000, <2>1
  <2>3. Good(contexts') /\ Located(contexts') /\ AllContexts(contexts') = AllContexts(contexts)
    BY <1>0, <1>000, <2>2, ReloadOk DEF IndexOk
  <2>4. IndexOk(contexts', contrib)
    BY <1>0, <2>3 DEF IndexOk, Counts
  <2> QED BY <1>0, <1>00, <2>1, <2>4 DEF ContextInv
<1>9. CASE UNCHANGED vars
  BY <1>0, <1>9 DEF ContextInv, vars
<1> QED BY <1>1, <1>2, <1>4, <1>5, <1>6, <1>7, <1>8, <1>9 DEF Next

\* Whatever has been baked, absorbed, removed, compacted and reloaded, in whatever
\* order, the stored contexts are those a full rebuild would store, each as often,
\* and the file saved of them is accepted.
THEOREM ContextsCorrect == Spec => []ContextsMatchRebuild
<1>1. ContextInv => ContextsMatchRebuild
  <2> SUFFICES ASSUME ContextInv PROVE ContextsMatchRebuild
    OBVIOUS
  <2>1. Good(contexts) /\ Counts(contexts, contrib)
    BY DEF ContextInv, IndexOk
  <2>2. ToSet(AllContexts(contexts)) \subseteq {Shown(c, t) : c \in Contexts, t \in Owners}
    <3> DEFINE a == AllContexts(contexts)
    <3>1. a \in Seq(ShownAll)
      BY <2>1, AllContextsSeq
    <3> HIDE DEF a
    <3>2. ToSet(a) \subseteq ShownAll
      BY <3>1 DEF ToSet
    <3> QED BY <3>2 DEF a, ShownAll
  <2>3. contexts.live = Cardinality(LiveContexts(contexts))
    BY <2>1 DEF Good, Stored
  <2>4. Sound(SaveContexts(contexts))
    BY <2>1, SavedSound
  <2> QED BY <2>1, <2>2, <2>3, <2>4 DEF ContextsMatchRebuild, Counts
<1> QED BY <1>1, ContextInvInit, ContextInvStep, PTL DEF Spec

(* The live contexts with the views P.                                       *)
Part(ix, P) == Listed(Views(ix), {i \in LiveContexts(ix) : Views(ix)[i] \in P})

Called(name)  == {x \in ShownAll : name \in {x.callee, x.calleeName}}
Calling(name) == {x \in ShownAll : name \in {x.caller, x.callerName}}
OnSite(s)     == {x \in ShownAll : x.site = s}
Tried         == {x \in ShownAll : x.scopes # << >>}
Untried       == {x \in ShownAll : x.scopes = << >>}

PartIndices(ix, P) ==
  InOrder({i \in LiveContexts(ix) : Views(ix)[i] \in P}, Len(ix.contexts))

LEMMA PartType ==
  ASSUME NEW ix, Stored(ix), NEW P
  PROVE  Part(ix, P) \in Seq(ShownAll)
<1>1. Views(ix) \in Seq(ShownAll)
  BY ViewsSeq
<1> QED BY <1>1, ListedType DEF Part

LEMMA PartAll ==
  ASSUME NEW ix, Stored(ix)
  PROVE  AllContexts(ix) = Part(ix, ShownAll)
<1> DEFINE v == Views(ix)
           L == LiveContexts(ix)
           K == {i \in L : v[i] \in ShownAll}
<1>1. v \in Seq(ShownAll) /\ AllContexts(ix) = Listed(v, L)
  BY ViewsSeq, AllContextsAre
<1>2. \A m \in 1..Len(v) : m \in L <=> m \in K
  BY <1>1
<1> HIDE DEF v, L, K
<1>3. Listed(v, L) = Listed(v, K)
  BY <1>1, <1>2, ListedSame
<1> QED BY <1>1, <1>3 DEF Part, v, L, K

LEMMA PartOfPart ==
  ASSUME NEW ix, Stored(ix), NEW P, NEW Q
  PROVE  Listed(Part(ix, P), Where(Part(ix, P), Q)) = Part(ix, P \cap Q)
<1> DEFINE v == Views(ix)
           L == LiveContexts(ix)
           I == {i \in L : v[i] \in P}
           J == I \cap Where(v, Q)
           K == {i \in L : v[i] \in P \cap Q}
<1>1. v \in Seq(ShownAll)
  BY ViewsSeq
<1>2. Part(ix, P) = Listed(v, I) /\ Part(ix, P \cap Q) = Listed(v, K)
  BY DEF Part
<1>3. \A m \in 1..Len(v) : m \in J <=> m \in K
  BY <1>1 DEF Where
<1> HIDE DEF v, I, J, K
<1>4. Listed(Listed(v, I), Where(Listed(v, I), Q)) = Listed(v, J)
  BY <1>1, ListedTwice DEF J
<1>5. Listed(v, J) = Listed(v, K)
  BY <1>1, <1>3, ListedSame
<1> QED BY <1>2, <1>4, <1>5

LEMMA PartListed ==
  ASSUME NEW ix, Stored(ix), NEW P
  PROVE  MaterializeLive(ix, PartIndices(ix, P)) = Part(ix, P)
<1> DEFINE A == {i \in LiveContexts(ix) : Views(ix)[i] \in P}
<1>1. A \subseteq LiveContexts(ix)
  OBVIOUS
<1> HIDE DEF A
<1>2. MaterializeLive(ix, InOrder(A, Len(ix.contexts))) = Listed(Views(ix), A)
  BY <1>1, MaterializeListed
<1> QED BY <1>2 DEF A, Part, PartIndices

(* The views of the places: what a stored context refers to.                 *)
LEMMA ViewOf ==
  ASSUME NEW ix, Good(ix), NEW i \in LiveContexts(ix), NEW se, se = ix.contexts[i],
         NEW x, x = Views(ix)[i]
  PROVE  /\ x \in ShownAll
         /\ {se.callee, se.caller, se.calleeDisplay, se.callerDisplay, se.site} \subseteq DOMAIN ix.strings
         /\ x.callee = ix.strings[se.callee] /\ x.calleeName = ix.strings[se.calleeDisplay]
         /\ x.caller = ix.strings[se.caller] /\ x.callerName = ix.strings[se.callerDisplay]
         /\ x.site = ix.strings[se.site]
         /\ x.callee \in Fns /\ x.calleeName = display[x.callee]
         /\ x.caller \in Fns /\ x.callerName = display[x.caller]
         /\ (x.scopes = << >>) = (se.scopeSet = EmptySet)
<1>1. i \in DOMAIN ix.contexts /\ Entry(ix, se) /\ Shows(ix, se) /\ x = View(ix, se)
  BY DEF Good, Stored, LiveContexts, Views
<1>2. /\ x.callee = ix.strings[se.callee] /\ x.calleeName = ix.strings[se.calleeDisplay]
      /\ x.caller = ix.strings[se.caller] /\ x.callerName = ix.strings[se.callerDisplay]
      /\ x.site = ix.strings[se.site] /\ x.scopes = ix.scopeSets[se.scopeSet]
  <2>1. x.callee = ix.strings[se.callee] /\ x.calleeName = ix.strings[se.calleeDisplay]
    BY <1>1, ViewFields
  <2>2. x.caller = ix.strings[se.caller] /\ x.callerName = ix.strings[se.callerDisplay]
    BY <1>1, ViewFields
  <2>3. x.site = ix.strings[se.site] /\ x.scopes = ix.scopeSets[se.scopeSet]
    BY <1>1, ViewFields
  <2> QED BY <2>1, <2>2, <2>3
<1>3. x \in ShownAll
  BY <1>1 DEF Shows
<1>4. {se.callee, se.caller, se.calleeDisplay, se.callerDisplay, se.site} \subseteq DOMAIN ix.strings
  BY <1>1 DEF Entry
<1>5. /\ ix.strings[se.callee] \in Fns /\ ix.strings[se.caller] \in Fns
      /\ ix.strings[se.calleeDisplay] = display[ix.strings[se.callee]]
      /\ ix.strings[se.callerDisplay] = display[ix.strings[se.caller]]
  BY <1>1, ShownFns
<1>6. (x.scopes = << >>) = (se.scopeSet = EmptySet)
  <2>1. se.scopeSet \in DOMAIN ix.scopeSets
    BY <1>1 DEF Entry
  <2>2. IsTable(ix.scopeSets) /\ EmptySet \in DOMAIN ix.scopeSets /\ ix.scopeSets[EmptySet] = << >>
    BY DEF Good, Tables
  <2>3. ix.scopeSets[se.scopeSet] = << >> <=> se.scopeSet = EmptySet
    BY <2>1, <2>2 DEF IsTable
  <2> QED BY <1>2, <2>3
<1> QED BY <1>2, <1>3, <1>4, <1>5, <1>6

(* An id and its string.                                                     *)
LEMMA StringIs ==
  ASSUME NEW ix, Good(ix), NEW name, Contains(ix.strings, name), NEW id, id = IdOf(ix.strings, name)
  PROVE  id \in DOMAIN ix.strings /\ \A k \in DOMAIN ix.strings : ix.strings[k] = name <=> k = id
<1>1. IsTable(ix.strings)
  BY DEF Good, Tables
<1>2. In(name, ix.strings)
  BY <1>1, ContainsIn
<1>3. id \in DOMAIN ix.strings /\ ix.strings[id] = name
  BY <1>2, IdFacts
<1> QED BY <1>1, <1>3 DEF IsTable

LEMMA StringNot ==
  ASSUME NEW ix, Good(ix), NEW name, ~Contains(ix.strings, name)
  PROVE  \A k \in DOMAIN ix.strings : ix.strings[k] # name
<1>1. IsTable(ix.strings)
  BY DEF Good, Tables
<1>2. ~In(name, ix.strings)
  BY <1>1, ContainsIn
<1> QED BY <1>2 DEF In

(* indicesFor names the live contexts that carry the name.                   *)
LEMMA CalleeIndicesAre ==
  ASSUME NEW ix, Good(ix), NEW name
  PROVE  CalleeIndices(ix, name) = PartIndices(ix, Called(name))
<1> DEFINE n == Len(ix.contexts)
           L == LiveContexts(ix)
           v == Views(ix)
           B == {i \in L : v[i] \in Called(name)}
<1>1. n \in Nat
  BY DEF Good, Stored
<1>2. ASSUME NEW i \in L
      PROVE  v[i] \in Called(name) <=> name = v[i].callee \/ name = v[i].calleeName
  <2>1. v[i] \in ShownAll
    BY ViewOf
  <2> QED BY <2>1 DEF Called
<1>3. CASE ~Contains(ix.strings, name)
  <2>1. \A k \in DOMAIN ix.strings : ix.strings[k] # name
    BY <1>3, StringNot
  <2>2. ASSUME NEW i \in L PROVE i \notin B
    <3>1. v[i].callee # name /\ v[i].calleeName # name
      BY <2>1, ViewOf
    <3> QED BY <1>2, <3>1
  <2>3. \A m \in 1..n : m \notin B
    BY <2>2
  <2> HIDE DEF B
  <2>4. InOrder(B, n) = << >>
    BY <1>1, <2>3, InOrderEmpty
  <2> QED BY <1>3, <2>4 DEF B, CalleeIndices, IndicesFor, PartIndices
<1>4. CASE Contains(ix.strings, name)
  <2>1. PICK id : id = IdOf(ix.strings, name)
    OBVIOUS
  <2>2. id \in DOMAIN ix.strings /\ \A k \in DOMAIN ix.strings : ix.strings[k] = name <=> k = id
    BY <1>4, <2>1, StringIs
  <2>3. ASSUME NEW i \in L
        PROVE  /\ v[i] \in Called(name) <=> ix.contexts[i].callee = id \/ ix.contexts[i].calleeDisplay = id
               /\ ix.contexts[i].calleeDisplay = id /\ name \in Fns => ix.contexts[i].callee = id
    <3>1. PICK se : se = ix.contexts[i]
      OBVIOUS
    <3>2. /\ se.callee \in DOMAIN ix.strings /\ se.calleeDisplay \in DOMAIN ix.strings
          /\ v[i].callee = ix.strings[se.callee] /\ v[i].calleeName = ix.strings[se.calleeDisplay]
          /\ v[i].callee \in Fns /\ v[i].calleeName = display[v[i].callee]
      BY <3>1, ViewOf
    <3>3. v[i].calleeName = name /\ name \in Fns => v[i].callee = name
      BY <3>2, NamesAssumption
    <3> QED BY <1>2, <2>2, <3>1, <3>2, <3>3
  <2>4. CASE id \in DOMAIN ix.byCallee
    <3>1. name \in Fns
      <4>1. ix.strings[id] = name /\ ix.strings[id] \in Fns
        BY <2>2, <2>4 DEF Good, Lists, UsrKeys
      <4> QED BY <4>1
    <3>2. CalleeIndices(ix, name) = At(ix.byCallee, id)
      BY <1>4, <2>1, <2>4 DEF CalleeIndices, IndicesFor, At
    <3>3. At(ix.byCallee, id) = InOrder(ByCallee(ix, id), n)
      BY DEF Good, Lists, CalleesListed
    <3>4. \A m \in 1..n : m \in ByCallee(ix, id) <=> m \in B
      BY <2>3, <3>1 DEF ByCallee
    <3> HIDE DEF B
    <3>5. InOrder(ByCallee(ix, id), n) = InOrder(B, n)
      BY <1>1, <3>4, InOrderSame
    <3> QED BY <3>2, <3>3, <3>5 DEF B, PartIndices
  <2>5. CASE id \notin DOMAIN ix.byCallee
    <3>1. CalleeIndices(ix, name) = At(ix.byCalleeDisplay, id)
      BY <1>4, <2>1, <2>5 DEF CalleeIndices, IndicesFor
    <3>2. At(ix.byCalleeDisplay, id) = InOrder(ByCalleeDisplay(ix, id), n)
      BY DEF Good, Lists, CalleeNamesListed
    <3>3. \A i \in L : i \in 1..n /\ ix.contexts[i].callee # id
      <4>1. InOrder(ByCallee(ix, id), n) = << >>
        <5>1. At(ix.byCallee, id) = InOrder(ByCallee(ix, id), n)
          BY DEF Good, Lists, CalleesListed
        <5> QED BY <2>5, <5>1 DEF At
      <4>2. DOMAIN << >> = {}
        OBVIOUS
      <4>3. \A i : i \in 1..n => i \notin ByCallee(ix, id)
        BY <1>1, <4>1, <4>2, InOrderPlaces
      <4>4. \A i \in L : i \in 1..n
        BY EntriesAre DEF Good
      <4> QED BY <4>3, <4>4 DEF ByCallee
    <3>4. \A m \in 1..n : m \in ByCalleeDisplay(ix, id) <=> m \in B
      BY <2>3, <3>3 DEF ByCalleeDisplay
    <3> HIDE DEF B
    <3>5. InOrder(ByCalleeDisplay(ix, id), n) = InOrder(B, n)
      BY <1>1, <3>4, InOrderSame
    <3> QED BY <3>1, <3>2, <3>5 DEF B, PartIndices
  <2> QED BY <2>4, <2>5
<1> QED BY <1>3, <1>4

LEMMA CallerIndicesAre ==
  ASSUME NEW ix, Good(ix), NEW name
  PROVE  CallerIndices(ix, name) = PartIndices(ix, Calling(name))
<1> DEFINE n == Len(ix.contexts)
           L == LiveContexts(ix)
           v == Views(ix)
           B == {i \in L : v[i] \in Calling(name)}
<1>1. n \in Nat
  BY DEF Good, Stored
<1>2. ASSUME NEW i \in L
      PROVE  v[i] \in Calling(name) <=> name = v[i].caller \/ name = v[i].callerName
  <2>1. v[i] \in ShownAll
    BY ViewOf
  <2> QED BY <2>1 DEF Calling
<1>3. CASE ~Contains(ix.strings, name)
  <2>1. \A k \in DOMAIN ix.strings : ix.strings[k] # name
    BY <1>3, StringNot
  <2>2. ASSUME NEW i \in L PROVE i \notin B
    <3>1. v[i].caller # name /\ v[i].callerName # name
      BY <2>1, ViewOf
    <3> QED BY <1>2, <3>1
  <2>3. \A m \in 1..n : m \notin B
    BY <2>2
  <2> HIDE DEF B
  <2>4. InOrder(B, n) = << >>
    BY <1>1, <2>3, InOrderEmpty
  <2> QED BY <1>3, <2>4 DEF B, CallerIndices, IndicesFor, PartIndices
<1>4. CASE Contains(ix.strings, name)
  <2>1. PICK id : id = IdOf(ix.strings, name)
    OBVIOUS
  <2>2. id \in DOMAIN ix.strings /\ \A k \in DOMAIN ix.strings : ix.strings[k] = name <=> k = id
    BY <1>4, <2>1, StringIs
  <2>3. ASSUME NEW i \in L
        PROVE  /\ v[i] \in Calling(name) <=> ix.contexts[i].caller = id \/ ix.contexts[i].callerDisplay = id
               /\ ix.contexts[i].callerDisplay = id /\ name \in Fns => ix.contexts[i].caller = id
    <3>1. PICK se : se = ix.contexts[i]
      OBVIOUS
    <3>2. /\ se.caller \in DOMAIN ix.strings /\ se.callerDisplay \in DOMAIN ix.strings
          /\ v[i].caller = ix.strings[se.caller] /\ v[i].callerName = ix.strings[se.callerDisplay]
          /\ v[i].caller \in Fns /\ v[i].callerName = display[v[i].caller]
      BY <3>1, ViewOf
    <3>3. v[i].callerName = name /\ name \in Fns => v[i].caller = name
      BY <3>2, NamesAssumption
    <3> QED BY <1>2, <2>2, <3>1, <3>2, <3>3
  <2>4. CASE id \in DOMAIN ix.byCaller
    <3>1. name \in Fns
      <4>1. ix.strings[id] = name /\ ix.strings[id] \in Fns
        BY <2>2, <2>4 DEF Good, Lists, UsrKeys
      <4> QED BY <4>1
    <3>2. CallerIndices(ix, name) = At(ix.byCaller, id)
      BY <1>4, <2>1, <2>4 DEF CallerIndices, IndicesFor, At
    <3>3. At(ix.byCaller, id) = InOrder(ByCaller(ix, id), n)
      BY DEF Good, Lists, CallersListed
    <3>4. \A m \in 1..n : m \in ByCaller(ix, id) <=> m \in B
      BY <2>3, <3>1 DEF ByCaller
    <3> HIDE DEF B
    <3>5. InOrder(ByCaller(ix, id), n) = InOrder(B, n)
      BY <1>1, <3>4, InOrderSame
    <3> QED BY <3>2, <3>3, <3>5 DEF B, PartIndices
  <2>5. CASE id \notin DOMAIN ix.byCaller
    <3>1. CallerIndices(ix, name) = At(ix.byCallerDisplay, id)
      BY <1>4, <2>1, <2>5 DEF CallerIndices, IndicesFor
    <3>2. At(ix.byCallerDisplay, id) = InOrder(ByCallerDisplay(ix, id), n)
      BY DEF Good, Lists, CallerNamesListed
    <3>3. \A i \in L : i \in 1..n /\ ix.contexts[i].caller # id
      <4>1. InOrder(ByCaller(ix, id), n) = << >>
        <5>1. At(ix.byCaller, id) = InOrder(ByCaller(ix, id), n)
          BY DEF Good, Lists, CallersListed
        <5> QED BY <2>5, <5>1 DEF At
      <4>2. DOMAIN << >> = {}
        OBVIOUS
      <4>3. \A i : i \in 1..n => i \notin ByCaller(ix, id)
        BY <1>1, <4>1, <4>2, InOrderPlaces
      <4>4. \A i \in L : i \in 1..n
        BY EntriesAre DEF Good
      <4> QED BY <4>3, <4>4 DEF ByCaller
    <3>4. \A m \in 1..n : m \in ByCallerDisplay(ix, id) <=> m \in B
      BY <2>3, <3>3 DEF ByCallerDisplay
    <3> HIDE DEF B
    <3>5. InOrder(ByCallerDisplay(ix, id), n) = InOrder(B, n)
      BY <1>1, <3>4, InOrderSame
    <3> QED BY <3>1, <3>2, <3>5 DEF B, PartIndices
  <2> QED BY <2>4, <2>5
<1> QED BY <1>3, <1>4

LEMMA SiteIndicesAre ==
  ASSUME NEW ix, Good(ix), NEW site
  PROVE  SiteIndices(ix, site) = PartIndices(ix, OnSite(site))
<1> DEFINE n == Len(ix.contexts)
           L == LiveContexts(ix)
           v == Views(ix)
           B == {i \in L : v[i] \in OnSite(site)}
<1>1. n \in Nat
  BY DEF Good, Stored
<1>2. ASSUME NEW i \in L
      PROVE  /\ v[i] \in OnSite(site) <=> v[i].site = site
             /\ ix.contexts[i].site \in DOMAIN ix.strings
             /\ v[i].site = ix.strings[ix.contexts[i].site]
  <2>1. PICK se, x : se = ix.contexts[i] /\ x = v[i]
    OBVIOUS
  <2>2. x \in ShownAll /\ se.site \in DOMAIN ix.strings /\ x.site = ix.strings[se.site]
    BY <2>1, ViewOf
  <2> QED BY <2>1, <2>2 DEF OnSite
<1>3. CASE ~Contains(ix.strings, site)
  <2>1. \A k \in DOMAIN ix.strings : ix.strings[k] # site
    BY <1>3, StringNot
  <2>2. \A m \in 1..n : m \notin B
    BY <1>2, <2>1
  <2> HIDE DEF B
  <2>3. InOrder(B, n) = << >>
    BY <1>1, <2>2, InOrderEmpty
  <2> QED BY <1>3, <2>3 DEF B, SiteIndices, PartIndices
<1>4. CASE Contains(ix.strings, site)
  <2>1. PICK id : id = IdOf(ix.strings, site)
    OBVIOUS
  <2>2. id \in DOMAIN ix.strings /\ \A k \in DOMAIN ix.strings : ix.strings[k] = site <=> k = id
    BY <1>4, <2>1, StringIs
  <2>3. SiteIndices(ix, site) = At(ix.bySite, id)
    BY <1>4, <2>1 DEF SiteIndices
  <2>4. At(ix.bySite, id) = InOrder(BySite(ix, id), n)
    BY DEF Good, Lists, SitesListed
  <2>5. \A m \in 1..n : m \in BySite(ix, id) <=> m \in B
    BY <1>2, <2>2 DEF BySite
  <2> HIDE DEF B
  <2>6. InOrder(BySite(ix, id), n) = InOrder(B, n)
    BY <1>1, <2>5, InOrderSame
  <2> QED BY <2>3, <2>4, <2>6 DEF B, PartIndices
<1> QED BY <1>3, <1>4

(* The scans of all contexts, and of a part.                                 *)
Scans(K, a, Q) ==
  K \subseteq DOMAIN a /\ \A k \in DOMAIN a : a[k] \in ShownAll => (k \in K <=> a[k] \in Q)

LEMMA ScanPart ==
  ASSUME NEW ix, Good(ix), NEW P, NEW Q, Q \subseteq ShownAll, NEW a, a = Part(ix, P),
         NEW K, Scans(K, a, Q)
  PROVE  Listed(a, K) = Part(ix, P \cap Q)
<1>1. Stored(ix)
  BY DEF Good
<1>2. a \in Seq(ShownAll)
  BY <1>1, PartType
<1>3. K = Where(a, Q)
  BY <1>2 DEF Where, Scans
<1>4. Listed(a, Where(a, Q)) = Part(ix, P \cap Q)
  BY <1>1, PartOfPart
<1> QED BY <1>3, <1>4

LEMMA ScanAll ==
  ASSUME NEW ix, Good(ix), NEW Q, Q \subseteq ShownAll, NEW a, a = AllContexts(ix),
         NEW K, Scans(K, a, Q)
  PROVE  Listed(a, K) = Part(ix, Q)
<1>1. a = Part(ix, ShownAll)
  BY PartAll DEF Good
<1>2. Listed(a, K) = Part(ix, ShownAll \cap Q)
  BY <1>1, ScanPart
<1>3. ShownAll \cap Q = Q
  OBVIOUS
<1> QED BY <1>2, <1>3

Tests(ix, s, K, Q) ==
  /\ K \subseteq DOMAIN s
  /\ \A k \in DOMAIN s : s[k] \in LiveContexts(ix) => (k \in K <=> Views(ix)[s[k]] \in Q)

LEMMA FilteredIndices ==
  ASSUME NEW ix, Good(ix), NEW P, NEW Q,
         NEW s, s = PartIndices(ix, P), NEW K, Tests(ix, s, K, Q)
  PROVE  MaterializeLive(ix, Listed(s, K)) = Part(ix, P \cap Q)
<1> DEFINE L == LiveContexts(ix)
           v == Views(ix)
           A == {i \in L : v[i] \in P}
           B == {i \in L : v[i] \in P \cap Q}
           J == {i \in L : v[i] \in Q}
           n == Len(ix.contexts)
<1>1. n \in Nat /\ Stored(ix)
  BY DEF Good, Stored
<1>2. s = InOrder(A, n) /\ PartIndices(ix, P \cap Q) = InOrder(B, n)
  BY DEF PartIndices
<1>3. MaterializeLive(ix, PartIndices(ix, P \cap Q)) = Part(ix, P \cap Q)
  BY <1>1, PartListed
<1>4. \A m \in 1..n : m \in A \cap J <=> m \in B
  OBVIOUS
<1>5. K = Where(s, J)
  <2>1. \A k \in DOMAIN s : s[k] \in A
    <3> HIDE DEF A, n
    <3> QED BY <1>1, <1>2, InOrderType
  <2> QED BY <2>1 DEF Where, Tests
<1> HIDE DEF A, B, J, n
<1>6. Listed(InOrder(A, n), Where(InOrder(A, n), J)) = InOrder(A \cap J, n)
  BY <1>1, InOrderOnly
<1>7. InOrder(A \cap J, n) = InOrder(B, n)
  BY <1>1, <1>4, InOrderSame
<1> QED BY <1>2, <1>3, <1>5, <1>6, <1>7

LEMMA CalleeAnswers ==
  ASSUME NEW ix, Good(ix), NEW n
  PROVE  /\ ContextsForCallee(ix, n) = Part(ix, Called(n))
         /\ ProtectedCallsTo(ix, n) = Part(ix, Called(n) \cap Tried)
         /\ UnprotectedCallsTo(ix, n) = Part(ix, Called(n) \cap Untried)
<1> DEFINE s == CalleeIndices(ix, n)
           K1 == {k \in DOMAIN s : ix.contexts[s[k]].scopeSet # EmptySet}
           K2 == {k \in DOMAIN s : ix.contexts[s[k]].scopeSet = EmptySet}
<1>1. s = PartIndices(ix, Called(n))
  BY CalleeIndicesAre
<1>2. ContextsForCallee(ix, n) = Part(ix, Called(n))
  <2>1. Stored(ix)
    BY DEF Good
  <2> QED BY <1>1, <2>1, PartListed DEF ContextsForCallee
<1>3. ASSUME NEW k \in DOMAIN s, s[k] \in LiveContexts(ix)
      PROVE  /\ k \in K1 <=> Views(ix)[s[k]] \in Tried
             /\ k \in K2 <=> Views(ix)[s[k]] \in Untried
  <2>1. PICK i, se, x : /\ i \in LiveContexts(ix) /\ i = s[k]
                        /\ se = ix.contexts[i] /\ x = Views(ix)[i]
    BY <1>3
  <2>2. x \in ShownAll /\ (x.scopes = << >>) = (se.scopeSet = EmptySet)
    BY <2>1, ViewOf
  <2> QED BY <1>3, <2>1, <2>2 DEF Tried, Untried
<1>4. K1 \subseteq DOMAIN s /\ K2 \subseteq DOMAIN s
  OBVIOUS
<1>5. /\ ProtectedCallsTo(ix, n) = MaterializeLive(ix, Listed(s, K1))
      /\ UnprotectedCallsTo(ix, n) = MaterializeLive(ix, Listed(s, K2))
  BY DEF ProtectedCallsTo, UnprotectedCallsTo, Only
<1> HIDE DEF s, K1, K2
<1>6. Tests(ix, s, K1, Tried) /\ Tests(ix, s, K2, Untried)
  BY <1>3, <1>4 DEF Tests
<1>7. MaterializeLive(ix, Listed(s, K1)) = Part(ix, Called(n) \cap Tried)
  BY <1>1, <1>6, FilteredIndices
<1>8. MaterializeLive(ix, Listed(s, K2)) = Part(ix, Called(n) \cap Untried)
  BY <1>1, <1>6, FilteredIndices
<1> QED BY <1>2, <1>5, <1>7, <1>8

LEMMA CallerAnswers ==
  ASSUME NEW ix, Good(ix), NEW n
  PROVE  ContextsForCaller(ix, n) = Part(ix, Calling(n))
<1>1. Stored(ix)
  BY DEF Good
<1>2. CallerIndices(ix, n) = PartIndices(ix, Calling(n))
  BY CallerIndicesAre
<1> QED BY <1>1, <1>2, PartListed DEF ContextsForCaller

LEMMA SiteAnswers ==
  ASSUME NEW ix, Good(ix), NEW site, NEW n
  PROVE  /\ ContextsAtSite(ix, site) = Part(ix, OnSite(site))
         /\ ContextAtSiteIn(ix, site, n) = FirstOf(Part(ix, OnSite(site) \cap Calling(n)))
<1> DEFINE s == SiteIndices(ix, site)
           id == IdOf(ix.strings, n)
           K == {k \in DOMAIN s : id \in {ix.contexts[s[k]].caller, ix.contexts[s[k]].callerDisplay}}
<1>0. Stored(ix)
  BY DEF Good
<1>1. s = PartIndices(ix, OnSite(site))
  BY SiteIndicesAre
<1>2. ContextsAtSite(ix, site) = Part(ix, OnSite(site))
  BY <1>0, <1>1, PartListed DEF ContextsAtSite
<1>3. ASSUME NEW i \in LiveContexts(ix)
      PROVE  /\ Views(ix)[i] \in Calling(n) <=> n \in {Views(ix)[i].caller, Views(ix)[i].callerName}
             /\ {ix.contexts[i].caller, ix.contexts[i].callerDisplay} \subseteq DOMAIN ix.strings
             /\ Views(ix)[i].caller = ix.strings[ix.contexts[i].caller]
             /\ Views(ix)[i].callerName = ix.strings[ix.contexts[i].callerDisplay]
  <2>1. PICK se, x : se = ix.contexts[i] /\ x = Views(ix)[i]
    OBVIOUS
  <2>2. /\ x \in ShownAll /\ {se.caller, se.callerDisplay} \subseteq DOMAIN ix.strings
        /\ x.caller = ix.strings[se.caller] /\ x.callerName = ix.strings[se.callerDisplay]
    BY <2>1, ViewOf
  <2> QED BY <2>1, <2>2 DEF Calling
<1>4. CASE ~Contains(ix.strings, n)
  <2>1. \A k \in DOMAIN ix.strings : ix.strings[k] # n
    BY <1>4, StringNot
  <2>2. \A i \in LiveContexts(ix) : Views(ix)[i] \notin Calling(n)
    BY <1>3, <2>1
  <2> DEFINE B == {i \in LiveContexts(ix) : Views(ix)[i] \in OnSite(site) \cap Calling(n)}
  <2>3. \A m \in 1..Len(ix.contexts) : m \notin B
    BY <2>2
  <2>4. MaterializeLive(ix, InOrder(B, Len(ix.contexts))) = Part(ix, OnSite(site) \cap Calling(n))
    BY <1>0, PartListed DEF PartIndices
  <2> HIDE DEF B
  <2>5. InOrder(B, Len(ix.contexts)) = << >>
    BY <1>0, <2>3, InOrderEmpty DEF Stored
  <2>6. MaterializeLive(ix, << >>) = << >>
    <3> DEFINE e == << >>
               E == {k \in DOMAIN e : e[k] \in LiveContexts(ix)}
               l == Listed(e, E)
    <3>1. MaterializeLive(ix, e) = [k \in DOMAIN l |-> Materialize(ix, l[k])]
      BY DEF MaterializeLive, Only
    <3>2. l = << >>
      <4> HIDE DEF E
      <4> QED BY ListedEmpty
    <3> HIDE DEF l
    <3>3. [k \in DOMAIN l |-> Materialize(ix, l[k])] = << >>
      BY <3>2
    <3> QED BY <3>1, <3>3
  <2> QED BY <1>2, <1>4, <2>4, <2>5, <2>6 DEF ContextAtSiteIn, FirstOf
<1>5. CASE Contains(ix.strings, n)
  <2>1. id \in DOMAIN ix.strings /\ \A k \in DOMAIN ix.strings : ix.strings[k] = n <=> k = id
    BY <1>5, StringIs
  <2>2. K \subseteq DOMAIN s
    OBVIOUS
  <2>3. \A k \in DOMAIN s : s[k] \in LiveContexts(ix) => (k \in K <=> Views(ix)[s[k]] \in Calling(n))
    <3> HIDE DEF s, id
    <3> QED BY <1>3, <2>1
  <2>4. ContextAtSiteIn(ix, site, n) = FirstOf(MaterializeLive(ix, Listed(s, K)))
    BY <1>5 DEF ContextAtSiteIn, Only
  <2> HIDE DEF s, K, id
  <2>5. Tests(ix, s, K, Calling(n))
    BY <2>2, <2>3 DEF Tests
  <2>6. MaterializeLive(ix, Listed(s, K)) = Part(ix, OnSite(site) \cap Calling(n))
    BY <1>1, <2>5, FilteredIndices
  <2> QED BY <1>2, <2>4, <2>6
<1> QED BY <1>2, <1>4, <1>5

LEMMA ContextsAnswered ==
  ASSUME NEW ix, Good(ix)
  PROVE  ContextLookupsExact(ix)
<1> DEFINE a == AllContexts(ix)
<1>1. ASSUME NEW n
      PROVE  CalledAs(a, n) = Part(ix, Called(n))
  <2> DEFINE p == a
             K == {k \in DOMAIN p : n \in {p[k].callee, p[k].calleeName}}
  <2>1. CalledAs(a, n) = Listed(p, K)
    BY DEF Only, CalledAs
  <2>2. Scans(K, p, Called(n)) /\ Called(n) \subseteq ShownAll
    BY DEF Scans, Called
  <2> HIDE DEF K
  <2> QED BY <2>1, <2>2, ScanAll
<1>2. ASSUME NEW n
      PROVE  CallingAs(a, n) = Part(ix, Calling(n))
  <2> DEFINE p == a
             K == {k \in DOMAIN p : n \in {p[k].caller, p[k].callerName}}
  <2>1. CallingAs(a, n) = Listed(p, K)
    BY DEF Only, CallingAs
  <2>2. Scans(K, p, Calling(n)) /\ Calling(n) \subseteq ShownAll
    BY DEF Scans, Calling
  <2> HIDE DEF K
  <2> QED BY <2>1, <2>2, ScanAll
<1>3. ASSUME NEW s
      PROVE  MadeAt(a, s) = Part(ix, OnSite(s))
  <2> DEFINE p == a
             K == {k \in DOMAIN p : p[k].site = s}
  <2>1. MadeAt(a, s) = Listed(p, K)
    BY DEF Only, MadeAt
  <2>2. Scans(K, p, OnSite(s)) /\ OnSite(s) \subseteq ShownAll
    BY DEF Scans, OnSite
  <2> HIDE DEF K
  <2> QED BY <2>1, <2>2, ScanAll
<1> HIDE DEF a
<1>4. ASSUME NEW n
      PROVE  InTries(CalledAs(a, n)) = Part(ix, Called(n) \cap Tried)
  <2> DEFINE p == CalledAs(a, n)
             K == {k \in DOMAIN p : p[k].scopes # <<>>}
  <2>1. InTries(CalledAs(a, n)) = Listed(p, K)
    BY DEF Only, InTries
  <2>2. Scans(K, p, Tried) /\ Tried \subseteq ShownAll
    BY DEF Scans, Tried
  <2> HIDE DEF K
  <2> QED BY <2>1, <2>2, <1>1, ScanPart
<1>5. ASSUME NEW n
      PROVE  OutsideTries(CalledAs(a, n)) = Part(ix, Called(n) \cap Untried)
  <2> DEFINE p == CalledAs(a, n)
             K == {k \in DOMAIN p : p[k].scopes = <<>>}
  <2>1. OutsideTries(CalledAs(a, n)) = Listed(p, K)
    BY DEF Only, OutsideTries
  <2>2. Scans(K, p, Untried) /\ Untried \subseteq ShownAll
    BY DEF Scans, Untried
  <2> HIDE DEF K
  <2> QED BY <2>1, <2>2, <1>1, ScanPart
<1>6. ASSUME NEW s, NEW n
      PROVE  CallingAs(MadeAt(a, s), n) = Part(ix, OnSite(s) \cap Calling(n))
  <2> DEFINE p == MadeAt(a, s)
             K == {k \in DOMAIN p : n \in {p[k].caller, p[k].callerName}}
  <2>1. CallingAs(MadeAt(a, s), n) = Listed(p, K)
    BY DEF Only, CallingAs
  <2>2. Scans(K, p, Calling(n)) /\ Calling(n) \subseteq ShownAll
    BY DEF Scans, Calling
  <2> HIDE DEF K
  <2> QED BY <2>1, <2>2, <1>3, ScanPart
<1>7. ASSUME NEW n
      PROVE  /\ ContextsForCallee(ix, n) = CalledAs(a, n)
             /\ ContextsForCaller(ix, n) = CallingAs(a, n)
             /\ ProtectedCallsTo(ix, n) = InTries(CalledAs(a, n))
             /\ UnprotectedCallsTo(ix, n) = OutsideTries(CalledAs(a, n))
  <2>1. ContextsForCallee(ix, n) = Part(ix, Called(n))
    BY CalleeAnswers
  <2>2. ProtectedCallsTo(ix, n) = Part(ix, Called(n) \cap Tried)
    BY CalleeAnswers
  <2>3. UnprotectedCallsTo(ix, n) = Part(ix, Called(n) \cap Untried)
    BY CalleeAnswers
  <2>4. ContextsForCaller(ix, n) = Part(ix, Calling(n))
    BY CallerAnswers
  <2>5. CalledAs(a, n) = Part(ix, Called(n)) /\ CallingAs(a, n) = Part(ix, Calling(n))
    BY <1>1, <1>2
  <2>6. InTries(CalledAs(a, n)) = Part(ix, Called(n) \cap Tried)
    BY <1>4
  <2>7. OutsideTries(CalledAs(a, n)) = Part(ix, Called(n) \cap Untried)
    BY <1>5
  <2> HIDE DEF a
  <2> QED BY <2>1, <2>2, <2>3, <2>4, <2>5, <2>6, <2>7
<1>8. ASSUME NEW s, NEW n
      PROVE  ContextAtSiteIn(ix, s, n) = FirstOf(CallingAs(MadeAt(a, s), n))
  <2>1. ContextAtSiteIn(ix, s, n) = FirstOf(Part(ix, OnSite(s) \cap Calling(n)))
    BY SiteAnswers
  <2>2. CallingAs(MadeAt(a, s), n) = Part(ix, OnSite(s) \cap Calling(n))
    BY <1>6
  <2> QED BY <2>1, <2>2
<1>9. ASSUME NEW s
      PROVE  ContextsAtSite(ix, s) = MadeAt(a, s) /\ ContextAtSite(ix, s) = FirstOf(MadeAt(a, s))
  BY <1>3, SiteAnswers DEF ContextAtSite
<1> QED BY <1>7, <1>8, <1>9 DEF ContextLookupsExact, a

-----------------------------------------------------------------------------
(* The channel sites: what is stored.                                        *)

SiteFields ==
  {"sites", "index", "byChannel", "byFunctionUsr", "byFunctionDisplay", "byTu", "live"}
SiteRecords == [key : ChannelKeys, tu : TUs, refs : Nat, live : BOOLEAN]

(* Live places by channel, by function and by display name.                  *)
ByChannel(ch, c) == {i \in LiveSites(ch) : ch.sites[i].key.channel = c}
ByFunction(ch, f) == {i \in LiveSites(ch) : ch.sites[i].key.fn = f}
ByFunctionName(ch, n) ==
  {i \in LiveSites(ch) : display[ch.sites[i].key.fn] # ch.sites[i].key.fn
                         /\ display[ch.sites[i].key.fn] = n}

(* Each live site stands under its key, and nothing else does.               *)
KeysIndexed(ch) ==
  /\ \A k \in DOMAIN ch.index : ch.index[k] \in LiveSites(ch) /\ ch.sites[ch.index[k]].key = k
  /\ \A i \in LiveSites(ch) :
       ch.sites[i].key \in DOMAIN ch.index /\ ch.index[ch.sites[i].key] = i

ChannelsListed(ch) ==
  \A c : AtKey(ch.byChannel, c) = InOrder(ByChannel(ch, c), Len(ch.sites))
FunctionsListed(ch) ==
  \A f : AtKey(ch.byFunctionUsr, f) = InOrder(ByFunction(ch, f), Len(ch.sites))
FunctionNamesListed(ch) ==
  \A n : AtKey(ch.byFunctionDisplay, n) = InOrder(ByFunctionName(ch, n), Len(ch.sites))

SitesStored(ch) ==
  /\ DOMAIN ch = SiteFields
  /\ ch.sites \in Seq(SiteRecords)
  /\ ch.live = Cardinality(LiveSites(ch))
SitesGood(ch) ==
  /\ SitesStored(ch) /\ KeysIndexed(ch)
  /\ ChannelsListed(ch) /\ FunctionsListed(ch) /\ FunctionNamesListed(ch)

(* A live site has as many references as there are registrations of it.      *)
SitesHeld(ch) ==
  /\ ch.byTu \in [TUs -> Seq(LiveSites(ch))]
  /\ \A i \in LiveSites(ch) : ch.sites[i].refs = Registered(ch, TUs, i) /\ ch.sites[i].refs > 0

(* How often TU t registered the site with key k.                            *)
Noted(ch, k, t) == IF k \in DOMAIN ch.index THEN Times(ch.index[k], ch.byTu[t]) ELSE 0

LEMMA SitesAre ==
  ASSUME NEW ch, SitesStored(ch)
  PROVE  /\ Len(ch.sites) \in Nat /\ DOMAIN ch.sites = 1..Len(ch.sites)
         /\ LiveSites(ch) \subseteq 1..Len(ch.sites)
         /\ IsFiniteSet(LiveSites(ch)) /\ Cardinality(LiveSites(ch)) \in Nat
         /\ \A i \in DOMAIN ch.sites : ch.sites[i] \in SiteRecords
<1> DEFINE s == ch.sites
<1>1. s \in Seq(SiteRecords)
  BY DEF SitesStored
<1>2. Len(s) \in Nat /\ DOMAIN s = 1..Len(s) /\ \A i \in DOMAIN s : s[i] \in SiteRecords
  <2> HIDE DEF s
  <2> QED BY <1>1
<1>3. LiveSites(ch) \subseteq DOMAIN s
  BY DEF LiveSites
<1>4. IsFiniteSet(LiveSites(ch)) /\ Cardinality(LiveSites(ch)) \in Nat
  <2> HIDE DEF s
  <2> QED BY <1>1, <1>3, PlacesFinite
<1> QED BY <1>2, <1>3, <1>4

LEMMA SiteKeyFields ==
  ASSUME NEW k \in ChannelKeys
  PROVE  k.fn \in Fns
BY ChannelKeysAssumption

LEMMA SameMaps ==
  /\ \A map, k : AtKey(map, k) = At(map, k)
  /\ \A map, k, i : PushAt(map, k, i) = Push(map, k, i)
BY DEF AtKey, At, PushAt, Push

LEMMA EmptySitesOk == SitesGood(EmptyChannels) /\ SitesHeld(EmptyChannels)
<1> DEFINE e == EmptyChannels
<1>1. /\ DOMAIN e = SiteFields
      /\ e.sites = << >> /\ e.index = << >> /\ e.byChannel = << >> /\ e.byFunctionUsr = << >>
      /\ e.byFunctionDisplay = << >> /\ e.live = 0 /\ e.byTu = [t \in TUs |-> << >>]
  BY DEF EmptyChannels, SiteFields
<1> HIDE DEF e
<1>2. LiveSites(e) = {} /\ << >> \in Seq(SiteRecords) /\ Len(<< >>) = 0
  BY <1>1 DEF LiveSites
<1>3. SitesStored(e)
  BY <1>1, <1>2, FS_EmptySet DEF SitesStored
<1>4. KeysIndexed(e)
  BY <1>1, <1>2 DEF KeysIndexed
<1>5. \A I : InOrder(I, 0) = << >>
  BY InOrderSteps
<1>6. \A k : AtKey(<< >>, k) = << >>
  BY DEF AtKey
<1>7. ChannelsListed(e) /\ FunctionsListed(e) /\ FunctionNamesListed(e)
  BY <1>1, <1>2, <1>5, <1>6 DEF ChannelsListed, FunctionsListed, FunctionNamesListed
<1>8. SitesHeld(e)
  BY <1>1, <1>2 DEF SitesHeld
<1> QED BY <1>3, <1>4, <1>7, <1>8 DEF SitesGood, e

-----------------------------------------------------------------------------
(* addSite.                                                                  *)

(* What storing a new site changes.                                          *)
Stocked(ch, jx, k, tu, refs, i) ==
  /\ DOMAIN jx = SiteFields
  /\ jx.sites = Append(ch.sites, [key |-> k, tu |-> tu, refs |-> refs, live |-> TRUE])
  /\ jx.index = [x \in DOMAIN ch.index \cup {k} |-> IF x = k THEN i ELSE ch.index[x]]
  /\ jx.byChannel = Push(ch.byChannel, k.channel, i)
  /\ jx.byFunctionUsr = Push(ch.byFunctionUsr, k.fn, i)
  /\ jx.byFunctionDisplay = IF display[k.fn] # k.fn
                            THEN Push(ch.byFunctionDisplay, display[k.fn], i)
                            ELSE ch.byFunctionDisplay
  /\ jx.byTu = ch.byTu /\ jx.live = ch.live + 1

LEMMA StoreFields ==
  ASSUME NEW ch, DOMAIN ch = SiteFields, NEW k, NEW tu, NEW refs,
         NEW jx, jx = Store(ch, k, tu, refs)
  PROVE  Stocked(ch, jx, k, tu, refs, Len(ch.sites) + 1)
BY SameMaps DEF Store, SiteFields, Stocked

(* One more place at the end.                                                *)
OneMore(ch, jx, k, tu, refs, n) ==
  /\ n \in Nat /\ n = Len(ch.sites) /\ Len(jx.sites) = n + 1
  /\ DOMAIN ch.sites = 1..n /\ DOMAIN jx.sites = 1..n+1
  /\ \A i \in 1..n : jx.sites[i] = ch.sites[i]
  /\ jx.sites[n+1] = [key |-> k, tu |-> tu, refs |-> refs, live |-> TRUE]
  /\ LiveSites(jx) = LiveSites(ch) \cup {n+1}
  /\ LiveSites(ch) \subseteq 1..n

LEMMA StorePlaces ==
  ASSUME NEW ch, SitesStored(ch), NEW k, NEW tu, NEW refs,
         NEW jx, Stocked(ch, jx, k, tu, refs, Len(ch.sites) + 1)
  PROVE  OneMore(ch, jx, k, tu, refs, Len(ch.sites))
<1> DEFINE n == Len(ch.sites)
           s == ch.sites
           x == [key |-> k, tu |-> tu, refs |-> refs, live |-> TRUE]
           p == jx.sites
<1>1. n \in Nat /\ DOMAIN s = 1..n /\ s \in Seq(SiteRecords) /\ LiveSites(ch) \subseteq 1..n
  BY SitesAre DEF SitesStored
<1>2. p = Append(s, x) /\ x.live = TRUE
  BY DEF Stocked
<1>3. Len(p) = n + 1 /\ DOMAIN p = 1..n+1 /\ (\A i \in 1..n : p[i] = s[i]) /\ p[n+1] = x
  <2> HIDE DEF x, p
  <2> QED BY <1>1, <1>2
<1>4. LiveSites(jx) = LiveSites(ch) \cup {n+1}
  <2>1. LiveSites(jx) = {i \in DOMAIN p : p[i].live} /\ LiveSites(ch) = {i \in DOMAIN s : s[i].live}
    BY DEF LiveSites
  <2> HIDE DEF p, s, x, n
  <2> QED BY <1>1, <1>2, <1>3, <2>1
<1> QED BY <1>1, <1>3, <1>4 DEF OneMore

LEMMA StoreOk ==
  ASSUME NEW ch, SitesGood(ch), NEW k \in ChannelKeys, k \notin DOMAIN ch.index,
         NEW tu \in TUs, NEW refs \in Nat, NEW jx, jx = Store(ch, k, tu, refs)
  PROVE  SitesGood(jx)
<1>0. PICK n : n = Len(ch.sites)
  OBVIOUS
<1>1. SitesStored(ch) /\ KeysIndexed(ch) /\ ChannelsListed(ch) /\ FunctionsListed(ch) /\ FunctionNamesListed(ch)
  BY DEF SitesGood
<1>2. Stocked(ch, jx, k, tu, refs, n + 1)
  BY <1>0, <1>1, StoreFields DEF SitesStored
<1>3. OneMore(ch, jx, k, tu, refs, n)
  BY <1>0, <1>1, <1>2, StorePlaces
<1>4. PICK x : x = [key |-> k, tu |-> tu, refs |-> refs, live |-> TRUE]
  OBVIOUS
<1>5. /\ x.key = k /\ x \in SiteRecords
  BY <1>4 DEF SiteRecords
<1>6. /\ n \in Nat /\ Len(jx.sites) = n + 1 /\ Len(ch.sites) = n
      /\ DOMAIN ch.sites = 1..n /\ DOMAIN jx.sites = 1..n+1
      /\ \A i \in 1..n : jx.sites[i] = ch.sites[i]
      /\ jx.sites[n+1] = x
      /\ LiveSites(jx) = LiveSites(ch) \cup {n+1}
      /\ LiveSites(ch) \subseteq 1..n
  BY <1>3, <1>4 DEF OneMore
<1>7. SitesStored(jx)
  <2>1. jx.sites \in Seq(SiteRecords)
    <3>1. jx.sites = Append(ch.sites, x) /\ ch.sites \in Seq(SiteRecords)
      BY <1>1, <1>2, <1>4 DEF Stocked, SitesStored
    <3> QED BY <1>5, <3>1
  <2>2. jx.live = Cardinality(LiveSites(jx))
    <3>1. jx.live = ch.live + 1 /\ ch.live = Cardinality(LiveSites(ch))
      BY <1>1, <1>2 DEF Stocked, SitesStored
    <3>2. IsFiniteSet(LiveSites(ch)) /\ n + 1 \notin LiveSites(ch)
      BY <1>1, <1>6, SitesAre
    <3>3. Cardinality(LiveSites(ch) \cup {n+1}) = Cardinality(LiveSites(ch)) + 1
      BY <3>2, FS_AddElement
    <3> QED BY <1>6, <3>1, <3>3
  <2>3. DOMAIN jx = SiteFields
    BY <1>2 DEF Stocked
  <2> QED BY <2>1, <2>2, <2>3 DEF SitesStored
<1>8. KeysIndexed(jx)
  <2>1. jx.index = [y \in DOMAIN ch.index \cup {k} |-> IF y = k THEN n + 1 ELSE ch.index[y]]
    BY <1>2 DEF Stocked
  <2>2. \A y \in DOMAIN ch.index : ch.index[y] \in LiveSites(ch) /\ ch.sites[ch.index[y]].key = y
    BY <1>1 DEF KeysIndexed
  <2>3. \A i \in LiveSites(ch) : ch.sites[i].key \in DOMAIN ch.index /\ ch.index[ch.sites[i].key] = i
    BY <1>1 DEF KeysIndexed
  <2>4. ASSUME NEW y \in DOMAIN jx.index
        PROVE  jx.index[y] \in LiveSites(jx) /\ jx.sites[jx.index[y]].key = y
    <3>1. CASE y = k
      BY <1>5, <1>6, <2>1, <3>1
    <3>2. CASE y # k
      <4>1. y \in DOMAIN ch.index /\ jx.index[y] = ch.index[y]
        BY <2>1, <3>2
      <4>2. ch.index[y] \in LiveSites(ch) /\ ch.index[y] \in 1..n /\ ch.sites[ch.index[y]].key = y
        BY <1>6, <2>2, <4>1
      <4> QED BY <1>6, <4>1, <4>2
    <3> QED BY <3>1, <3>2
  <2>5. ASSUME NEW i \in LiveSites(jx)
        PROVE  jx.sites[i].key \in DOMAIN jx.index /\ jx.index[jx.sites[i].key] = i
    <3>1. CASE i = n + 1
      BY <1>5, <1>6, <2>1, <3>1
    <3>2. CASE i # n + 1
      <4>1. i \in LiveSites(ch) /\ jx.sites[i] = ch.sites[i]
        BY <1>6, <3>2
      <4>2. ch.sites[i].key \in DOMAIN ch.index /\ ch.index[ch.sites[i].key] = i
        BY <2>3, <4>1
      <4>3. ch.sites[i].key # k
        BY <4>2
      <4> QED BY <2>1, <4>1, <4>2, <4>3
    <3> QED BY <3>1, <3>2
  <2> QED BY <2>4, <2>5 DEF KeysIndexed
<1>9. \A i \in 1..n : /\ i \in LiveSites(jx) <=> i \in LiveSites(ch)
                      /\ jx.sites[i].key = ch.sites[i].key
  BY <1>6
<1>10. n + 1 \in LiveSites(jx) /\ jx.sites[n+1].key = k
  BY <1>5, <1>6
<1>11. ChannelsListed(jx)
  <2> SUFFICES ASSUME NEW c PROVE At(jx.byChannel, c) = InOrder(ByChannel(jx, c), n + 1)
    BY <1>6, SameMaps DEF ChannelsListed
  <2>1. At(ch.byChannel, c) = InOrder(ByChannel(ch, c), n)
    BY <1>1, <1>6, SameMaps DEF ChannelsListed
  <2>2. \A m \in 1..n : m \in ByChannel(jx, c) <=> m \in ByChannel(ch, c)
    BY <1>9 DEF ByChannel
  <2>3. n+1 \in ByChannel(jx, c) <=> c = k.channel
    BY <1>10 DEF ByChannel
  <2>4. Follows(ch.byChannel, k.channel, n, ByChannel(ch, c), ByChannel(jx, c), c)
    BY <2>1, <2>2, <2>3 DEF Follows
  <2>5. jx.byChannel = Push(ch.byChannel, k.channel, n+1)
    BY <1>2 DEF Stocked
  <2> QED BY <1>6, <2>4, <2>5, PushListed
<1>12. FunctionsListed(jx)
  <2> SUFFICES ASSUME NEW c PROVE At(jx.byFunctionUsr, c) = InOrder(ByFunction(jx, c), n + 1)
    BY <1>6, SameMaps DEF FunctionsListed
  <2>1. At(ch.byFunctionUsr, c) = InOrder(ByFunction(ch, c), n)
    BY <1>1, <1>6, SameMaps DEF FunctionsListed
  <2>2. \A m \in 1..n : m \in ByFunction(jx, c) <=> m \in ByFunction(ch, c)
    BY <1>9 DEF ByFunction
  <2>3. n+1 \in ByFunction(jx, c) <=> c = k.fn
    BY <1>10 DEF ByFunction
  <2>4. Follows(ch.byFunctionUsr, k.fn, n, ByFunction(ch, c), ByFunction(jx, c), c)
    BY <2>1, <2>2, <2>3 DEF Follows
  <2>5. jx.byFunctionUsr = Push(ch.byFunctionUsr, k.fn, n+1)
    BY <1>2 DEF Stocked
  <2> QED BY <1>6, <2>4, <2>5, PushListed
<1>13. FunctionNamesListed(jx)
  <2> SUFFICES ASSUME NEW c PROVE At(jx.byFunctionDisplay, c) = InOrder(ByFunctionName(jx, c), n + 1)
    BY <1>6, SameMaps DEF FunctionNamesListed
  <2>1. At(ch.byFunctionDisplay, c) = InOrder(ByFunctionName(ch, c), n)
    BY <1>1, <1>6, SameMaps DEF FunctionNamesListed
  <2>2. \A m \in 1..n : m \in ByFunctionName(jx, c) <=> m \in ByFunctionName(ch, c)
    BY <1>9 DEF ByFunctionName
  <2>3. n+1 \in ByFunctionName(jx, c) <=> display[k.fn] # k.fn /\ display[k.fn] = c
    BY <1>10 DEF ByFunctionName
  <2>4. CASE display[k.fn] # k.fn
    <3>1. jx.byFunctionDisplay = Push(ch.byFunctionDisplay, display[k.fn], n+1)
      BY <1>2, <2>4 DEF Stocked
    <3>2. PICK d : d = display[k.fn]
      OBVIOUS
    <3>3. Follows(ch.byFunctionDisplay, d, n, ByFunctionName(ch, c), ByFunctionName(jx, c), c)
      BY <2>1, <2>2, <2>3, <2>4, <3>2 DEF Follows
    <3> QED BY <1>6, <3>1, <3>2, <3>3, PushListed
  <2>5. CASE display[k.fn] = k.fn
    <3>1. jx.byFunctionDisplay = ch.byFunctionDisplay
      BY <1>2, <2>5 DEF Stocked
    <3>2. n+1 \notin ByFunctionName(jx, c)
      BY <2>3, <2>5
    <3> QED BY <1>6, <2>1, <2>2, <3>1, <3>2, KeepListed
  <2> QED BY <2>4, <2>5
<1> QED BY <1>7, <1>8, <1>11, <1>12, <1>13 DEF SitesGood

(* The same sites under the same keys; their TUs and counts may differ.      *)
SameStore(ch, jx) ==
  /\ DOMAIN jx = SiteFields /\ jx.sites \in Seq(SiteRecords) /\ Len(jx.sites) = Len(ch.sites)
  /\ \A i \in 1..Len(ch.sites) : /\ jx.sites[i].key = ch.sites[i].key
                                 /\ jx.sites[i].live = ch.sites[i].live
  /\ jx.index = ch.index /\ jx.live = ch.live
  /\ jx.byChannel = ch.byChannel /\ jx.byFunctionUsr = ch.byFunctionUsr
  /\ jx.byFunctionDisplay = ch.byFunctionDisplay

LEMMA SameStoreOk ==
  ASSUME NEW ch, SitesGood(ch), NEW jx, SameStore(ch, jx)
  PROVE  SitesGood(jx) /\ LiveSites(jx) = LiveSites(ch)
<1> DEFINE n == Len(ch.sites)
<1>1. /\ DOMAIN jx = SiteFields /\ jx.sites \in Seq(SiteRecords) /\ Len(jx.sites) = n
      /\ jx.index = ch.index /\ jx.live = ch.live
      /\ jx.byChannel = ch.byChannel /\ jx.byFunctionUsr = ch.byFunctionUsr
      /\ jx.byFunctionDisplay = ch.byFunctionDisplay
  BY DEF SameStore
<1>2. \A i \in 1..n : jx.sites[i].key = ch.sites[i].key /\ jx.sites[i].live = ch.sites[i].live
  BY DEF SameStore
<1>3. SitesStored(ch) /\ KeysIndexed(ch) /\ ChannelsListed(ch) /\ FunctionsListed(ch) /\ FunctionNamesListed(ch)
  BY DEF SitesGood
<1>4. n \in Nat /\ DOMAIN ch.sites = 1..n /\ LiveSites(ch) \subseteq 1..n
  BY <1>3, SitesAre
<1>5. DOMAIN jx.sites = 1..n
  <2> DEFINE s == jx.sites
  <2>1. DOMAIN s = 1..Len(s)
    <3>1. s \in Seq(SiteRecords)
      BY <1>1
    <3> HIDE DEF s
    <3> QED BY <3>1
  <2> QED BY <1>1, <2>1
<1> HIDE DEF n
<1>6. LiveSites(jx) = LiveSites(ch)
  BY <1>2, <1>4, <1>5 DEF LiveSites
<1>7. \A i \in LiveSites(ch) : jx.sites[i].key = ch.sites[i].key
  BY <1>2, <1>4
<1>8. SitesStored(jx)
  BY <1>1, <1>3, <1>6 DEF SitesStored
<1>9. KeysIndexed(jx)
  <2>1. \A y \in DOMAIN ch.index : ch.index[y] \in LiveSites(ch) /\ ch.sites[ch.index[y]].key = y
    BY <1>3 DEF KeysIndexed
  <2>2. \A i \in LiveSites(ch) : ch.sites[i].key \in DOMAIN ch.index /\ ch.index[ch.sites[i].key] = i
    BY <1>3 DEF KeysIndexed
  <2> QED BY <1>1, <1>6, <1>7, <2>1, <2>2 DEF KeysIndexed
<1>10. \A c : ByChannel(jx, c) = ByChannel(ch, c)
  BY <1>6, <1>7 DEF ByChannel
<1>11. \A c : ByFunction(jx, c) = ByFunction(ch, c)
  BY <1>6, <1>7 DEF ByFunction
<1>12. \A c : ByFunctionName(jx, c) = ByFunctionName(ch, c)
  BY <1>6, <1>7 DEF ByFunctionName
<1>13. Len(jx.sites) = Len(ch.sites)
  BY <1>1 DEF n
<1>14. ChannelsListed(jx)
  BY <1>1, <1>3, <1>10, <1>13 DEF ChannelsListed
<1>15. FunctionsListed(jx)
  BY <1>1, <1>3, <1>11, <1>13 DEF FunctionsListed
<1>16. FunctionNamesListed(jx)
  BY <1>1, <1>3, <1>12, <1>13 DEF FunctionNamesListed
<1> QED BY <1>6, <1>8, <1>9, <1>14, <1>15, <1>16 DEF SitesGood

(* sx is ch with a site for k at place i that counts n registrations more.   *)
Ready(ch, sx, k, tu, n, i) ==
  /\ SitesGood(sx) /\ sx.byTu = ch.byTu
  /\ i \in LiveSites(sx) /\ LiveSites(sx) = LiveSites(ch) \cup {i}
  /\ k \in DOMAIN sx.index /\ sx.index[k] = i
  /\ \A q : q # k => /\ q \in DOMAIN sx.index <=> q \in DOMAIN ch.index
                     /\ q \in DOMAIN ch.index => sx.index[q] = ch.index[q]
  /\ \A m \in LiveSites(ch) : m # i => sx.sites[m] = ch.sites[m]
  /\ \A t \in TUs : Times(i, ch.byTu[t]) = Noted(ch, k, t)
  /\ sx.sites[i].refs = Registered(ch, TUs, i) + n
  /\ sx.sites[i].tu = tu \/ (i \in LiveSites(ch) /\ sx.sites[i].tu = ch.sites[i].tu)

LEMMA KeepsLists ==
  ASSUME NEW ch, SitesHeld(ch)
  PROVE  /\ AreLists(ch.byTu, TUs, LiveSites(ch)) /\ IsFiniteSet(TUs)
         /\ \A t \in TUs : ch.byTu[t] \in Seq(LiveSites(ch))
         /\ \A t \in TUs : \A i : Times(i, ch.byTu[t]) \in Nat
<1>1. \A t \in TUs : ch.byTu[t] \in Seq(LiveSites(ch))
  BY DEF SitesHeld
<1>2. ASSUME NEW t \in TUs, NEW i PROVE Times(i, ch.byTu[t]) \in Nat
  <2>1. \A s \in Seq(LiveSites(ch)) : Times(i, s) \in Nat
    BY TimesType
  <2> QED BY <1>1, <2>1
<1> QED BY <1>1, <1>2, TUsAssumption DEF AreLists

LEMMA ReadyKnown ==
  ASSUME NEW ch, SitesGood(ch), SitesHeld(ch), NEW k \in DOMAIN ch.index, NEW tu \in TUs, NEW n \in Nat,
         NEW sx, sx = [ch EXCEPT !.sites[ch.index[k]].refs = @ + n]
  PROVE  Ready(ch, sx, k, tu, n, ch.index[k])
<1>0. PICK i : i = ch.index[k]
  OBVIOUS
<1>1. SitesStored(ch) /\ KeysIndexed(ch)
  BY DEF SitesGood
<1>2. i \in LiveSites(ch) /\ ch.sites[i].key = k
  BY <1>0, <1>1 DEF KeysIndexed
<1>3. /\ DOMAIN ch = SiteFields /\ ch.sites \in Seq(SiteRecords)
      /\ i \in DOMAIN ch.sites /\ ch.sites[i] \in SiteRecords
      /\ DOMAIN ch.sites = 1..Len(ch.sites)
  BY <1>1, <1>2, SitesAre DEF SitesStored
<1>4. PICK y : y = [ch.sites[i] EXCEPT !.refs = @ + n]
  OBVIOUS
<1>5. /\ y \in SiteRecords /\ y.key = ch.sites[i].key /\ y.live = ch.sites[i].live
      /\ y.tu = ch.sites[i].tu /\ y.refs = ch.sites[i].refs + n
  <2>1. PICK x : x = ch.sites[i]
    OBVIOUS
  <2>2. x \in [key : ChannelKeys, tu : TUs, refs : Nat, live : BOOLEAN] /\ y = [x EXCEPT !.refs = @ + n]
    BY <1>3, <1>4, <2>1 DEF SiteRecords
  <2>3. x.refs + n \in Nat
    BY <2>2
  <2>4. y \in [key : ChannelKeys, tu : TUs, refs : Nat, live : BOOLEAN]
    BY <2>2, <2>3
  <2>5. y.key = x.key /\ y.live = x.live /\ y.tu = x.tu /\ y.refs = x.refs + n
    BY <2>2
  <2> QED BY <2>1, <2>4, <2>5 DEF SiteRecords
<1>6. /\ DOMAIN sx = SiteFields /\ sx.sites = [ch.sites EXCEPT ![i] = y]
      /\ sx.index = ch.index /\ sx.live = ch.live /\ sx.byTu = ch.byTu
      /\ sx.byChannel = ch.byChannel /\ sx.byFunctionUsr = ch.byFunctionUsr
      /\ sx.byFunctionDisplay = ch.byFunctionDisplay
  BY <1>0, <1>3, <1>4 DEF SiteFields
<1>7. /\ sx.sites \in Seq(SiteRecords) /\ Len(sx.sites) = Len(ch.sites)
      /\ sx.sites[i] = y /\ \A m \in DOMAIN ch.sites : m # i => sx.sites[m] = ch.sites[m]
  <2> DEFINE s == ch.sites
             r == [s EXCEPT ![i] = y]
  <2>1. s \in Seq(SiteRecords) /\ i \in DOMAIN s
    BY <1>3
  <2> HIDE DEF s
  <2>2. r \in Seq(SiteRecords) /\ Len(r) = Len(s)
    BY <1>5, <2>1
  <2>3. r[i] = y /\ \A m \in DOMAIN s : m # i => r[m] = s[m]
    BY <2>1
  <2> QED BY <1>6, <2>2, <2>3 DEF s
<1>8. SameStore(ch, sx)
  <2>1. \A m \in 1..Len(ch.sites) : sx.sites[m].key = ch.sites[m].key /\ sx.sites[m].live = ch.sites[m].live
    BY <1>3, <1>5, <1>7
  <2> QED BY <1>6, <1>7, <2>1 DEF SameStore
<1>9. SitesGood(sx) /\ LiveSites(sx) = LiveSites(ch)
  BY <1>8, SameStoreOk
<1>10. \A t \in TUs : Times(i, ch.byTu[t]) = Noted(ch, k, t)
  BY <1>0 DEF Noted
<1>11. sx.sites[i].refs = Registered(ch, TUs, i) + n
  BY <1>2, <1>5, <1>7 DEF SitesHeld
<1>12. \A m \in LiveSites(ch) : m # i => sx.sites[m] = ch.sites[m]
  BY <1>7 DEF LiveSites
<1>13. LiveSites(sx) = LiveSites(ch) \cup {i}
  BY <1>2, <1>9
<1>14. sx.sites[i].tu = ch.sites[i].tu
  BY <1>5, <1>7
<1> QED BY <1>0, <1>2, <1>6, <1>9, <1>10, <1>11, <1>12, <1>13, <1>14 DEF Ready

LEMMA ReadyNew ==
  ASSUME NEW ch, SitesGood(ch), SitesHeld(ch), NEW k \in ChannelKeys, k \notin DOMAIN ch.index,
         NEW tu \in TUs, NEW n \in Nat, NEW sx, sx = Store(ch, k, tu, n)
  PROVE  Ready(ch, sx, k, tu, n, Len(ch.sites) + 1)
<1>0. PICK i : i = Len(ch.sites) + 1
  OBVIOUS
<1>1. SitesStored(ch) /\ KeysIndexed(ch)
  BY DEF SitesGood
<1>2. Stocked(ch, sx, k, tu, n, i)
  BY <1>0, <1>1, StoreFields DEF SitesStored
<1>3. OneMore(ch, sx, k, tu, n, Len(ch.sites))
  BY <1>0, <1>1, <1>2, StorePlaces
<1>4. SitesGood(sx)
  BY StoreOk
<1>5. /\ LiveSites(sx) = LiveSites(ch) \cup {i} /\ i \notin LiveSites(ch)
      /\ \A m \in LiveSites(ch) : sx.sites[m] = ch.sites[m]
      /\ sx.sites[i] = [key |-> k, tu |-> tu, refs |-> n, live |-> TRUE]
  BY <1>0, <1>3 DEF OneMore
<1>6. /\ sx.byTu = ch.byTu
      /\ sx.index = [x \in DOMAIN ch.index \cup {k} |-> IF x = k THEN i ELSE ch.index[x]]
  BY <1>2 DEF Stocked
<1>7. \A t \in TUs : Times(i, ch.byTu[t]) = 0
  <2>1. ASSUME NEW s \in Seq(LiveSites(ch)) PROVE Times(i, s) = 0
    <3>1. ~ \E m \in DOMAIN s : s[m] = i
      BY <1>5
    <3>2. Times(i, s) \in Nat /\ (Times(i, s) > 0 <=> \E m \in DOMAIN s : s[m] = i)
      BY TimesType, TimesIn
    <3> QED BY <3>1, <3>2
  <2> QED BY <2>1, KeepsLists
<1>8. Registered(ch, TUs, i) = 0
  <2>1. Occurrences(i, ch.byTu, TUs) = 0
    BY <1>7, KeepsLists, OccurrencesNone
  <2> QED BY <2>1 DEF Registered
<1>9. sx.sites[i].refs = n /\ sx.sites[i].tu = tu
  BY <1>5
<1>10. \A t \in TUs : Noted(ch, k, t) = 0
  BY DEF Noted
<1>11. k \in DOMAIN sx.index /\ sx.index[k] = i
  BY <1>6
<1>12. \A q : q # k => /\ q \in DOMAIN sx.index <=> q \in DOMAIN ch.index
                       /\ q \in DOMAIN ch.index => sx.index[q] = ch.index[q]
  BY <1>6
<1>13. sx.sites[i].refs = Registered(ch, TUs, i) + n
  BY <1>8, <1>9
<1> QED BY <1>0, <1>4, <1>5, <1>6, <1>7, <1>9, <1>10, <1>11, <1>12, <1>13 DEF Ready

(* Each live site carries the TU of one of its registrations.                *)
Named(ch) == \A i \in LiveSites(ch) : Times(i, ch.byTu[ch.sites[i].tu]) > 0

(* n registrations of k by tu more.                                          *)
Added(ch, jx, k, tu, n) ==
  /\ SitesGood(jx) /\ SitesHeld(jx)
  /\ \A q : \A t \in TUs : Noted(jx, q, t) = Noted(ch, q, t) + IF q = k /\ t = tu THEN n ELSE 0
  /\ Named(ch) => Named(jx)

LEMMA LivePlaces ==
  ASSUME NEW ch, SitesGood(ch), NEW i \in LiveSites(ch)
  PROVE  i \in DOMAIN ch.sites /\ ch.sites[i] \in SiteRecords /\ ch.sites[i].live
<1>1. i \in DOMAIN ch.sites /\ ch.sites[i].live
  BY DEF LiveSites
<1>2. SitesStored(ch)
  BY DEF SitesGood
<1>3. ch.sites[i] \in SiteRecords
  BY <1>1, <1>2, SitesAre
<1> QED BY <1>1, <1>3

LEMMA ReadyAdded ==
  ASSUME NEW ch, SitesGood(ch), SitesHeld(ch), NEW k, NEW tu \in TUs, NEW n \in Nat \ {0}, NEW sx, NEW i,
         Ready(ch, sx, k, tu, n, i),
         NEW jx, jx = [sx EXCEPT !.byTu[tu] = @ \o Run(sx.index[k], n)]
  PROVE  Added(ch, jx, k, tu, n)
<1>1. /\ SitesGood(sx) /\ sx.byTu = ch.byTu
      /\ i \in LiveSites(sx) /\ LiveSites(sx) = LiveSites(ch) \cup {i}
      /\ k \in DOMAIN sx.index /\ sx.index[k] = i
  BY DEF Ready
<1>2. \A q : q # k => /\ q \in DOMAIN sx.index <=> q \in DOMAIN ch.index
                      /\ q \in DOMAIN ch.index => sx.index[q] = ch.index[q]
  BY DEF Ready
<1>3. \A m \in LiveSites(ch) : m # i => sx.sites[m] = ch.sites[m]
  BY DEF Ready
<1>4. \A t \in TUs : Times(i, ch.byTu[t]) = Noted(ch, k, t)
  BY DEF Ready
<1>5. sx.sites[i].refs = Registered(ch, TUs, i) + n
  BY DEF Ready
<1>6. sx.sites[i].tu = tu \/ (i \in LiveSites(ch) /\ sx.sites[i].tu = ch.sites[i].tu)
  BY DEF Ready
<1> DEFINE L == LiveSites(sx)
           f == ch.byTu
           g == jx.byTu
<1>7. /\ DOMAIN sx = SiteFields /\ sx.sites \in Seq(SiteRecords)
  BY <1>1 DEF SitesGood, SitesStored
<1>8. /\ DOMAIN jx = SiteFields
      /\ jx.byTu = [f EXCEPT ![tu] = @ \o Run(i, n)]
      /\ jx.sites = sx.sites /\ jx.index = sx.index /\ jx.live = sx.live
      /\ jx.byChannel = sx.byChannel /\ jx.byFunctionUsr = sx.byFunctionUsr
      /\ jx.byFunctionDisplay = sx.byFunctionDisplay
  BY <1>1, <1>7 DEF SiteFields
<1>9. SitesGood(jx) /\ LiveSites(jx) = L
  <2>1. SameStore(sx, jx)
    BY <1>7, <1>8 DEF SameStore
  <2> QED BY <1>1, <2>1, SameStoreOk
<1>10. /\ \A t \in TUs : f[t] \in Seq(LiveSites(ch))
       /\ f = [t \in TUs |-> f[t]]
       /\ AreLists(f, TUs, LiveSites(ch)) /\ IsFiniteSet(TUs)
  BY KeepsLists DEF SitesHeld
<1>11. \A t \in TUs : f[t] \in Seq(L)
  <2>1. LiveSites(ch) \subseteq L
    BY <1>1
  <2>2. \A s \in Seq(LiveSites(ch)) : s \in Seq(L)
    BY <2>1, SeqWider
  <2> QED BY <1>10, <2>2
<1>12. g = [t \in TUs |-> IF t = tu THEN f[t] \o Run(i, n) ELSE f[t]]
  <2> HIDE DEF f
  <2> QED BY <1>8, <1>10
<1> HIDE DEF L, f, g
<1>13. /\ f[tu] \o Run(i, n) \in Seq(L)
       /\ \A x : Times(x, f[tu] \o Run(i, n)) = Times(x, f[tu]) + IF x = i THEN n ELSE 0
  <2>1. PICK s : s = f[tu]
    OBVIOUS
  <2>2. s \in Seq(L) /\ i \in L /\ n \in Nat
    BY <1>1, <1>11, <2>1 DEF L
  <2>3. s \o Run(i, n) \in Seq(L)
    BY <2>2, TimesRun
  <2>4. \A x : Times(x, s \o Run(i, n)) = Times(x, s) + IF x = i THEN n ELSE 0
    BY <2>2, TimesRun
  <2> QED BY <2>1, <2>3, <2>4
<1>15. g \in [TUs -> Seq(L)]
  BY <1>11, <1>12, <1>13
<1>16. \A t \in TUs : \A x : Times(x, f[t]) \in Nat
  BY KeepsLists DEF f
<1>17. \A t \in TUs : \A x : Times(x, g[t]) = Times(x, f[t]) + IF x = i /\ t = tu THEN n ELSE 0
  <2> SUFFICES ASSUME NEW t \in TUs, NEW x
               PROVE  Times(x, g[t]) = Times(x, f[t]) + IF x = i /\ t = tu THEN n ELSE 0
    OBVIOUS
  <2>1. CASE t = tu
    <3>1. g[t] = f[tu] \o Run(i, n)
      BY <1>12, <2>1
    <3> QED BY <1>13, <2>1, <3>1
  <2>2. CASE t # tu
    <3>1. g[t] = f[t] /\ Times(x, f[t]) \in Nat
      BY <1>12, <1>16, <2>2
    <3> QED BY <2>2, <3>1
  <2> QED BY <2>1, <2>2
<1>18. AreLists(g, TUs, L) /\ AreLists(f, TUs, L)
  BY <1>11, <1>15 DEF AreLists
<1>19. ASSUME NEW m \in L
       PROVE  Occurrences(m, g, TUs) = Occurrences(m, f, TUs) + IF m = i THEN n ELSE 0
  <2>1. CASE m = i
    <3>1. \A t \in TUs : Times(m, g[t]) = Times(m, f[t]) + IF t = tu THEN n ELSE 0
      BY <1>17, <2>1
    <3>2. Occurrences(m, g, TUs) = Occurrences(m, f, TUs) + n
      BY <1>10, <1>18, <3>1, OccurrencesMore, SMTT(20)
    <3> QED BY <2>1, <3>2
  <2>2. CASE m # i
    <3>1. \A t \in TUs : Times(m, g[t]) = Times(m, f[t])
      <4>1. ASSUME NEW t \in TUs PROVE Times(m, g[t]) = Times(m, f[t])
        <5>1. Times(m, g[t]) = Times(m, f[t]) + 0 /\ Times(m, f[t]) \in Nat
          BY <1>16, <1>17, <2>2
        <5> QED BY <5>1
      <4> QED BY <4>1
    <3>2. Occurrences(m, g, TUs) = Occurrences(m, f, TUs)
      BY <1>10, <1>18, <3>1, OccurrencesSame
    <3>3. Occurrences(m, f, TUs) \in Nat
      BY <1>10, <1>18, OccurrencesFinite
    <3> QED BY <2>2, <3>2, <3>3
  <2> QED BY <2>1, <2>2
<1>20. \A m \in L : Occurrences(m, f, TUs) \in Nat
  BY <1>10, <1>18, OccurrencesFinite
<1>21. ASSUME NEW m \in L
       PROVE  jx.sites[m].refs = Registered(jx, TUs, m) /\ jx.sites[m].refs > 0
  <2>1. Registered(jx, TUs, m) = Occurrences(m, g, TUs) /\ Registered(ch, TUs, m) = Occurrences(m, f, TUs)
    BY DEF Registered, f, g
  <2>2. CASE m = i
    BY <1>5, <1>8, <1>19, <1>20, <2>1, <2>2
  <2>3. CASE m # i
    <3>1. m \in LiveSites(ch)
      BY <1>1, <2>3 DEF L
    <3>2. ch.sites[m].refs = Registered(ch, TUs, m) /\ ch.sites[m].refs > 0
      BY <3>1 DEF SitesHeld
    <3> QED BY <1>3, <1>8, <1>19, <1>20, <2>1, <2>3, <3>1, <3>2
  <2> QED BY <2>2, <2>3
<1>22. SitesHeld(jx)
  <2>1. jx.byTu \in [TUs -> Seq(LiveSites(jx))]
    BY <1>9, <1>15 DEF g
  <2> QED BY <1>9, <1>21, <2>1 DEF SitesHeld
<1>23. ASSUME NEW q, NEW t \in TUs
       PROVE  Noted(jx, q, t) = Noted(ch, q, t) + IF q = k /\ t = tu THEN n ELSE 0
  <2>0. jx.index = sx.index
    BY <1>8
  <2>1. CASE q = k
    <3>1. Noted(jx, q, t) = Times(i, g[t])
      BY <1>1, <2>0, <2>1 DEF Noted, g
    <3> QED BY <1>4, <1>17, <2>1, <3>1 DEF f
  <2>2. CASE q # k /\ q \in DOMAIN ch.index
    <3>1. q \in DOMAIN jx.index /\ jx.index[q] = ch.index[q]
      BY <1>2, <2>0, <2>2
    <3>2. ch.index[q] # i
      <4>1. sx.sites[i].key = k /\ sx.sites[sx.index[q]].key = q
        BY <1>1, <2>0, <3>1 DEF SitesGood, KeysIndexed
      <4> QED BY <2>0, <2>2, <3>1, <4>1
    <3>3. Noted(jx, q, t) = Times(ch.index[q], g[t]) /\ Noted(ch, q, t) = Times(ch.index[q], f[t])
      BY <2>2, <3>1 DEF Noted, f, g
    <3> QED BY <1>16, <1>17, <2>2, <3>2, <3>3
  <2>3. CASE q # k /\ q \notin DOMAIN ch.index
    <3>1. q \notin DOMAIN jx.index
      BY <1>2, <2>0, <2>3
    <3> QED BY <2>3, <3>1 DEF Noted
  <2> QED BY <2>1, <2>2, <2>3
<1>24. ASSUME Named(ch), NEW m \in L
       PROVE  Times(m, g[jx.sites[m].tu]) > 0
  <2>0. jx.sites[m] \in SiteRecords
    BY <1>9, LivePlaces
  <2>1. PICK u : u = jx.sites[m].tu
    OBVIOUS
  <2>2. u \in TUs
    BY <2>0, <2>1 DEF SiteRecords
  <2>3. Times(m, g[u]) = Times(m, f[u]) + (IF m = i /\ u = tu THEN n ELSE 0) /\ Times(m, f[u]) \in Nat
    BY <1>16, <1>17, <2>2
  <2>4. CASE m = i /\ u = tu
    BY <2>1, <2>3, <2>4
  <2>5. CASE ~ (m = i /\ u = tu)
    <3>1. m \in LiveSites(ch) /\ u = ch.sites[m].tu
      <4>1. CASE m = i
        BY <1>6, <1>8, <2>1, <2>5, <4>1
      <4>2. CASE m # i
        BY <1>1, <1>3, <1>8, <2>1, <4>2 DEF L
      <4> QED BY <4>1, <4>2
    <3>2. Times(m, f[u]) > 0
      BY <1>24, <3>1 DEF Named, f
    <3> QED BY <2>1, <2>3, <3>2
  <2> QED BY <2>4, <2>5
<1>25. Named(ch) => Named(jx)
  BY <1>9, <1>24 DEF Named, g
<1> QED BY <1>9, <1>22, <1>23, <1>25 DEF Added

LEMMA AddTimesOk ==
  ASSUME NEW ch, SitesGood(ch), SitesHeld(ch), NEW k \in ChannelKeys, NEW tu \in TUs,
         NEW n \in Nat \ {0}, NEW jx, jx = AddTimes(ch, k, tu, n)
  PROVE  Added(ch, jx, k, tu, n)
<1>1. CASE k \in DOMAIN ch.index
  <2>1. PICK sx : sx = [ch EXCEPT !.sites[ch.index[k]].refs = @ + n]
    OBVIOUS
  <2>2. jx = [sx EXCEPT !.byTu[tu] = @ \o Run(sx.index[k], n)]
    BY <1>1, <2>1 DEF AddTimes, Run
  <2>3. Ready(ch, sx, k, tu, n, ch.index[k])
    BY <1>1, <2>1, ReadyKnown
  <2> QED BY <2>2, <2>3, ReadyAdded
<1>2. CASE k \notin DOMAIN ch.index
  <2>1. PICK sx : sx = Store(ch, k, tu, n)
    OBVIOUS
  <2>2. jx = [sx EXCEPT !.byTu[tu] = @ \o Run(sx.index[k], n)]
    BY <1>2, <2>1 DEF AddTimes, Run
  <2>3. Ready(ch, sx, k, tu, n, Len(ch.sites) + 1)
    BY <1>2, <2>1, ReadyNew
  <2> QED BY <2>2, <2>3, ReadyAdded
<1> QED BY <1>1, <1>2

-----------------------------------------------------------------------------
(* absorb.                                                                   *)

(* One site of a shard, and f is what AbsorbSites computes for the first n.  *)
TakeSite(ch, s) == IF s.live THEN AddTimes(ch, s.key, s.tu, s.refs) ELSE ch
Takes(f, ch, shard, n) ==
  f = [m \in 0..n |-> IF m = 0 THEN ch ELSE TakeSite(f[m-1], shard.sites[m])]

LEMMA TakesExists ==
  ASSUME NEW ch, NEW shard
  PROVE  \A n \in Nat : \E f : Takes(f, ch, shard, n)
<1> DEFINE T == {n \in Nat : \E f : Takes(f, ch, shard, n)}
<1>1. 0 \in T
  <2>1. Takes([m \in 0..0 |-> ch], ch, shard, 0)
    BY DEF Takes
  <2> QED BY <2>1
<1>2. ASSUME NEW n \in Nat, n \in T PROVE n + 1 \in T
  <2>1. PICK f : Takes(f, ch, shard, n)
    BY <1>2
  <2> DEFINE g == [m \in 0..n+1 |-> IF m = n + 1 THEN TakeSite(f[n], shard.sites[m]) ELSE f[m]]
  <2>2. \A m \in 0..n : f[m] = IF m = 0 THEN ch ELSE TakeSite(f[m-1], shard.sites[m])
    BY <2>1 DEF Takes
  <2>3. \A m \in 0..n+1 : g[m] = IF m = 0 THEN ch ELSE TakeSite(g[m-1], shard.sites[m])
    BY <2>2
  <2>4. Takes(g, ch, shard, n + 1)
    BY <2>3 DEF Takes
  <2> QED BY <2>4
<1>3. \A n \in Nat : n \in T
  <2> HIDE DEF T
  <2> QED BY <1>1, <1>2, SetInduction
<1> QED BY <1>3

(* The registrations that come with the first n sites of a shard: all of a   *)
(* site in the name of the TU it carries.                                    *)
Given(shard, q, t, n) ==
  IF q \in DOMAIN shard.index /\ shard.index[q] <= n /\ shard.sites[shard.index[q]].tu = t
  THEN shard.sites[shard.index[q]].refs ELSE 0

Taken(ch, jx, shard, n) ==
  /\ SitesGood(jx) /\ SitesHeld(jx)
  /\ \A q : \A t \in TUs : Noted(jx, q, t) = Noted(ch, q, t) + Given(shard, q, t, n)

LEMMA NotedType ==
  ASSUME NEW ch, SitesHeld(ch), NEW q, NEW t \in TUs
  PROVE  Noted(ch, q, t) \in Nat
BY KeepsLists DEF Noted

LEMMA TakeSiteOk ==
  ASSUME NEW ch, NEW jx, NEW shard, SitesGood(shard), SitesHeld(shard), NEW n \in Nat,
         n + 1 <= Len(shard.sites), Taken(ch, jx, shard, n), SitesHeld(ch),
         NEW kx, kx = TakeSite(jx, shard.sites[n+1])
  PROVE  Taken(ch, kx, shard, n + 1)
<1> DEFINE s == shard.sites[n+1]
<1>1. SitesStored(shard) /\ KeysIndexed(shard)
  BY DEF SitesGood
<1>2. n + 1 \in DOMAIN shard.sites /\ DOMAIN shard.sites = 1..Len(shard.sites)
  BY <1>1, SitesAre
<1>3. s \in SiteRecords
  BY <1>1, <1>2, SitesAre
<1>4. /\ \A q \in DOMAIN shard.index : shard.index[q] \in LiveSites(shard) /\ shard.sites[shard.index[q]].key = q
      /\ \A i \in LiveSites(shard) : shard.sites[i].key \in DOMAIN shard.index
                                     /\ shard.index[shard.sites[i].key] = i
  BY <1>1 DEF KeysIndexed
<1>5. /\ SitesGood(jx) /\ SitesHeld(jx)
      /\ \A q : \A t \in TUs : Noted(jx, q, t) = Noted(ch, q, t) + Given(shard, q, t, n)
  BY DEF Taken
<1>6. \A q \in DOMAIN shard.index : shard.index[q] \in Nat
  BY <1>1, <1>4, SitesAre
<1>7. CASE ~ s.live
  <2>1. kx = jx
    BY <1>7 DEF TakeSite
  <2>2. \A q \in DOMAIN shard.index : shard.index[q] # n + 1
    BY <1>4, <1>7 DEF LiveSites
  <2>3. \A q : \A t : Given(shard, q, t, n + 1) = Given(shard, q, t, n)
    <3>1. \A q \in DOMAIN shard.index : shard.index[q] <= n + 1 <=> shard.index[q] <= n
      BY <1>6, <2>2
    <3> QED BY <3>1 DEF Given
  <2> QED BY <1>5, <2>1, <2>3 DEF Taken
<1>8. CASE s.live
  <2> DEFINE k == s.key
             u == s.tu
             r == s.refs
  <2>1. n + 1 \in LiveSites(shard)
    BY <1>2, <1>8 DEF LiveSites
  <2>2. k \in ChannelKeys /\ u \in TUs /\ r \in Nat \ {0}
    <3>1. k \in ChannelKeys /\ u \in TUs /\ r \in Nat
      BY <1>3 DEF SiteRecords
    <3>2. r > 0
      BY <2>1 DEF SitesHeld
    <3> HIDE DEF r, u, k
    <3> QED BY <3>1, <3>2
  <2>3. k \in DOMAIN shard.index /\ shard.index[k] = n + 1
    BY <1>4, <2>1
  <2>4. kx = AddTimes(jx, k, u, r)
    BY <1>8 DEF TakeSite
  <2>5. shard.sites[shard.index[k]].tu = u /\ shard.sites[shard.index[k]].refs = r
    BY <2>3
  <2>6. \A q \in DOMAIN shard.index : shard.index[q] = n + 1 => q = k
    BY <1>4
  <2> HIDE DEF k, u, r, s
  <2>7. Added(jx, kx, k, u, r)
    BY <1>5, <2>2, <2>4, AddTimesOk
  <2>8. ASSUME NEW q, NEW t \in TUs
        PROVE  Noted(kx, q, t) = Noted(ch, q, t) + Given(shard, q, t, n + 1)
    <3>1. Noted(kx, q, t) = Noted(jx, q, t) + IF q = k /\ t = u THEN r ELSE 0
      BY <2>7 DEF Added
    <3>2. Noted(jx, q, t) = Noted(ch, q, t) + Given(shard, q, t, n)
      BY <1>5
    <3>3. Noted(ch, q, t) \in Nat
      BY NotedType
    <3>4. CASE q = k
      <4>1. Given(shard, q, t, n) = 0
        BY <2>3, <3>4 DEF Given
      <4>2. Given(shard, q, t, n + 1) = IF t = u THEN r ELSE 0
        BY <2>3, <2>5, <3>4 DEF Given
      <4> QED BY <2>2, <3>1, <3>2, <3>3, <3>4, <4>1, <4>2
    <3>5. CASE q # k
      <4>1. q \in DOMAIN shard.index => shard.index[q] # n + 1 /\ shard.index[q] \in Nat
        BY <1>6, <2>6, <3>5
      <4>2. Given(shard, q, t, n + 1) = Given(shard, q, t, n)
        BY <4>1 DEF Given
      <4>3. Noted(kx, q, t) = Noted(jx, q, t) + 0 /\ Noted(jx, q, t) \in Nat
        BY <1>5, <3>1, <3>5, NotedType
      <4> QED BY <3>2, <4>2, <4>3
    <3> QED BY <3>4, <3>5
  <2>9. SitesGood(kx) /\ SitesHeld(kx)
    BY <2>7 DEF Added
  <2> QED BY <2>8, <2>9 DEF Taken
<1> QED BY <1>7, <1>8

LEMMA AbsorbSitesOk ==
  ASSUME NEW ch, SitesGood(ch), SitesHeld(ch), NEW shard, SitesGood(shard), SitesHeld(shard),
         NEW jx, jx = AbsorbSites(ch, shard)
  PROVE  Taken(ch, jx, shard, Len(shard.sites))
<1> DEFINE k == Len(shard.sites)
           c == CHOOSE f : Takes(f, ch, shard, k)
<1>1. jx = c[k]
  BY DEF AbsorbSites, Takes, TakeSite
<1>2. k \in Nat
  BY SitesAre DEF SitesGood
<1>3. Takes(c, ch, shard, k)
  <2>1. \E f : Takes(f, ch, shard, k)
    BY <1>2, TakesExists
  <2> QED BY <2>1, Zenon
<1>4. \A m \in 0..k : c[m] = IF m = 0 THEN ch ELSE TakeSite(c[m-1], shard.sites[m])
  <2> HIDE DEF c, k
  <2> QED BY <1>3 DEF Takes
<1> HIDE DEF c
<1> DEFINE T == {n \in Nat : n <= k => Taken(ch, c[n], shard, n)}
<1>5. 0 \in T
  <2>1. c[0] = ch
    BY <1>2, <1>4
  <2>2. \A q \in DOMAIN shard.index : shard.index[q] \in Nat \ {0}
    <3>1. SitesStored(shard) /\ \A q \in DOMAIN shard.index : shard.index[q] \in LiveSites(shard)
      BY DEF SitesGood, KeysIndexed
    <3>2. LiveSites(shard) \subseteq 1..Len(shard.sites)
      BY <3>1, SitesAre
    <3> QED BY <3>1, <3>2
  <2>3. \A q : \A t : Given(shard, q, t, 0) = 0
    BY <2>2 DEF Given
  <2>4. \A q : \A t \in TUs : Noted(ch, q, t) = Noted(ch, q, t) + Given(shard, q, t, 0)
    BY <2>3, NotedType
  <2>5. Taken(ch, ch, shard, 0)
    BY <2>4 DEF Taken
  <2> QED BY <2>1, <2>5
<1>6. ASSUME NEW n \in Nat, n \in T PROVE n + 1 \in T
  <2> SUFFICES ASSUME n + 1 <= k PROVE Taken(ch, c[n+1], shard, n+1)
    OBVIOUS
  <2>1. Taken(ch, c[n], shard, n)
    BY <1>2, <1>6
  <2>2. c[n+1] = TakeSite(c[n], shard.sites[n+1])
    <3>1. n + 1 \in 0..k /\ n + 1 # 0 /\ (n + 1) - 1 = n
      BY <1>2
    <3> QED BY <3>1, <1>4
  <2> QED BY <2>1, <2>2, TakeSiteOk
<1>7. \A n \in Nat : n \in T
  <2> HIDE DEF T
  <2> QED BY <1>5, <1>6, SetInduction
<1> QED BY <1>1, <1>2, <1>7

-----------------------------------------------------------------------------
(* removeTUs of the channel index.                                           *)

\* One list, whose key goes with the last of its sites.
LEMMA ScrubKeysAt ==
  ASSUME NEW map, NEW dead, NEW k
  PROVE  At(ScrubKeys(map, dead), k) = Scrub(At(map, k), dead)
<1>1. ScrubKeys(map, dead) = [x \in {y \in DOMAIN map : Scrub(map[y], dead) # <<>>} |-> Scrub(map[x], dead)]
  BY DEF ScrubKeys, Scrub
<1> QED BY <1>1, ScrubSitesAt

(* dead are the sites no TU outside S registered.                            *)
Unheld(ch, S, dead) ==
  /\ dead \subseteq LiveSites(ch)
  /\ \A i \in LiveSites(ch) : /\ i \in dead <=> Registered(ch, TUs \ S, i) = 0
                              /\ Registered(ch, TUs \ S, i) \in Nat
                              /\ Registered(ch, S, i) \in Nat
                              /\ ch.sites[i].refs = Registered(ch, S, i) + Registered(ch, TUs \ S, i)

LEMMA SpentUnheld ==
  ASSUME NEW ch, SitesHeld(ch), NEW S, S \subseteq TUs
  PROVE  Unheld(ch, S, Spent(ch, S))
<1> DEFINE U == TUs \ S
           f == ch.byTu
<1>1. AreLists(f, TUs, LiveSites(ch)) /\ IsFiniteSet(TUs)
  BY KeepsLists
<1>2. ASSUME NEW i \in LiveSites(ch)
      PROVE  /\ Registered(ch, U, i) \in Nat /\ Registered(ch, S, i) \in Nat
             /\ ch.sites[i].refs = Registered(ch, S, i) + Registered(ch, U, i)
  <2>1. ch.sites[i].refs = Occurrences(i, f, TUs)
    BY DEF SitesHeld, Registered
  <2>2. S \cup U = TUs /\ S \cap U = {} /\ U \subseteq TUs
    OBVIOUS
  <2> HIDE DEF f, U
  <2>3. Occurrences(i, f, S) \in Nat
    BY <1>1, OccurrencesFinite
  <2>4. Occurrences(i, f, U) \in Nat
    BY <1>1, <2>2, OccurrencesFinite
  <2>5. Occurrences(i, f, S \cup U) = Occurrences(i, f, S) + Occurrences(i, f, U)
    BY <1>1, <2>2, OccurrencesTogether
  <2> QED BY <2>1, <2>2, <2>3, <2>4, <2>5 DEF Registered, f
<1>3. \A i \in LiveSites(ch) : i \in Spent(ch, S) <=> Registered(ch, U, i) = 0
  <2> SUFFICES ASSUME NEW i \in LiveSites(ch)
               PROVE  i \in Spent(ch, S) <=> Registered(ch, U, i) = 0
    OBVIOUS
  <2>1. i \in Spent(ch, S) <=> Registered(ch, S, i) >= ch.sites[i].refs
    BY DEF Spent
  <2>2. PICK a, b, r : a = Registered(ch, S, i) /\ b = Registered(ch, U, i) /\ r = ch.sites[i].refs
    OBVIOUS
  <2>3. a \in Nat /\ b \in Nat /\ r = a + b
    BY <1>2, <2>2
  <2> QED BY <2>1, <2>2, <2>3
<1>4. Spent(ch, S) \subseteq LiveSites(ch)
  BY DEF Spent
<1> QED BY <1>2, <1>3, <1>4 DEF Unheld

(* The sites of ch after the release of those of dead.                       *)
Released(ch, q, S, dead) ==
  /\ q \in Seq(SiteRecords) /\ Len(q) = Len(ch.sites)
  /\ \A i \in 1..Len(q) : /\ q[i].key = ch.sites[i].key
                          /\ q[i].live <=> i \in LiveSites(ch) /\ i \notin dead
                          /\ q[i].live => q[i].refs = Registered(ch, TUs \ S, i)
                          /\ q[i].tu = ch.sites[i].tu

LEMMA ReleaseSites ==
  ASSUME NEW ch, SitesStored(ch), NEW S, NEW dead, dead = Spent(ch, S), Unheld(ch, S, dead)
  PROVE  Released(ch, Release(ch, S), S, dead)
<1>0. PICK n : n = Len(ch.sites)
  OBVIOUS
<1>1. n \in Nat /\ DOMAIN ch.sites = 1..n /\ \A i \in 1..n : ch.sites[i] \in SiteRecords
  BY <1>0, SitesAre
<1>2. PICK q : q = Release(ch, S)
  OBVIOUS
<1>3. q = [i \in 1..n |->
             IF i \in dead THEN [ch.sites[i] EXCEPT !.refs = 0, !.live = FALSE]
             ELSE IF ch.sites[i].live THEN [ch.sites[i] EXCEPT !.refs = @ - Registered(ch, S, i)]
             ELSE ch.sites[i]]
  BY <1>1, <1>2 DEF Release
<1>4. ASSUME NEW i \in 1..n
      PROVE  /\ q[i] \in SiteRecords /\ q[i].key = ch.sites[i].key /\ q[i].tu = ch.sites[i].tu
             /\ q[i].live <=> i \in LiveSites(ch) /\ i \notin dead
             /\ q[i].live => q[i].refs = Registered(ch, TUs \ S, i)
  <2>1. PICK x : x = ch.sites[i]
    OBVIOUS
  <2>2. /\ x \in SiteRecords
        /\ i \in LiveSites(ch) <=> x.live
        /\ x.key \in ChannelKeys /\ x.tu \in TUs /\ x.refs \in Nat /\ x.live \in BOOLEAN
        /\ x = [key |-> x.key, tu |-> x.tu, refs |-> x.refs, live |-> x.live]
    BY <1>1, <2>1 DEF LiveSites, SiteRecords
  <2>3. CASE i \in dead
    <3>1. q[i] = [x EXCEPT !.refs = 0, !.live = FALSE]
      BY <1>3, <2>1, <2>3
    <3>2. q[i] = [key |-> x.key, tu |-> x.tu, refs |-> 0, live |-> FALSE]
      BY <2>2, <3>1
    <3> QED BY <2>1, <2>2, <2>3, <3>2 DEF SiteRecords
  <2>4. CASE i \notin dead /\ x.live
    <3>1. q[i] = [x EXCEPT !.refs = @ - Registered(ch, S, i)]
      BY <1>3, <2>1, <2>4
    <3>2. PICK a, b : a = Registered(ch, S, i) /\ b = Registered(ch, TUs \ S, i)
      OBVIOUS
    <3>3. a \in Nat /\ b \in Nat /\ x.refs = a + b
      BY <2>1, <2>2, <2>4, <3>2 DEF Unheld
    <3>4. q[i] = [key |-> x.key, tu |-> x.tu, refs |-> b, live |-> x.live]
      BY <2>2, <3>1, <3>2, <3>3
    <3> QED BY <2>1, <2>2, <2>4, <3>2, <3>3, <3>4 DEF SiteRecords
  <2>5. CASE i \notin dead /\ ~ x.live
    <3>1. q[i] = x
      BY <1>3, <2>1, <2>5
    <3> QED BY <2>1, <2>2, <2>5, <3>1
  <2> QED BY <2>2, <2>3, <2>4, <2>5
<1>5. q \in Seq(SiteRecords) /\ Len(q) = n
  <2>1. q = [i \in 1..n |-> q[i]]
    BY <1>3
  <2> QED BY <1>1, <1>4, <2>1, AsSeq
<1> QED BY <1>0, <1>2, <1>4, <1>5 DEF Released

(* jx is ch without the registrations of the TUs of S; dead went with them.  *)
SitesOut(ch, jx, S, dead) ==
  /\ DOMAIN jx = SiteFields
  /\ Released(ch, jx.sites, S, dead)
  /\ jx.index = [k \in {x \in DOMAIN ch.index : ch.index[x] \notin dead} |-> ch.index[k]]
  /\ jx.byChannel = ScrubKeys(ch.byChannel, dead)
  /\ jx.byFunctionUsr = ScrubKeys(ch.byFunctionUsr, dead)
  /\ jx.byFunctionDisplay = ScrubKeys(ch.byFunctionDisplay, dead)
  /\ jx.byTu = [t \in TUs |-> IF t \in S THEN << >> ELSE ch.byTu[t]]
  /\ jx.live = ch.live - Cardinality(dead)

LEMMA RemoveSiteFields ==
  ASSUME NEW ch, SitesGood(ch), SitesHeld(ch), NEW S, S \subseteq TUs,
         NEW jx, jx = RemoveSites(ch, S)
  PROVE  SitesOut(ch, jx, S, Spent(ch, S)) /\ Unheld(ch, S, Spent(ch, S))
<1>1. PICK dead : dead = Spent(ch, S)
  OBVIOUS
<1>2. Unheld(ch, S, dead)
  BY <1>1, SpentUnheld
<1>3. DOMAIN ch = SiteFields /\ SitesStored(ch)
  BY DEF SitesGood, SitesStored
<1>4. Released(ch, Release(ch, S), S, dead)
  BY <1>1, <1>2, <1>3, ReleaseSites
<1>5. /\ jx.sites = Release(ch, S) /\ DOMAIN jx = SiteFields
      /\ jx.index = [k \in {x \in DOMAIN ch.index : ch.index[x] \notin dead} |-> ch.index[k]]
      /\ jx.byChannel = ScrubKeys(ch.byChannel, dead)
      /\ jx.byFunctionUsr = ScrubKeys(ch.byFunctionUsr, dead)
      /\ jx.byFunctionDisplay = ScrubKeys(ch.byFunctionDisplay, dead)
      /\ jx.byTu = [t \in TUs |-> IF t \in S THEN << >> ELSE ch.byTu[t]]
      /\ jx.live = ch.live - Cardinality(dead)
  BY <1>1, <1>3 DEF RemoveSites, SiteFields
<1> QED BY <1>1, <1>2, <1>4, <1>5 DEF SitesOut

LEMMA SitesOutGood ==
  ASSUME NEW ch, SitesGood(ch), NEW S, NEW dead, dead \subseteq LiveSites(ch),
         NEW jx, SitesOut(ch, jx, S, dead)
  PROVE  SitesGood(jx) /\ LiveSites(jx) = LiveSites(ch) \ dead
<1>0. PICK n : n = Len(ch.sites)
  OBVIOUS
<1>1. SitesStored(ch) /\ KeysIndexed(ch) /\ ChannelsListed(ch) /\ FunctionsListed(ch) /\ FunctionNamesListed(ch)
  BY DEF SitesGood
<1>2. /\ n \in Nat /\ DOMAIN ch.sites = 1..n /\ LiveSites(ch) \subseteq 1..n
      /\ IsFiniteSet(LiveSites(ch))
  BY <1>0, <1>1, SitesAre
<1>3. /\ jx.sites \in Seq(SiteRecords) /\ Len(jx.sites) = n
      /\ \A i \in 1..n : /\ jx.sites[i].key = ch.sites[i].key
                         /\ jx.sites[i].live <=> i \in LiveSites(ch) /\ i \notin dead
  BY <1>0 DEF SitesOut, Released
<1>4. DOMAIN jx.sites = 1..n
  <2>1. \A s \in Seq(SiteRecords) : DOMAIN s = 1..Len(s)
    OBVIOUS
  <2> QED BY <1>3, <2>1
<1>5. LiveSites(jx) = LiveSites(ch) \ dead
  BY <1>2, <1>3, <1>4 DEF LiveSites
<1>6. SitesStored(jx)
  <2>1. jx.live = ch.live - Cardinality(dead) /\ ch.live = Cardinality(LiveSites(ch))
    BY <1>1 DEF SitesOut, SitesStored
  <2>2. PICK L : L = LiveSites(ch)
    OBVIOUS
  <2>3. L \cap dead = dead /\ IsFiniteSet(L)
    BY <1>2, <2>2
  <2>4. Cardinality(L \ dead) = Cardinality(L) - Cardinality(L \cap dead)
    BY <2>3, FS_Difference
  <2>5. jx.live = Cardinality(LiveSites(jx))
    BY <1>5, <2>1, <2>2, <2>3, <2>4
  <2>6. DOMAIN jx = SiteFields
    BY DEF SitesOut
  <2> QED BY <1>3, <2>5, <2>6 DEF SitesStored
<1>7. KeysIndexed(jx)
  <2>1. jx.index = [k \in {x \in DOMAIN ch.index : ch.index[x] \notin dead} |-> ch.index[k]]
    BY DEF SitesOut
  <2>2. \A y \in DOMAIN ch.index : ch.index[y] \in LiveSites(ch) /\ ch.sites[ch.index[y]].key = y
    BY <1>1 DEF KeysIndexed
  <2>3. \A i \in LiveSites(ch) : ch.sites[i].key \in DOMAIN ch.index /\ ch.index[ch.sites[i].key] = i
    BY <1>1 DEF KeysIndexed
  <2>4. \A i \in LiveSites(ch) : jx.sites[i].key = ch.sites[i].key
    BY <1>2, <1>3
  <2> QED BY <1>5, <2>1, <2>2, <2>3, <2>4 DEF KeysIndexed
<1>8. \A i \in 1..n : /\ i \in LiveSites(jx) <=> i \in LiveSites(ch) /\ i \notin dead
                      /\ jx.sites[i].key = ch.sites[i].key
  BY <1>3, <1>5
<1>9. ChannelsListed(jx)
  <2> SUFFICES ASSUME NEW c PROVE At(jx.byChannel, c) = InOrder(ByChannel(jx, c), n)
    BY <1>3, SameMaps DEF ChannelsListed
  <2>1. At(ch.byChannel, c) = InOrder(ByChannel(ch, c), n)
    BY <1>0, <1>1, SameMaps DEF ChannelsListed
  <2>2. At(jx.byChannel, c) = Scrub(At(ch.byChannel, c), dead)
    BY ScrubKeysAt DEF SitesOut
  <2>3. \A m \in 1..n : m \in ByChannel(jx, c) <=> m \in ByChannel(ch, c) /\ m \notin dead
    BY <1>8 DEF ByChannel
  <2> QED BY <1>2, <2>1, <2>2, <2>3, ScrubListed
<1>10. FunctionsListed(jx)
  <2> SUFFICES ASSUME NEW c PROVE At(jx.byFunctionUsr, c) = InOrder(ByFunction(jx, c), n)
    BY <1>3, SameMaps DEF FunctionsListed
  <2>1. At(ch.byFunctionUsr, c) = InOrder(ByFunction(ch, c), n)
    BY <1>0, <1>1, SameMaps DEF FunctionsListed
  <2>2. At(jx.byFunctionUsr, c) = Scrub(At(ch.byFunctionUsr, c), dead)
    BY ScrubKeysAt DEF SitesOut
  <2>3. \A m \in 1..n : m \in ByFunction(jx, c) <=> m \in ByFunction(ch, c) /\ m \notin dead
    BY <1>8 DEF ByFunction
  <2> QED BY <1>2, <2>1, <2>2, <2>3, ScrubListed
<1>11. FunctionNamesListed(jx)
  <2> SUFFICES ASSUME NEW c PROVE At(jx.byFunctionDisplay, c) = InOrder(ByFunctionName(jx, c), n)
    BY <1>3, SameMaps DEF FunctionNamesListed
  <2>1. At(ch.byFunctionDisplay, c) = InOrder(ByFunctionName(ch, c), n)
    BY <1>0, <1>1, SameMaps DEF FunctionNamesListed
  <2>2. At(jx.byFunctionDisplay, c) = Scrub(At(ch.byFunctionDisplay, c), dead)
    BY ScrubKeysAt DEF SitesOut
  <2>3. \A m \in 1..n : m \in ByFunctionName(jx, c) <=> m \in ByFunctionName(ch, c) /\ m \notin dead
    BY <1>8 DEF ByFunctionName
  <2> QED BY <1>2, <2>1, <2>2, <2>3, ScrubListed
<1> QED BY <1>5, <1>6, <1>7, <1>9, <1>10, <1>11 DEF SitesGood

(* The registrations left when those of the TUs of S go.                     *)
SitesLeft(ch, jx, S) ==
  /\ SitesGood(jx) /\ SitesHeld(jx)
  /\ \A q : \A t \in TUs : Noted(jx, q, t) = IF t \in S THEN 0 ELSE Noted(ch, q, t)

LEMMA RemoveSitesOk ==
  ASSUME NEW ch, SitesGood(ch), SitesHeld(ch), NEW S, S \subseteq TUs,
         NEW jx, jx = RemoveSites(ch, S)
  PROVE  SitesLeft(ch, jx, S)
<1>1. PICK dead : dead = Spent(ch, S)
  OBVIOUS
<1>2. SitesOut(ch, jx, S, dead) /\ Unheld(ch, S, dead)
  BY <1>1, RemoveSiteFields
<1>3. SitesGood(jx) /\ LiveSites(jx) = LiveSites(ch) \ dead
  BY <1>2, SitesOutGood DEF Unheld
<1> DEFINE U == TUs \ S
           f == ch.byTu
           g == jx.byTu
           L == LiveSites(ch)
           M == LiveSites(jx)
<1>4. g = [t \in TUs |-> IF t \in S THEN << >> ELSE f[t]]
  BY <1>2 DEF SitesOut
<1>5. /\ AreLists(f, TUs, L) /\ IsFiniteSet(TUs)
      /\ \A t \in TUs : f[t] \in Seq(L)
      /\ \A t \in TUs : \A i : Times(i, f[t]) \in Nat
  BY KeepsLists
<1>6. \A i \in L : i \in dead => \A t \in U : Times(i, f[t]) = 0
  <2> SUFFICES ASSUME NEW i \in L, i \in dead PROVE \A t \in U : Times(i, f[t]) = 0
    OBVIOUS
  <2>1. Occurrences(i, f, U) = 0
    BY <1>2 DEF Unheld, Registered
  <2>2. U \subseteq TUs
    OBVIOUS
  <2> HIDE DEF U, f, L
  <2> QED BY <1>5, <2>1, <2>2, OccurrencesNone
<1>7. ASSUME NEW t \in U PROVE f[t] \in Seq(M)
  <2>1. PICK s : s = f[t]
    OBVIOUS
  <2>2. s \in Seq(L) /\ t \in TUs
    BY <1>5, <2>1
  <2> HIDE DEF L, M, f, U
  <2>3. s = [m \in 1..Len(s) |-> s[m]] /\ Len(s) \in Nat /\ \A m \in 1..Len(s) : s[m] \in L
    BY <2>2
  <2>4. ASSUME NEW m \in 1..Len(s) PROVE s[m] \in M
    <3>1. Times(s[m], s) > 0
      <4>1. m \in DOMAIN s
        BY <2>2
      <4> QED BY <2>2, <4>1, TimesIn
    <3>2. s[m] \notin dead
      BY <1>6, <2>1, <2>3, <3>1
    <3> QED BY <1>3, <2>3, <3>2 DEF L, M
  <2>5. s \in Seq(M)
    BY <2>3, <2>4, AsSeq
  <2> QED BY <2>1, <2>5
<1>8. g \in [TUs -> Seq(M)]
  <2>1. \A t \in TUs : g[t] \in Seq(M)
    <3>1. ASSUME NEW t \in TUs PROVE g[t] \in Seq(M)
      <4>1. << >> \in Seq(M)
        OBVIOUS
      <4> QED BY <1>4, <1>7, <4>1
    <3> QED BY <3>1
  <2> HIDE DEF M, f
  <2> QED BY <1>4, <2>1
<1>9. \A t \in TUs : \A i : Times(i, g[t]) = IF t \in S THEN 0 ELSE Times(i, f[t])
  <2>1. ASSUME NEW i PROVE Times(i, << >>) = 0
    BY TimesSteps, << >> \in Seq(Nat), 0 \in Nat
  <2> HIDE DEF f
  <2> QED BY <1>4, <2>1
<1>10. ASSUME NEW i \in M
       PROVE  jx.sites[i].refs = Registered(jx, TUs, i) /\ jx.sites[i].refs > 0
  <2>1. i \in L /\ i \notin dead /\ i \in DOMAIN jx.sites /\ jx.sites[i].live
    BY <1>3 DEF LiveSites
  <2>2. jx.sites[i].refs = Registered(ch, U, i)
    <3>1. Released(ch, jx.sites, S, dead)
      BY <1>2 DEF SitesOut
    <3>2. i \in 1..Len(jx.sites)
      <4>1. \A s \in Seq(SiteRecords) : DOMAIN s = 1..Len(s)
        OBVIOUS
      <4> QED BY <2>1, <3>1, <4>1 DEF Released
    <3> QED BY <2>1, <3>1, <3>2 DEF Released
  <2>3. Registered(ch, U, i) \in Nat /\ Registered(ch, U, i) # 0
    BY <1>2, <2>1 DEF Unheld
  <2>4. Occurrences(i, g, TUs) = Occurrences(i, f, U)
    <3>1. S \cup U = TUs /\ S \cap U = {} /\ U \subseteq TUs
      OBVIOUS
    <3>2. AreLists(g, TUs, M)
      BY <1>8 DEF AreLists
    <3>3. \A t \in S : Times(i, g[t]) = 0
      BY <1>9
    <3>4. \A t \in U : Times(i, g[t]) = Times(i, f[t])
      BY <1>9
    <3> HIDE DEF U, f, g, L, M
    <3>5. Occurrences(i, g, S) = 0
      BY <1>5, <3>2, <3>3, OccurrencesNone
    <3>6. Occurrences(i, g, U) \in Nat
      BY <1>5, <3>1, <3>2, OccurrencesFinite
    <3>7. Occurrences(i, g, S \cup U) = Occurrences(i, g, S) + Occurrences(i, g, U)
      BY <1>5, <3>1, <3>2, OccurrencesTogether
    <3>8. Occurrences(i, g, U) = Occurrences(i, f, U)
      BY <1>5, <3>1, <3>2, <3>4, OccurrencesSame
    <3> QED BY <3>1, <3>5, <3>6, <3>7, <3>8
  <2> QED BY <2>2, <2>3, <2>4 DEF Registered
<1>11. SitesHeld(jx)
  BY <1>8, <1>10 DEF SitesHeld
<1>12. ASSUME NEW q, NEW t \in TUs
       PROVE  Noted(jx, q, t) = IF t \in S THEN 0 ELSE Noted(ch, q, t)
  <2>1. jx.index = [k \in {x \in DOMAIN ch.index : ch.index[x] \notin dead} |-> ch.index[k]]
    BY <1>2 DEF SitesOut
  <2>2. CASE q \in DOMAIN ch.index /\ ch.index[q] \notin dead
    <3>1. q \in DOMAIN jx.index /\ jx.index[q] = ch.index[q]
      BY <2>1, <2>2
    <3> QED BY <1>9, <2>2, <3>1 DEF Noted
  <2>3. CASE q \in DOMAIN ch.index /\ ch.index[q] \in dead
    <3>1. q \notin DOMAIN jx.index
      BY <2>1, <2>3
    <3>2. t \in U => Times(ch.index[q], f[t]) = 0
      <4>1. dead \subseteq L
        BY <1>2 DEF Unheld
      <4> QED BY <1>6, <2>3, <4>1
    <3> QED BY <2>3, <3>1, <3>2 DEF Noted
  <2>4. CASE q \notin DOMAIN ch.index
    <3>1. q \notin DOMAIN jx.index
      BY <2>1, <2>4
    <3> QED BY <2>4, <3>1 DEF Noted
  <2> QED BY <2>2, <2>3, <2>4
<1> QED BY <1>3, <1>11, <1>12 DEF SitesLeft

-----------------------------------------------------------------------------
(* The lookups of the channel index.                                         *)

(* The keys of all places, and the live ones among those of P.               *)
SiteKeys(ch) == [i \in DOMAIN ch.sites |-> ch.sites[i].key]
Among(ch, P) == {i \in LiveSites(ch) : ch.sites[i].key \in P}
KeyPart(ch, P) == Listed(SiteKeys(ch), Among(ch, P))

LEMMA KeysAre ==
  ASSUME NEW ch, SitesStored(ch)
  PROVE  /\ SiteKeys(ch) \in Seq(ChannelKeys) /\ Len(SiteKeys(ch)) = Len(ch.sites)
         /\ \A i \in 1..Len(ch.sites) : SiteKeys(ch)[i] = ch.sites[i].key
<1> DEFINE n == Len(ch.sites)
           v == SiteKeys(ch)
<1>1. n \in Nat /\ DOMAIN ch.sites = 1..n /\ \A i \in 1..n : ch.sites[i] \in SiteRecords
  BY SitesAre
<1>2. v = [i \in 1..n |-> v[i]] /\ \A i \in 1..n : v[i] = ch.sites[i].key /\ v[i] \in ChannelKeys
  BY <1>1 DEF SiteKeys, SiteRecords
<1> HIDE DEF v, n
<1>3. v \in Seq(ChannelKeys) /\ Len(v) = n
  BY <1>1, <1>2, AsSeq
<1> QED BY <1>2, <1>3 DEF v, n

\* What a list of live places shows.
LEMMA KeysListed ==
  ASSUME NEW ch, SitesStored(ch), NEW A, A \subseteq LiveSites(ch)
  PROVE  KeysAt(ch, InOrder(A, Len(ch.sites))) = Listed(SiteKeys(ch), A)
<1> DEFINE n == Len(ch.sites)
           s == InOrder(A, n)
           L == LiveSites(ch)
           K == {k \in DOMAIN s : ch.sites[s[k]].live}
<1>1. n \in Nat /\ DOMAIN ch.sites = 1..n
  BY SitesAre
<1>2. \A k \in DOMAIN s : s[k] \in 1..n
  BY <1>1, InOrderType
<1>3. K = Where(s, L)
  BY <1>1, <1>2 DEF Where, LiveSites
<1>4. Listed(s, Where(s, L)) = InOrder(A \cap L, n)
  BY <1>1, InOrderOnly
<1>5. A \cap L = A
  OBVIOUS
<1>6. KeysAt(ch, s) = [k \in DOMAIN Listed(s, K) |-> ch.sites[Listed(s, K)[k]].key]
  BY DEF KeysAt, Only
<1>7. Len(SiteKeys(ch)) = n /\ \A i \in 1..n : SiteKeys(ch)[i] = ch.sites[i].key
  BY KeysAre
<1>8. Listed(SiteKeys(ch), A) = [k \in DOMAIN s |-> SiteKeys(ch)[s[k]]]
  BY <1>7 DEF Listed
<1> HIDE DEF s, K, n, L
<1>9. Listed(s, K) = s
  BY <1>3, <1>4, <1>5 DEF s
<1>10. KeysAt(ch, s) = [k \in DOMAIN s |-> ch.sites[s[k]].key]
  BY <1>6, <1>9
<1>11. KeysAt(ch, s) = [k \in DOMAIN s |-> SiteKeys(ch)[s[k]]]
  BY <1>2, <1>7, <1>10
<1> QED BY <1>8, <1>11 DEF s, n

LEMMA AllSitesAre ==
  ASSUME NEW ch, SitesStored(ch)
  PROVE  AllSites(ch) = Listed(SiteKeys(ch), LiveSites(ch))
<1> DEFINE n == Len(ch.sites)
           d == [i \in DOMAIN ch.sites |-> i]
           L == LiveSites(ch)
           K == {k \in DOMAIN d : ch.sites[d[k]].live}
           s == InOrder(L, n)
<1>1. n \in Nat /\ DOMAIN ch.sites = 1..n /\ L \subseteq 1..n
  BY SitesAre
<1>2. K = L
  BY <1>1 DEF LiveSites
<1>3. Len(d) = n
  BY <1>1
<1>4. Listed(d, L) = [k \in DOMAIN s |-> d[s[k]]]
  BY <1>3 DEF Listed
<1>5. /\ s \in Seq(Nat)
      /\ \A k \in DOMAIN s : s[k] \in 1..n
  BY <1>1, InOrderType
<1>6. Listed(d, L) = s
  <2>1. s = [k \in DOMAIN s |-> s[k]]
    <3> HIDE DEF s
    <3> QED BY <1>5
  <2>2. \A k \in DOMAIN s : d[s[k]] = s[k]
    <3> HIDE DEF s
    <3> QED BY <1>1, <1>5
  <2> HIDE DEF s, d
  <2> QED BY <1>4, <2>1, <2>2
<1>7. AllSites(ch) = KeysAt(ch, d)
  BY DEF AllSites
<1>8. KeysAt(ch, d) = [k \in DOMAIN Listed(d, K) |-> ch.sites[Listed(d, K)[k]].key]
  BY DEF KeysAt, Only
<1>9. Len(SiteKeys(ch)) = n /\ \A i \in 1..n : SiteKeys(ch)[i] = ch.sites[i].key
  BY KeysAre
<1>10. Listed(SiteKeys(ch), L) = [k \in DOMAIN s |-> SiteKeys(ch)[s[k]]]
  BY <1>9 DEF Listed
<1> HIDE DEF s, d, K, n, L
<1>11. AllSites(ch) = [k \in DOMAIN s |-> ch.sites[s[k]].key]
  BY <1>2, <1>6, <1>7, <1>8
<1>12. AllSites(ch) = [k \in DOMAIN s |-> SiteKeys(ch)[s[k]]]
  BY <1>5, <1>9, <1>11
<1> QED BY <1>10, <1>12 DEF L

(* K are the places of keys where Q's are.                                   *)
Picked(K, keys, Q) ==
  K \subseteq DOMAIN keys /\ \A k \in DOMAIN keys : keys[k] \in ChannelKeys => (k \in K <=> keys[k] \in Q)

LEMMA PartPicked ==
  ASSUME NEW ch, SitesStored(ch), NEW P, NEW Q, NEW keys, keys = KeyPart(ch, P),
         NEW K, Picked(K, keys, Q)
  PROVE  Listed(keys, K) = KeyPart(ch, P \cap Q)
<1> DEFINE v == SiteKeys(ch)
           I == Among(ch, P)
           W == Where(v, Q)
           J == Among(ch, P \cap Q)
<1>1. v \in Seq(ChannelKeys) /\ Len(v) = Len(ch.sites) /\ \A i \in 1..Len(v) : v[i] = ch.sites[i].key
  BY KeysAre
<1>2. keys = Listed(v, I) /\ KeyPart(ch, P \cap Q) = Listed(v, J)
  BY DEF KeyPart
<1>3. \A m \in 1..Len(v) : m \in I \cap W <=> m \in J
  <2>1. DOMAIN v = 1..Len(v)
    <3> HIDE DEF v
    <3> QED BY <1>1
  <2> QED BY <1>1, <2>1 DEF Where, Among
<1> HIDE DEF v, I, J
<1>4. keys \in Seq(ChannelKeys)
  BY <1>1, <1>2, ListedType
<1>5. K = Where(keys, Q)
  BY <1>4 DEF Picked, Where
<1>6. Listed(Listed(v, I), Where(Listed(v, I), Q)) = Listed(v, I \cap W)
  BY <1>1, ListedTwice
<1> HIDE DEF W
<1>7. Listed(v, I \cap W) = Listed(v, J)
  BY <1>1, <1>3, ListedSame
<1> QED BY <1>2, <1>5, <1>6, <1>7

LEMMA PartListedAt ==
  ASSUME NEW ch, SitesStored(ch), NEW P, NEW s, s = InOrder(Among(ch, P), Len(ch.sites))
  PROVE  KeysAt(ch, s) = KeyPart(ch, P)
<1>1. Among(ch, P) \subseteq LiveSites(ch)
  BY DEF Among
<1> QED BY <1>1, KeysListed DEF KeyPart

LEMMA PartSites ==
  ASSUME NEW ch, SitesStored(ch)
  PROVE  AllSites(ch) = KeyPart(ch, ChannelKeys)
<1>1. Among(ch, ChannelKeys) = LiveSites(ch)
  BY SitesAre DEF Among, SiteRecords, LiveSites
<1> QED BY <1>1, AllSitesAre DEF KeyPart

LEMMA PartSeq ==
  ASSUME NEW ch, SitesStored(ch), NEW P
  PROVE  KeyPart(ch, P) \in Seq(ChannelKeys)
<1>1. SiteKeys(ch) \in Seq(ChannelKeys)
  BY KeysAre
<1> QED BY <1>1, ListedType DEF KeyPart

LEMMA PartHas ==
  ASSUME NEW ch, SitesStored(ch), NEW P, NEW x
  PROVE  In(x, KeyPart(ch, P)) <=> \E i \in LiveSites(ch) : ch.sites[i].key = x /\ x \in P
<1> DEFINE v == SiteKeys(ch)
           I == Among(ch, P)
<1>1. v \in Seq(ChannelKeys) /\ Len(v) = Len(ch.sites) /\ \A i \in 1..Len(v) : v[i] = ch.sites[i].key
  BY KeysAre
<1>2. DOMAIN v = 1..Len(v) /\ LiveSites(ch) \subseteq 1..Len(v)
  BY <1>1, SitesAre DEF SiteKeys
<1> HIDE DEF v, I
<1>3. In(x, Listed(v, I)) <=> \E m \in DOMAIN v : m \in I /\ v[m] = x
  BY <1>1, ListedPlaces
<1>4. (\E m \in DOMAIN v : m \in I /\ v[m] = x) <=> \E i \in LiveSites(ch) : ch.sites[i].key = x /\ x \in P
  BY <1>1, <1>2 DEF I, Among
<1> QED BY <1>3, <1>4 DEF KeyPart, v, I

OnChannelKeys(c, op) == {k \in ChannelKeys : k.channel = c /\ k.op = op}
InFunction(n)        == {k \in ChannelKeys : n \in {k.fn, display[k.fn]}}

LEMMA EmptyIsNone ==
  ASSUME NEW s \in Seq(ChannelKeys)
  PROVE  s = << >> <=> \A x : ~ In(x, s)
<1>1. s = << >> => DOMAIN s = {}
  OBVIOUS
<1>2. s # << >> => 1 \in DOMAIN s
  OBVIOUS
<1> QED BY <1>1, <1>2 DEF In

LEMMA ChannelCount ==
  ASSUME NEW ch, SitesGood(ch)
  PROVE  ch.live = Len(AllSites(ch))
<1> DEFINE n == Len(ch.sites)
           v == SiteKeys(ch)
           L == LiveSites(ch)
<1>1. SitesStored(ch)
  BY DEF SitesGood
<1>2. n \in Nat /\ L \subseteq 1..n /\ v \in Seq(ChannelKeys) /\ Len(v) = n
  BY <1>1, SitesAre, KeysAre
<1>3. AllSites(ch) = Listed(v, L) /\ ch.live = Cardinality(L)
  BY <1>1, AllSitesAre DEF SitesStored
<1> HIDE DEF n, v, L
<1>4. Len(Listed(v, L)) = Len(InOrder(L, n))
  BY <1>2, ListedType
<1>5. Len(InOrder(L, n)) = Cardinality(L \cap 1..n)
  BY <1>2, InOrderLen
<1>6. L \cap 1..n = L
  BY <1>2
<1> QED BY <1>3, <1>4, <1>5, <1>6

LEMMA ChannelIdsAre ==
  ASSUME NEW ch, SitesGood(ch)
  PROVE  AllChannelIds(ch) = {k.channel : k \in ToSet(AllSites(ch))}
<1>1. SitesStored(ch) /\ ChannelsListed(ch)
  BY DEF SitesGood
<1> DEFINE P(c) == {k \in ChannelKeys : k.channel = c}
<1>2. ASSUME NEW c
      PROVE  /\ AtKey(ch.byChannel, c) = InOrder(ByChannel(ch, c), Len(ch.sites))
             /\ KeysAt(ch, AtKey(ch.byChannel, c)) = KeyPart(ch, P(c))
             /\ KeyPart(ch, P(c)) = << >> <=> \A i \in LiveSites(ch) : ch.sites[i].key.channel # c
  <2>1. AtKey(ch.byChannel, c) = InOrder(ByChannel(ch, c), Len(ch.sites))
    BY <1>1 DEF ChannelsListed
  <2>2. \A i \in LiveSites(ch) : ch.sites[i].key \in ChannelKeys
    BY <1>1, SitesAre DEF SiteRecords, LiveSites
  <2>3. ByChannel(ch, c) = Among(ch, P(c))
    BY <2>2 DEF ByChannel, Among
  <2>4. PICK Q : Q = P(c)
    OBVIOUS
  <2>5. KeysAt(ch, AtKey(ch.byChannel, c)) = KeyPart(ch, Q)
    BY <1>1, <2>1, <2>3, <2>4, PartListedAt
  <2>6. KeyPart(ch, Q) = << >> <=> \A x : ~ In(x, KeyPart(ch, Q))
    BY <1>1, PartSeq, EmptyIsNone
  <2>7. \A x : In(x, KeyPart(ch, Q)) <=> \E i \in LiveSites(ch) : ch.sites[i].key = x /\ x \in Q
    BY <1>1, PartHas
  <2> QED BY <2>1, <2>2, <2>4, <2>5, <2>6, <2>7
<1> HIDE DEF P
<1>3. ASSUME NEW c
      PROVE  c \in AllChannelIds(ch) <=> \E i \in LiveSites(ch) : ch.sites[i].key.channel = c
  <2>1. c \in AllChannelIds(ch) => \E i \in LiveSites(ch) : ch.sites[i].key.channel = c
    BY <1>2 DEF AllChannelIds, AtKey
  <2>2. ASSUME NEW i \in LiveSites(ch), ch.sites[i].key.channel = c PROVE c \in AllChannelIds(ch)
    <3>1. KeyPart(ch, P(c)) # << >>
      BY <1>2, <2>2
    <3>2. c \in DOMAIN ch.byChannel
      <4>1. SUFFICES ASSUME c \notin DOMAIN ch.byChannel PROVE FALSE
        OBVIOUS
      <4>2. AtKey(ch.byChannel, c) = << >>
        BY <4>1 DEF AtKey
      <4>3. InOrder(ByChannel(ch, c), Len(ch.sites)) = << >>
        BY <1>2, <4>2
      <4>4. i \in 1..Len(ch.sites) /\ Len(ch.sites) \in Nat
        BY <1>1, SitesAre
      <4>5. i \in ByChannel(ch, c)
        BY <2>2 DEF ByChannel
      <4>6. \E k \in DOMAIN InOrder(ByChannel(ch, c), Len(ch.sites)) :
               InOrder(ByChannel(ch, c), Len(ch.sites))[k] = i
        <5>1. PICK I, n : I = ByChannel(ch, c) /\ n = Len(ch.sites)
          OBVIOUS
        <5>0. \A m \in Nat : \A j : (\E k \in DOMAIN InOrder(I, m) : InOrder(I, m)[k] = j)
                                   <=> j \in I /\ j \in 1..m
          BY InOrderPlaces
        <5>2. (\E k \in DOMAIN InOrder(I, n) : InOrder(I, n)[k] = i) <=> i \in I /\ i \in 1..n
          BY <4>4, <5>0, <5>1
        <5> QED BY <4>4, <4>5, <5>1, <5>2
      <4>7. DOMAIN << >> = {}
        OBVIOUS
      <4> QED BY <4>3, <4>6, <4>7
    <3>3. KeysAt(ch, ch.byChannel[c]) # << >>
      BY <1>2, <3>1, <3>2 DEF AtKey
    <3> QED BY <3>2, <3>3 DEF AllChannelIds
  <2> QED BY <2>1, <2>2
<1>4. ASSUME NEW x PROVE x \in ToSet(AllSites(ch)) <=> \E i \in LiveSites(ch) : ch.sites[i].key = x
  <2>1. AllSites(ch) = KeyPart(ch, ChannelKeys)
    BY <1>1, PartSites
  <2>2. In(x, AllSites(ch)) <=> \E i \in LiveSites(ch) : ch.sites[i].key = x /\ x \in ChannelKeys
    BY <1>1, <2>1, PartHas
  <2>3. \A i \in LiveSites(ch) : ch.sites[i].key \in ChannelKeys
    BY <1>1, SitesAre DEF SiteRecords, LiveSites
  <2> QED BY <2>2, <2>3 DEF In, ToSet
<1> QED BY <1>3, <1>4

LEMMA ChannelAnswers ==
  ASSUME NEW ch, SitesGood(ch), NEW c
  PROVE  /\ ProducersOf(ch, c) = OnChannel(AllSites(ch), c, "produce")
         /\ ConsumersOf(ch, c) = OnChannel(AllSites(ch), c, "consume")
<1>1. SitesStored(ch) /\ ChannelsListed(ch)
  BY DEF SitesGood
<1>2. PICK P : P = {k \in ChannelKeys : k.channel = c}
  OBVIOUS
<1>3. PICK keys : keys = KeysAt(ch, AtKey(ch.byChannel, c))
  OBVIOUS
<1>4. keys = KeyPart(ch, P)
  <2>1. AtKey(ch.byChannel, c) = InOrder(ByChannel(ch, c), Len(ch.sites))
    BY <1>1 DEF ChannelsListed
  <2>2. \A i \in LiveSites(ch) : ch.sites[i].key \in ChannelKeys
    BY <1>1, SitesAre DEF SiteRecords, LiveSites
  <2>3. ByChannel(ch, c) = Among(ch, P)
    BY <1>2, <2>2 DEF ByChannel, Among
  <2> QED BY <1>1, <1>3, <2>1, <2>3, PartListedAt
<1>5. PICK all : all = AllSites(ch)
  OBVIOUS
<1>6. all = KeyPart(ch, ChannelKeys)
  BY <1>1, <1>5, PartSites
<1>7. ASSUME NEW op PROVE OfOp(keys, op) = OnChannel(all, c, op)
  <2>1. PICK Q : Q = {k \in ChannelKeys : k.op = op}
    OBVIOUS
  <2>2. PICK R : R = OnChannelKeys(c, op)
    OBVIOUS
  <2> DEFINE K == {m \in DOMAIN keys : keys[m].op = op}
             M == {m \in DOMAIN all : all[m].channel = c /\ all[m].op = op}
  <2>3. Picked(K, keys, Q)
    BY <2>1 DEF Picked
  <2>4. Picked(M, all, R)
    BY <2>2 DEF Picked, OnChannelKeys
  <2>5. P \cap Q = ChannelKeys \cap R
    BY <1>2, <2>1, <2>2 DEF OnChannelKeys
  <2>6. OfOp(keys, op) = Listed(keys, K) /\ OnChannel(all, c, op) = Listed(all, M)
    BY DEF OfOp, OnChannel, Only
  <2> HIDE DEF K, M
  <2>7. Listed(keys, K) = KeyPart(ch, P \cap Q)
    BY <1>1, <1>4, <2>3, PartPicked
  <2>8. Listed(all, M) = KeyPart(ch, ChannelKeys \cap R)
    BY <1>1, <1>6, <2>4, PartPicked
  <2> QED BY <2>5, <2>6, <2>7, <2>8
<1> QED BY <1>3, <1>5, <1>7 DEF ProducersOf, ConsumersOf

LEMMA FunctionAnswers ==
  ASSUME NEW ch, SitesGood(ch), NEW n
  PROVE  SitesForFunction(ch, n) = TouchedBy(AllSites(ch), n)
<1>1. SitesStored(ch) /\ FunctionsListed(ch) /\ FunctionNamesListed(ch)
  BY DEF SitesGood
<1>2. \A i \in LiveSites(ch) : ch.sites[i].key \in ChannelKeys /\ ch.sites[i].key.fn \in Fns
  BY <1>1, SitesAre, SiteKeyFields DEF SiteRecords, LiveSites
<1> DEFINE A == ByFunction(ch, n)
           B == ByFunctionName(ch, n)
           R == InFunction(n)
           all == AllSites(ch)
<1>3. KeysAt(ch, AtKey(ch.byFunctionUsr, n)) = Listed(SiteKeys(ch), A)
  <2>1. A \subseteq LiveSites(ch)
    BY DEF ByFunction
  <2> QED BY <1>1, <2>1, KeysListed DEF FunctionsListed
<1>4. KeysAt(ch, AtKey(ch.byFunctionDisplay, n)) = Listed(SiteKeys(ch), B)
  <2>1. B \subseteq LiveSites(ch)
    BY DEF ByFunctionName
  <2> QED BY <1>1, <2>1, KeysListed DEF FunctionNamesListed
<1>5. TouchedBy(all, n) = KeyPart(ch, R)
  <2> DEFINE M == {m \in DOMAIN all : n \in {all[m].fn, display[all[m].fn]}}
  <2>1. TouchedBy(all, n) = Listed(all, M)
    BY DEF TouchedBy, Only
  <2>2. Picked(M, all, R)
    BY DEF Picked, InFunction
  <2>3. ChannelKeys \cap R = R
    BY DEF InFunction
  <2> HIDE DEF M, R, all
  <2>4. all = KeyPart(ch, ChannelKeys)
    BY <1>1, PartSites DEF all
  <2>5. Listed(all, M) = KeyPart(ch, ChannelKeys \cap R)
    BY <1>1, <2>2, <2>4, PartPicked
  <2> QED BY <2>1, <2>3, <2>5
<1>6. /\ SiteKeys(ch) \in Seq(ChannelKeys)
      /\ \A I : Listed(SiteKeys(ch), I) \in Seq(ChannelKeys)
      /\ \A I, J : (\A m \in 1..Len(SiteKeys(ch)) : m \in I <=> m \in J)
                      => Listed(SiteKeys(ch), I) = Listed(SiteKeys(ch), J)
  BY <1>1, KeysAre, ListedType, ListedSame
<1>7. Listed(SiteKeys(ch), {}) = << >>
  <2>1. Len(SiteKeys(ch)) \in Nat
    BY <1>6
  <2>2. InOrder({}, Len(SiteKeys(ch))) = << >>
    BY <2>1, InOrderEmpty
  <2>3. Listed(SiteKeys(ch), {}) = [k \in DOMAIN << >> |-> SiteKeys(ch)[<< >>[k]]]
    BY <2>2 DEF Listed
  <2> QED BY <2>3
<1>8. Among(ch, R) = {i \in LiveSites(ch) : n \in {ch.sites[i].key.fn, display[ch.sites[i].key.fn]}}
  BY <1>2 DEF Among, InFunction
<1>9. CASE n \in Fns
  <2>1. B = {}
    BY <1>2, <1>9, NamesAssumption DEF ByFunctionName
  <2>2. A = Among(ch, R)
    BY <1>2, <1>8, <1>9, NamesAssumption DEF ByFunction
  <2> HIDE DEF A, B, R
  <2> QED BY <1>3, <1>4, <1>5, <1>6, <1>7, <2>1, <2>2 DEF SitesForFunction, KeyPart
<1>10. CASE n \notin Fns
  <2>1. A = {}
    BY <1>2, <1>10 DEF ByFunction
  <2>2. B = Among(ch, R)
    BY <1>2, <1>8, <1>10 DEF ByFunctionName
  <2> HIDE DEF A, B, R
  <2> QED BY <1>3, <1>4, <1>5, <1>6, <1>7, <2>1, <2>2, SMTT(20) DEF SitesForFunction, KeyPart
<1> QED BY <1>9, <1>10

\* Every lookup of the channel index answers what a scan of the live sites does.
LEMMA ChannelsAnswered ==
  ASSUME NEW ch, SitesGood(ch)
  PROVE  ChannelLookupsExact(ch)
BY ChannelCount, ChannelIdsAre, ChannelAnswers, FunctionAnswers DEF ChannelLookupsExact

-----------------------------------------------------------------------------
(* compact.                                                                  *)

(* The live places in order, and the new place of each.                      *)
Renumbers(ch, kept, m) ==
  /\ m \in Nat /\ kept \in Seq(Nat) /\ Len(kept) = m /\ DOMAIN kept = 1..m
  /\ m = Cardinality(LiveSites(ch))
  /\ \A k \in 1..m : kept[k] \in LiveSites(ch) /\ NewPlace(ch, kept[k]) = k
  /\ \A i \in LiveSites(ch) : NewPlace(ch, i) \in 1..m /\ kept[NewPlace(ch, i)] = i
  /\ \A i, j \in LiveSites(ch) : i < j => NewPlace(ch, i) < NewPlace(ch, j)

LEMMA KeptPlaces ==
  ASSUME NEW ch, SitesStored(ch)
  PROVE  Renumbers(ch, Kept(ch), Len(Kept(ch)))
<1>1. PICK L, n, kept, m : /\ L = LiveSites(ch) /\ n = Len(ch.sites)
                           /\ kept = Kept(ch) /\ m = Len(kept)
  OBVIOUS
<1>2. n \in Nat /\ L \subseteq 1..n
  BY <1>1, SitesAre
<1>3. kept = InOrder(L, n)
  BY <1>1 DEF Kept
<1>4. kept \in Seq(Nat) /\ \A k \in DOMAIN kept : kept[k] \in L
  BY <1>2, <1>3, InOrderType
<1>5. m \in Nat /\ DOMAIN kept = 1..m
  BY <1>1, <1>4
<1>6. m = Cardinality(L)
  <2>1. Len(InOrder(L, n)) = Cardinality(L \cap 1..n)
    BY <1>2, InOrderLen
  <2>2. L \cap 1..n = L
    BY <1>2
  <2> QED BY <1>1, <1>3, <2>1, <2>2
<1>7. \A i \in L : \E k \in DOMAIN kept : kept[k] = i
  <2>1. \A k \in Nat : \A i : (\E j \in DOMAIN InOrder(L, k) : InOrder(L, k)[j] = i) <=> i \in L /\ i \in 1..k
    BY InOrderPlaces
  <2> QED BY <1>2, <1>3, <2>1
<1>8. \A k, j \in DOMAIN kept : k < j => kept[k] < kept[j]
  <2>1. Ascending(kept)
    BY <1>2, <1>3, InOrderAscending
  <2> QED BY <2>1 DEF Ascending
<1>9. \A k, j \in 1..m : kept[k] = kept[j] => k = j
  <2> SUFFICES ASSUME NEW k \in 1..m, NEW j \in 1..m, kept[k] = kept[j] PROVE k = j
    OBVIOUS
  <2>1. kept[k] \in Nat /\ k \in Nat /\ j \in Nat
    BY <1>4, <1>5
  <2>2. ~ (k < j) /\ ~ (j < k)
    BY <1>5, <1>8, <2>1
  <2> QED BY <2>1, <2>2
<1>10. ASSUME NEW i \in L
       PROVE  NewPlace(ch, i) \in 1..m /\ kept[NewPlace(ch, i)] = i
  <2>1. NewPlace(ch, i) = CHOOSE k \in DOMAIN kept : kept[k] = i
    BY <1>1 DEF NewPlace
  <2>2. \E k \in DOMAIN kept : kept[k] = i
    BY <1>7
  <2> QED BY <1>5, <2>1, <2>2
<1>11. ASSUME NEW k \in 1..m
       PROVE  kept[k] \in L /\ NewPlace(ch, kept[k]) = k
  <2>1. kept[k] \in L
    BY <1>4, <1>5
  <2>2. NewPlace(ch, kept[k]) \in 1..m /\ kept[NewPlace(ch, kept[k])] = kept[k]
    BY <1>10, <2>1
  <2> QED BY <1>9, <2>1, <2>2
<1>12. ASSUME NEW i \in L, NEW j \in L, i < j
       PROVE  NewPlace(ch, i) < NewPlace(ch, j)
  <2>1. PICK a, b : a = NewPlace(ch, i) /\ b = NewPlace(ch, j)
    OBVIOUS
  <2>2. a \in 1..m /\ b \in 1..m /\ kept[a] = i /\ kept[b] = j
    BY <1>10, <2>1
  <2>3. i \in Nat /\ j \in Nat
    BY <1>2
  <2>4. a # b /\ ~ (b < a)
    BY <1>5, <1>8, <1>12, <2>2, <2>3
  <2> QED BY <1>5, <2>1, <2>2, <2>4
<1> QED BY <1>1, <1>4, <1>5, <1>6, <1>10, <1>11, <1>12 DEF Renumbers

LEMMA MovedSeq ==
  ASSUME NEW ch, SitesStored(ch), NEW m, m = Len(Kept(ch)), NEW s \in Seq(LiveSites(ch))
  PROVE  /\ Moved(ch, s) \in Seq(1..m) /\ DOMAIN Moved(ch, s) = DOMAIN s
         /\ \A k \in DOMAIN s : s[k] \in LiveSites(ch) /\ Moved(ch, s)[k] = NewPlace(ch, s[k])
         /\ \A i \in LiveSites(ch) : Times(NewPlace(ch, i), Moved(ch, s)) = Times(i, s)
<1>1. PICK L, r : L = LiveSites(ch) /\ r = Moved(ch, s)
  OBVIOUS
<1>2. s \in Seq(L) /\ Len(s) \in Nat /\ DOMAIN s = 1..Len(s) /\ \A k \in DOMAIN s : s[k] \in L
  BY <1>1
<1>3. r = [k \in DOMAIN s |-> NewPlace(ch, s[k])]
  <2> DEFINE K == {k \in DOMAIN s : ch.sites[s[k]].live}
  <2>1. r = [k \in DOMAIN Listed(s, K) |-> NewPlace(ch, Listed(s, K)[k])]
    BY <1>1 DEF Moved, Only
  <2>2. K = DOMAIN s
    BY <1>1, <1>2 DEF LiveSites
  <2> HIDE DEF K
  <2>3. Listed(s, K) = s
    BY <1>2, <2>2, ListedAll
  <2> QED BY <2>1, <2>3
<1>4. Renumbers(ch, Kept(ch), m)
  BY KeptPlaces
<1>5. \A k \in DOMAIN s : r[k] = NewPlace(ch, s[k]) /\ r[k] \in 1..m
  BY <1>1, <1>2, <1>3, <1>4 DEF Renumbers
<1>6. r \in Seq(1..m) /\ DOMAIN r = DOMAIN s
  <2>1. r = [k \in 1..Len(s) |-> r[k]]
    BY <1>2, <1>3
  <2>2. \A k \in 1..Len(s) : r[k] \in 1..m
    BY <1>2, <1>5
  <2>3. r \in Seq(1..m)
    BY <1>2, <2>1, <2>2, AsSeq
  <2> QED BY <1>3, <2>3
<1>7. ASSUME NEW i \in L
      PROVE  Times(NewPlace(ch, i), r) = Times(i, s)
  <2>1. \A j \in L : NewPlace(ch, j) = NewPlace(ch, i) <=> j = i
    BY <1>1, <1>4 DEF Renumbers
  <2>2. \A k \in DOMAIN s : r[k] = NewPlace(ch, i) <=> s[k] = i
    BY <1>2, <1>5, <2>1
  <2>3. {k \in DOMAIN r : r[k] = NewPlace(ch, i)} = {k \in DOMAIN s : s[k] = i}
    BY <1>6, <2>2
  <2> QED BY <2>3 DEF Times
<1> QED BY <1>1, <1>2, <1>5, <1>6, <1>7

(* B are the new places of the live places A.                                *)
MovesTo(ch, A, B) ==
  A \subseteq LiveSites(ch) /\ \A i \in LiveSites(ch) : NewPlace(ch, i) \in B <=> i \in A

LEMMA MovedListed ==
  ASSUME NEW ch, SitesStored(ch), NEW A, NEW B, MovesTo(ch, A, B)
  PROVE  Moved(ch, InOrder(A, Len(ch.sites))) = InOrder(B, Len(Kept(ch)))
<1> DEFINE m == Len(Kept(ch))
<1>0. A \subseteq LiveSites(ch) /\ \A i \in LiveSites(ch) : NewPlace(ch, i) \in B <=> i \in A
  BY DEF MovesTo
<1> HIDE DEF m
<1>1. PICK n, s, r : n = Len(ch.sites) /\ s = InOrder(A, n) /\ r = Moved(ch, s)
  OBVIOUS
<1>2. n \in Nat /\ LiveSites(ch) \subseteq 1..n
  BY <1>1, SitesAre
<1>3. \A k \in DOMAIN s : s[k] \in A
  BY <1>1, <1>2, InOrderType
<1>4. s \in Seq(LiveSites(ch))
  <2>1. s \in Seq(Nat)
    BY <1>1, <1>2, InOrderType
  <2>2. s = [k \in 1..Len(s) |-> s[k]] /\ Len(s) \in Nat /\ \A k \in 1..Len(s) : s[k] \in LiveSites(ch)
    BY <1>0, <1>3, <2>1
  <2> QED BY <2>2, AsSeq
<1>5. /\ r \in Seq(1..m) /\ DOMAIN r = DOMAIN s
      /\ \A k \in DOMAIN s : s[k] \in LiveSites(ch) /\ r[k] = NewPlace(ch, s[k])
  BY <1>1, <1>4, MovedSeq DEF m
<1>6. Renumbers(ch, Kept(ch), m)
  BY KeptPlaces DEF m
<1>7. m \in Nat
  BY <1>6 DEF Renumbers
<1>8. r \in Seq(Nat)
  <2>1. 1..m \subseteq Nat
    BY <1>7
  <2> QED BY <1>5, <2>1, SeqWider
<1>9. Ascending(r)
  <2>1. Ascending(s)
    BY <1>1, <1>2, InOrderAscending
  <2>2. \A i, j \in LiveSites(ch) : i < j => NewPlace(ch, i) < NewPlace(ch, j)
    BY <1>6 DEF Renumbers
  <2>3. \A k, j \in DOMAIN s : k < j => s[k] < s[j]
    BY <2>1 DEF Ascending
  <2> QED BY <1>5, <2>2, <2>3 DEF Ascending
<1>10. Enumerates(r, B, m)
  <2> SUFFICES ASSUME NEW x
               PROVE  (\E k \in DOMAIN r : r[k] = x) <=> x \in B /\ x \in 1..m
    BY DEF Enumerates
  <2>1. ASSUME NEW k \in DOMAIN r, r[k] = x PROVE x \in B /\ x \in 1..m
    <3>1. s[k] \in A /\ s[k] \in LiveSites(ch) /\ x = NewPlace(ch, s[k])
      BY <1>3, <1>5, <2>1
    <3> QED BY <1>0, <1>6, <3>1 DEF Renumbers
  <2>2. ASSUME x \in B, x \in 1..m PROVE \E k \in DOMAIN r : r[k] = x
    <3>1. PICK i : i \in LiveSites(ch) /\ NewPlace(ch, i) = x
      BY <1>6, <2>2 DEF Renumbers
    <3>2. i \in A /\ i \in 1..n
      BY <1>0, <1>2, <2>2, <3>1
    <3>3. \A k \in Nat : \A j : (\E h \in DOMAIN InOrder(A, k) : InOrder(A, k)[h] = j) <=> j \in A /\ j \in 1..k
      BY InOrderPlaces
    <3>4. \E k \in DOMAIN s : s[k] = i
      BY <1>1, <1>2, <3>2, <3>3
    <3> QED BY <1>5, <3>1, <3>4
  <2> QED BY <2>1, <2>2
<1>11. r = InOrder(B, m)
  BY <1>7, <1>8, <1>9, <1>10, AscendingIs
<1> QED BY <1>1, <1>11 DEF m

LEMMA MovedKeysAt ==
  ASSUME NEW ch, SitesStored(ch), NEW map, NEW k
  PROVE  At(MovedKeys(ch, map), k) = Moved(ch, At(map, k))
<1>1. CASE k \in DOMAIN map
  BY <1>1 DEF At, MovedKeys
<1>2. CASE k \notin DOMAIN map
  <2>1. At(map, k) = << >> /\ At(MovedKeys(ch, map), k) = << >>
    BY <1>2 DEF At, MovedKeys
  <2>2. Moved(ch, << >>) = << >>
    <3>1. << >> \in Seq(LiveSites(ch)) /\ DOMAIN << >> = {}
      OBVIOUS
    <3>2. PICK r : r = Moved(ch, << >>)
      OBVIOUS
    <3>3. r \in Seq(1..Len(Kept(ch))) /\ DOMAIN r = {}
      BY <3>1, <3>2, MovedSeq
    <3>4. r = << >>
      BY <3>3
    <3> QED BY <3>2, <3>4
  <2> QED BY <2>1, <2>2
<1> QED BY <1>1, <1>2

(* The same sites, each as often registered by each TU, in the same order.   *)
Recast(ch, jx) ==
  /\ SitesGood(jx) /\ SitesHeld(jx)
  /\ \A q : \A t \in TUs : Noted(jx, q, t) = Noted(ch, q, t)
  /\ AllSites(jx) = AllSites(ch)

(* The live sites of ch, renumbered.                                         *)
Packed(ch, jx, kept, m) ==
  /\ DOMAIN jx = SiteFields
  /\ jx.sites = [k \in 1..m |-> ch.sites[kept[k]]]
  /\ jx.index = [k \in DOMAIN ch.index |-> NewPlace(ch, ch.index[k])]
  /\ jx.byChannel = MovedKeys(ch, ch.byChannel)
  /\ jx.byFunctionUsr = MovedKeys(ch, ch.byFunctionUsr)
  /\ jx.byFunctionDisplay = MovedKeys(ch, ch.byFunctionDisplay)
  /\ jx.byTu = [t \in TUs |-> Moved(ch, ch.byTu[t])]
  /\ jx.live = ch.live

LEMMA CompactFields ==
  ASSUME NEW ch, SitesGood(ch), NEW kept, kept = Kept(ch), NEW m, m = Len(kept),
         NEW jx, jx = CompactSites(ch)
  PROVE  Packed(ch, jx, kept, m)
<1>1. DOMAIN ch = SiteFields
  BY DEF SitesGood, SitesStored
<1>2. DOMAIN kept = 1..m
  BY KeptPlaces DEF Renumbers, SitesGood
<1>3. {k \in DOMAIN ch.index : ch.sites[ch.index[k]].live} = DOMAIN ch.index
  BY DEF SitesGood, KeysIndexed, LiveSites
<1> QED BY <1>1, <1>2, <1>3 DEF CompactSites, Packed, SiteFields

LEMMA PackedPlaces ==
  ASSUME NEW ch, SitesGood(ch), NEW kept, kept = Kept(ch), NEW m, m = Len(kept),
         NEW jx, Packed(ch, jx, kept, m)
  PROVE  /\ m \in Nat /\ jx.sites \in Seq(SiteRecords) /\ Len(jx.sites) = m /\ LiveSites(jx) = 1..m
         /\ \A k \in 1..m : jx.sites[k] = ch.sites[kept[k]] /\ kept[k] \in LiveSites(ch)
         /\ \A i \in LiveSites(ch) : jx.sites[NewPlace(ch, i)] = ch.sites[i]
<1>1. Renumbers(ch, kept, m)
  BY KeptPlaces DEF SitesGood
<1>2. m \in Nat /\ \A k \in 1..m : kept[k] \in LiveSites(ch)
  BY <1>1 DEF Renumbers
<1>3. jx.sites = [k \in 1..m |-> ch.sites[kept[k]]]
  BY DEF Packed
<1>4. \A i \in LiveSites(ch) : i \in DOMAIN ch.sites /\ ch.sites[i] \in SiteRecords /\ ch.sites[i].live
  BY LivePlaces
<1>5. \A k \in 1..m : jx.sites[k] = ch.sites[kept[k]] /\ jx.sites[k] \in SiteRecords /\ jx.sites[k].live
  BY <1>2, <1>3, <1>4
<1>6. jx.sites \in Seq(SiteRecords) /\ Len(jx.sites) = m /\ DOMAIN jx.sites = 1..m
  <2>1. PICK s : s = jx.sites
    OBVIOUS
  <2>2. s = [k \in 1..m |-> s[k]] /\ \A k \in 1..m : s[k] \in SiteRecords
    BY <1>3, <1>5, <2>1
  <2> QED BY <1>2, <2>1, <2>2, AsSeq
<1>7. LiveSites(jx) = 1..m
  BY <1>5, <1>6 DEF LiveSites
<1>8. \A i \in LiveSites(ch) : jx.sites[NewPlace(ch, i)] = ch.sites[i]
  BY <1>1, <1>5 DEF Renumbers
<1> QED BY <1>2, <1>5, <1>6, <1>7, <1>8

LEMMA PackedGood ==
  ASSUME NEW ch, SitesGood(ch), NEW kept, kept = Kept(ch), NEW m, m = Len(kept),
         NEW jx, Packed(ch, jx, kept, m)
  PROVE  SitesGood(jx)
<1>1. SitesStored(ch) /\ KeysIndexed(ch) /\ ChannelsListed(ch) /\ FunctionsListed(ch) /\ FunctionNamesListed(ch)
  BY DEF SitesGood
<1>2. Renumbers(ch, kept, m)
  BY <1>1, KeptPlaces
<1>3. /\ m \in Nat /\ jx.sites \in Seq(SiteRecords) /\ Len(jx.sites) = m /\ LiveSites(jx) = 1..m
      /\ \A k \in 1..m : jx.sites[k] = ch.sites[kept[k]] /\ kept[k] \in LiveSites(ch)
      /\ \A i \in LiveSites(ch) : jx.sites[NewPlace(ch, i)] = ch.sites[i]
  BY PackedPlaces
<1>4. /\ \A i \in LiveSites(ch) : NewPlace(ch, i) \in 1..m /\ kept[NewPlace(ch, i)] = i
      /\ \A k \in 1..m : NewPlace(ch, kept[k]) = k
  BY <1>2 DEF Renumbers
<1>5. SitesStored(jx)
  <2>1. jx.live = m
    BY <1>1, <1>2 DEF Packed, SitesStored, Renumbers
  <2>2. Cardinality(1..m) = m
    <3>1. 1 \in Int /\ m \in Int
      BY <1>3
    <3>2. Cardinality(1..m) = IF 1 > m THEN 0 ELSE m - 1 + 1
      BY <3>1, FS_Interval
    <3> QED BY <1>3, <3>2
  <2>3. DOMAIN jx = SiteFields
    BY DEF Packed
  <2> QED BY <1>3, <2>1, <2>2, <2>3 DEF SitesStored
<1>6. KeysIndexed(jx)
  <2>1. jx.index = [k \in DOMAIN ch.index |-> NewPlace(ch, ch.index[k])]
    BY DEF Packed
  <2>2. \A y \in DOMAIN ch.index : ch.index[y] \in LiveSites(ch) /\ ch.sites[ch.index[y]].key = y
    BY <1>1 DEF KeysIndexed
  <2>3. \A i \in LiveSites(ch) : ch.sites[i].key \in DOMAIN ch.index /\ ch.index[ch.sites[i].key] = i
    BY <1>1 DEF KeysIndexed
  <2>4. \A y \in DOMAIN jx.index : jx.index[y] \in LiveSites(jx) /\ jx.sites[jx.index[y]].key = y
    BY <1>3, <1>4, <2>1, <2>2
  <2>5. ASSUME NEW k \in LiveSites(jx)
        PROVE  jx.sites[k].key \in DOMAIN jx.index /\ jx.index[jx.sites[k].key] = k
    BY <1>3, <1>4, <2>1, <2>3
  <2> QED BY <2>4, <2>5 DEF KeysIndexed
<1>7. ChannelsListed(jx)
  <2> SUFFICES ASSUME NEW c PROVE At(jx.byChannel, c) = InOrder(ByChannel(jx, c), m)
    BY <1>3, SameMaps DEF ChannelsListed
  <2>1. At(ch.byChannel, c) = InOrder(ByChannel(ch, c), Len(ch.sites))
    BY <1>1, SameMaps DEF ChannelsListed
  <2>2. At(jx.byChannel, c) = Moved(ch, At(ch.byChannel, c))
    BY <1>1, MovedKeysAt DEF Packed
  <2>3. \A i \in LiveSites(ch) : NewPlace(ch, i) \in ByChannel(jx, c) <=> i \in ByChannel(ch, c)
    BY <1>3, <1>4 DEF ByChannel
  <2>4. PICK A, B : A = ByChannel(ch, c) /\ B = ByChannel(jx, c)
    OBVIOUS
  <2>5. MovesTo(ch, A, B)
    BY <2>3, <2>4 DEF ByChannel, MovesTo
  <2>6. Moved(ch, InOrder(A, Len(ch.sites))) = InOrder(B, Len(Kept(ch)))
    BY <1>1, <2>5, MovedListed
  <2> QED BY <2>1, <2>2, <2>4, <2>6
<1>8. FunctionsListed(jx)
  <2> SUFFICES ASSUME NEW c PROVE At(jx.byFunctionUsr, c) = InOrder(ByFunction(jx, c), m)
    BY <1>3, SameMaps DEF FunctionsListed
  <2>1. At(ch.byFunctionUsr, c) = InOrder(ByFunction(ch, c), Len(ch.sites))
    BY <1>1, SameMaps DEF FunctionsListed
  <2>2. At(jx.byFunctionUsr, c) = Moved(ch, At(ch.byFunctionUsr, c))
    BY <1>1, MovedKeysAt DEF Packed
  <2>3. \A i \in LiveSites(ch) : NewPlace(ch, i) \in ByFunction(jx, c) <=> i \in ByFunction(ch, c)
    BY <1>3, <1>4 DEF ByFunction
  <2>4. PICK A, B : A = ByFunction(ch, c) /\ B = ByFunction(jx, c)
    OBVIOUS
  <2>5. MovesTo(ch, A, B)
    BY <2>3, <2>4 DEF ByFunction, MovesTo
  <2>6. Moved(ch, InOrder(A, Len(ch.sites))) = InOrder(B, Len(Kept(ch)))
    BY <1>1, <2>5, MovedListed
  <2> QED BY <2>1, <2>2, <2>4, <2>6
<1>9. FunctionNamesListed(jx)
  <2> SUFFICES ASSUME NEW c PROVE At(jx.byFunctionDisplay, c) = InOrder(ByFunctionName(jx, c), m)
    BY <1>3, SameMaps DEF FunctionNamesListed
  <2>1. At(ch.byFunctionDisplay, c) = InOrder(ByFunctionName(ch, c), Len(ch.sites))
    BY <1>1, SameMaps DEF FunctionNamesListed
  <2>2. At(jx.byFunctionDisplay, c) = Moved(ch, At(ch.byFunctionDisplay, c))
    BY <1>1, MovedKeysAt DEF Packed
  <2>3. \A i \in LiveSites(ch) : NewPlace(ch, i) \in ByFunctionName(jx, c) <=> i \in ByFunctionName(ch, c)
    BY <1>3, <1>4 DEF ByFunctionName
  <2>4. PICK A, B : A = ByFunctionName(ch, c) /\ B = ByFunctionName(jx, c)
    OBVIOUS
  <2>5. MovesTo(ch, A, B)
    BY <2>3, <2>4 DEF ByFunctionName, MovesTo
  <2>6. Moved(ch, InOrder(A, Len(ch.sites))) = InOrder(B, Len(Kept(ch)))
    BY <1>1, <2>5, MovedListed
  <2> QED BY <2>1, <2>2, <2>4, <2>6
<1> QED BY <1>5, <1>6, <1>7, <1>8, <1>9 DEF SitesGood

\* All sites, when all are live.
LEMMA AllLive ==
  ASSUME NEW ch, SitesStored(ch), LiveSites(ch) = DOMAIN ch.sites
  PROVE  AllSites(ch) = SiteKeys(ch)
<1>1. PICK v : v = SiteKeys(ch)
  OBVIOUS
<1>2. v \in Seq(ChannelKeys) /\ Len(v) = Len(ch.sites) /\ DOMAIN v = DOMAIN ch.sites
  BY <1>1, KeysAre DEF SiteKeys
<1>3. AllSites(ch) = Listed(v, DOMAIN v)
  BY <1>1, <1>2, AllSitesAre
<1>4. Listed(v, DOMAIN v) = v
  BY <1>2, ListedAll
<1> QED BY <1>1, <1>3, <1>4

\* All sites are those of the live places in order.
LEMMA AllSitesKept ==
  ASSUME NEW ch, SitesStored(ch), NEW kept, kept = Kept(ch)
  PROVE  AllSites(ch) = [k \in DOMAIN kept |-> ch.sites[kept[k]].key]
<1>1. PICK n, v : n = Len(ch.sites) /\ v = SiteKeys(ch)
  OBVIOUS
<1>2. Len(v) = n /\ \A i \in 1..n : v[i] = ch.sites[i].key
  BY <1>1, KeysAre
<1>3. AllSites(ch) = Listed(v, LiveSites(ch)) /\ kept = InOrder(LiveSites(ch), n)
  BY <1>1, AllSitesAre DEF Kept
<1>4. AllSites(ch) = [k \in DOMAIN kept |-> v[kept[k]]]
  BY <1>2, <1>3 DEF Listed
<1>5. \A k \in DOMAIN kept : kept[k] \in 1..n
  <2>1. n \in Nat
    BY <1>1, SitesAre
  <2> QED BY <1>3, <2>1, InOrderType
<1> QED BY <1>2, <1>4, <1>5

LEMMA CompactSitesOk ==
  ASSUME NEW ch, SitesGood(ch), SitesHeld(ch), NEW jx, jx = CompactSites(ch)
  PROVE  Recast(ch, jx)
<1>1. PICK kept, m : kept = Kept(ch) /\ m = Len(kept)
  OBVIOUS
<1>2. Packed(ch, jx, kept, m)
  BY <1>1, CompactFields
<1>3. SitesGood(jx)
  BY <1>1, <1>2, PackedGood
<1>4. /\ m \in Nat /\ jx.sites \in Seq(SiteRecords) /\ Len(jx.sites) = m /\ LiveSites(jx) = 1..m
      /\ \A k \in 1..m : jx.sites[k] = ch.sites[kept[k]] /\ kept[k] \in LiveSites(ch)
      /\ \A i \in LiveSites(ch) : jx.sites[NewPlace(ch, i)] = ch.sites[i]
  BY <1>1, <1>2, PackedPlaces
<1>5. /\ \A i \in LiveSites(ch) : NewPlace(ch, i) \in 1..m
      /\ \A k \in 1..m : NewPlace(ch, kept[k]) = k
  BY <1>1, KeptPlaces DEF Renumbers, SitesGood
<1>6. AreLists(ch.byTu, TUs, LiveSites(ch)) /\ IsFiniteSet(TUs)
      /\ \A t \in TUs : ch.byTu[t] \in Seq(LiveSites(ch))
  BY KeepsLists
<1>7. jx.byTu = [t \in TUs |-> Moved(ch, ch.byTu[t])]
  BY <1>2 DEF Packed
<1>8. ASSUME NEW t \in TUs
      PROVE  /\ jx.byTu[t] \in Seq(1..m)
             /\ \A i \in LiveSites(ch) : Times(NewPlace(ch, i), jx.byTu[t]) = Times(i, ch.byTu[t])
  <2>1. PICK s : s = ch.byTu[t]
    OBVIOUS
  <2>2. s \in Seq(LiveSites(ch)) /\ jx.byTu[t] = Moved(ch, s)
    BY <1>6, <1>7, <2>1
  <2>3. Moved(ch, s) \in Seq(1..m) /\ \A i \in LiveSites(ch) : Times(NewPlace(ch, i), Moved(ch, s)) = Times(i, s)
    BY <1>1, <2>2, MovedSeq DEF SitesGood
  <2> QED BY <2>1, <2>2, <2>3
<1>9. jx.byTu \in [TUs -> Seq(1..m)]
  BY <1>7, <1>8
<1>10. ASSUME NEW k \in 1..m
       PROVE  jx.sites[k].refs = Registered(jx, TUs, k) /\ jx.sites[k].refs > 0
  <2>1. PICK i : i = kept[k]
    OBVIOUS
  <2>2. i \in LiveSites(ch) /\ NewPlace(ch, i) = k /\ jx.sites[k] = ch.sites[i]
    BY <1>4, <1>5, <2>1
  <2>3. \A t \in TUs : Times(k, jx.byTu[t]) = Times(i, ch.byTu[t])
    BY <1>8, <2>2
  <2>4. AreLists(jx.byTu, TUs, 1..m)
    BY <1>8 DEF AreLists
  <2>5. Occurrences(k, jx.byTu, TUs) = Occurrences(i, ch.byTu, TUs)
    BY <1>6, <2>3, <2>4, OccurrencesSame
  <2>6. ch.sites[i].refs = Registered(ch, TUs, i) /\ ch.sites[i].refs > 0
    BY <2>2 DEF SitesHeld
  <2> QED BY <2>2, <2>5, <2>6 DEF Registered
<1>11. SitesHeld(jx)
  BY <1>4, <1>9, <1>10 DEF SitesHeld
<1>12. ASSUME NEW q, NEW t \in TUs PROVE Noted(jx, q, t) = Noted(ch, q, t)
  <2>1. jx.index = [k \in DOMAIN ch.index |-> NewPlace(ch, ch.index[k])]
    BY <1>2 DEF Packed
  <2>2. q \in DOMAIN ch.index => ch.index[q] \in LiveSites(ch)
    BY DEF SitesGood, KeysIndexed
  <2> QED BY <1>8, <2>1, <2>2 DEF Noted
<1>13. AllSites(jx) = AllSites(ch)
  <2>1. SitesStored(jx) /\ SitesStored(ch)
    BY <1>3 DEF SitesGood
  <2>2. jx.sites = [k \in 1..m |-> ch.sites[kept[k]]]
    BY <1>2 DEF Packed
  <2>3. DOMAIN jx.sites = 1..m
    BY <2>2
  <2>4. AllSites(jx) = [k \in 1..m |-> jx.sites[k].key]
    BY <1>4, <2>1, <2>3, AllLive DEF SiteKeys
  <2>5. AllSites(ch) = [k \in DOMAIN kept |-> ch.sites[kept[k]].key]
    BY <1>1, <2>1, AllSitesKept
  <2>6. DOMAIN kept = 1..m
    BY <1>1, <2>1, KeptPlaces DEF Renumbers
  <2> QED BY <1>4, <2>4, <2>5, <2>6
<1> QED BY <1>3, <1>11, <1>12, <1>13 DEF Recast

-----------------------------------------------------------------------------
(* The channel section of the snapshot.                                      *)

(* The contributors of site i, each as often as it registered it.            *)
Contribute(ch, tus, i) ==
  tus \in Seq(TUs) /\ \A t \in TUs : Times(t, tus) = Times(i, ch.byTu[t])

LEMMA ContributorsAre ==
  ASSUME NEW ch, SitesHeld(ch), NEW order \in SetToSeqs(TUs), NEW i
  PROVE  Contribute(ch, Contributors(ch, order, i), i)
<1>1. PICK R : R = [t \in TUs |-> Times(i, ch.byTu[t])]
  OBVIOUS
<1>2. R \in [TUs -> Nat]
  <2>1. \A t \in TUs : Times(i, ch.byTu[t]) \in Nat
    BY KeepsLists
  <2> QED BY <1>1, <2>1
<1>3. /\ order \in Seq(TUs) /\ Distinct(order)
      /\ \A t \in TUs : \E n \in DOMAIN order : order[n] = t
  BY OrderFacts, TUsAssumption
<1>4. Contributors(ch, order, i) = FlattenSeq(Runs(order, R))
  <2>1. \A n \in DOMAIN order : order[n] \in TUs
    BY <1>3
  <2>2. \A n \in DOMAIN order : R[order[n]] = Times(i, ch.byTu[order[n]])
    BY <1>1, <2>1
  <2>3. Runs(order, R) = [n \in DOMAIN order |-> [m \in 1..Times(i, ch.byTu[order[n]]) |-> order[n]]]
    BY <2>2 DEF Runs, Run
  <2> QED BY <2>3 DEF Contributors
<1>5. /\ FlattenSeq(Runs(order, R)) \in Seq(TUs)
      /\ \A t \in TUs : Times(t, FlattenSeq(Runs(order, R)))
                          = IF \E n \in DOMAIN order : order[n] = t THEN R[t] ELSE 0
  BY <1>2, <1>3, RunsFlat
<1> QED BY <1>1, <1>3, <1>4, <1>5 DEF Contribute

LEMMA HeadOf ==
  ASSUME NEW S, NEW s \in Seq(S), NEW x, Times(x, s) > 0
  PROVE  Head(s) \in S /\ Times(Head(s), s) > 0
<1>1. PICK k \in DOMAIN s : s[k] = x
  BY TimesIn
<1>2. 1 \in DOMAIN s /\ Head(s) = s[1] /\ s[1] \in S
  BY <1>1
<1> QED BY <1>2, TimesIn

(* One site as it is written.                                                *)
Written(ch, s, i) ==
  /\ s.key = ch.sites[i].key /\ s.refs = ch.sites[i].refs
  /\ s.key \in ChannelKeys /\ s.refs \in Nat
  /\ s.tus \in Seq(TUs) /\ Head(s.tus) \in TUs /\ Times(Head(s.tus), s.tus) > 0
  /\ \A t \in TUs : Times(t, s.tus) = Times(i, ch.byTu[t]) /\ Times(t, s.tus) \in Nat

LEMMA SavedSites ==
  ASSUME NEW ch, SitesGood(ch), SitesHeld(ch), NEW order \in SetToSeqs(TUs),
         NEW kept, kept = Kept(ch), NEW file, file = SaveSites(ch, order)
  PROVE  /\ DOMAIN file = DOMAIN kept /\ Len(file) = Len(kept)
         /\ \A k \in DOMAIN kept : Written(ch, file[k], kept[k])
<1>1. PICK m : m = Len(kept)
  OBVIOUS
<1>2. Renumbers(ch, kept, m)
  BY <1>1, KeptPlaces DEF SitesGood
<1>3. m \in Nat /\ DOMAIN kept = 1..m /\ \A k \in 1..m : kept[k] \in LiveSites(ch)
  BY <1>2 DEF Renumbers
<1>4. file = [k \in 1..m |-> [key |-> ch.sites[kept[k]].key, refs |-> ch.sites[kept[k]].refs,
                              tus |-> Contributors(ch, order, kept[k])]]
  BY <1>3 DEF SaveSites
<1>5. DOMAIN file = 1..m /\ Len(file) = m
  BY <1>3, <1>4
<1>6. ASSUME NEW k \in 1..m PROVE Written(ch, file[k], kept[k])
  <2>1. PICK i, tus : i = kept[k] /\ tus = Contributors(ch, order, i)
    OBVIOUS
  <2>2. i \in LiveSites(ch) /\ ch.sites[i] \in SiteRecords
    BY <1>3, <2>1, LivePlaces
  <2>3. file[k].key = ch.sites[i].key /\ file[k].refs = ch.sites[i].refs /\ file[k].tus = tus
    BY <1>4, <2>1
  <2>4. ch.sites[i].key \in ChannelKeys /\ ch.sites[i].refs \in Nat
    BY <2>2 DEF SiteRecords
  <2>5. tus \in Seq(TUs) /\ \A t \in TUs : Times(t, tus) = Times(i, ch.byTu[t])
    BY <2>1, ContributorsAre DEF Contribute
  <2>6. \A t \in TUs : Times(i, ch.byTu[t]) \in Nat
    BY KeepsLists
  <2>7. Head(tus) \in TUs /\ Times(Head(tus), tus) > 0
    <3>1. Occurrences(i, ch.byTu, TUs) # 0
      BY <2>2 DEF SitesHeld, Registered
    <3>2. PICK t \in TUs : Times(i, ch.byTu[t]) # 0
      <4>1. Occurrences(i, ch.byTu, TUs) = 0 <=> \A t \in TUs : Times(i, ch.byTu[t]) = 0
        BY KeepsLists, OccurrencesNone
      <4> QED BY <3>1, <4>1
    <3>3. Times(t, tus) > 0
      BY <2>5, <2>6, <3>2
    <3> QED BY <2>5, <3>3, HeadOf
  <2> QED BY <2>1, <2>3, <2>4, <2>5, <2>6, <2>7 DEF Written
<1> QED BY <1>1, <1>3, <1>5, <1>6

(* f is what LoadSites computes for the first n sites of the file.           *)
Loads(f, file, b, n) ==
  f = [m \in 0..n |-> IF m = 0 THEN EmptyChannels ELSE LoadSite(f[m-1], file[m], b)]

LEMMA LoadsExists ==
  ASSUME NEW file, NEW b
  PROVE  \A n \in Nat : \E f : Loads(f, file, b, n)
<1> DEFINE T == {n \in Nat : \E f : Loads(f, file, b, n)}
<1>1. 0 \in T
  <2>1. Loads([m \in 0..0 |-> EmptyChannels], file, b, 0)
    BY DEF Loads
  <2> QED BY <2>1
<1>2. ASSUME NEW n \in Nat, n \in T PROVE n + 1 \in T
  <2>1. PICK f : Loads(f, file, b, n)
    BY <1>2
  <2> DEFINE g == [m \in 0..n+1 |-> IF m = n + 1 THEN LoadSite(f[n], file[m], b) ELSE f[m]]
  <2>2. \A m \in 0..n : f[m] = IF m = 0 THEN EmptyChannels ELSE LoadSite(f[m-1], file[m], b)
    BY <2>1 DEF Loads
  <2>3. \A m \in 0..n+1 : g[m] = IF m = 0 THEN EmptyChannels ELSE LoadSite(g[m-1], file[m], b)
    BY <2>2
  <2>4. Loads(g, file, b, n + 1)
    BY <2>3 DEF Loads
  <2> QED BY <2>4
<1>3. \A n \in Nat : n \in T
  <2> HIDE DEF T
  <2> QED BY <1>1, <1>2, SetInduction
<1> QED BY <1>3

(* The first n sites of the file, read back.                                 *)
ReadBack(jx, file, n) ==
  /\ SitesGood(jx) /\ Len(jx.sites) = n /\ LiveSites(jx) = 1..n
  /\ \A k \in 1..n : /\ jx.sites[k].key = file[k].key /\ jx.sites[k].refs = file[k].refs
                     /\ jx.sites[k].tu = Head(file[k].tus)
Reregistered(jx, file, n) ==
  /\ jx.byTu \in [TUs -> Seq(1..n)]
  /\ \A t \in TUs : \A k \in 1..n : Times(k, jx.byTu[t]) = Times(t, file[k].tus)

LEMMA ReadBackStore ==
  ASSUME NEW jx, NEW file, NEW n \in Nat, ReadBack(jx, file, n),
         NEW s, s = file[n+1], s.key \in ChannelKeys, s.refs \in Nat, Head(s.tus) \in TUs,
         \A k \in 1..n : file[k].key # s.key,
         NEW kx, kx = Store(jx, s.key, Head(s.tus), s.refs)
  PROVE  ReadBack(kx, file, n + 1) /\ kx.byTu = jx.byTu
<1>1. PICK q, u, r : q = s.key /\ u = Head(s.tus) /\ r = s.refs
  OBVIOUS
<1>2. q \in ChannelKeys /\ u \in TUs /\ r \in Nat /\ kx = Store(jx, q, u, r)
  BY <1>1
<1>3. SitesGood(jx) /\ Len(jx.sites) = n /\ LiveSites(jx) = 1..n
  BY DEF ReadBack
<1>4. q \notin DOMAIN jx.index
  <2>1. \A y \in DOMAIN jx.index : jx.index[y] \in 1..n /\ jx.sites[jx.index[y]].key = y
    BY <1>3 DEF SitesGood, KeysIndexed
  <2>2. \A k \in 1..n : jx.sites[k].key # q
    BY <1>1 DEF ReadBack
  <2> QED BY <2>1, <2>2
<1>5. SitesGood(kx)
  BY <1>2, <1>3, <1>4, StoreOk
<1>6. SitesStored(jx) /\ DOMAIN jx = SiteFields
  BY <1>3 DEF SitesGood, SitesStored
<1>7. Stocked(jx, kx, q, u, r, n + 1)
  BY <1>2, <1>3, <1>6, StoreFields
<1>8. OneMore(jx, kx, q, u, r, n)
  BY <1>3, <1>6, <1>7, StorePlaces
<1>9. kx.byTu = jx.byTu
  BY <1>7 DEF Stocked
<1>10. /\ Len(kx.sites) = n + 1 /\ LiveSites(kx) = 1..n+1
       /\ \A k \in 1..n : kx.sites[k] = jx.sites[k]
       /\ kx.sites[n+1].key = q /\ kx.sites[n+1].tu = u /\ kx.sites[n+1].refs = r
  <2>1. /\ Len(kx.sites) = n + 1 /\ LiveSites(kx) = 1..n \cup {n+1}
        /\ \A k \in 1..n : kx.sites[k] = jx.sites[k]
        /\ kx.sites[n+1] = [key |-> q, tu |-> u, refs |-> r, live |-> TRUE]
    BY <1>3, <1>8 DEF OneMore
  <2>2. 1..n \cup {n+1} = 1..n+1
    OBVIOUS
  <2>3. kx.sites[n+1].key = q /\ kx.sites[n+1].tu = u /\ kx.sites[n+1].refs = r
    BY <2>1
  <2>4. LiveSites(kx) = 1..n+1
    BY <2>1, <2>2
  <2> QED BY <2>1, <2>3, <2>4
<1>11. ASSUME NEW k \in 1..n+1
       PROVE  /\ kx.sites[k].key = file[k].key /\ kx.sites[k].refs = file[k].refs
              /\ kx.sites[k].tu = Head(file[k].tus)
  <2>1. CASE k = n + 1
    BY <1>1, <1>10, <2>1
  <2>2. CASE k # n + 1
    <3>1. k \in 1..n
      BY <2>2
    <3> QED BY <1>10, <3>1, SMTT(20) DEF ReadBack
  <2> QED BY <2>1, <2>2
<1> QED BY <1>5, <1>9, <1>10, <1>11 DEF ReadBack

(* The registrations of place n, one for each contributor.                   *)
WithRuns(sx, n, tus) ==
  [sx EXCEPT !.byTu = [t \in TUs |-> sx.byTu[t] \o Run(n, Times(t, tus))]]

LEMMA ReadBackRegisters ==
  ASSUME NEW file, NEW n \in Nat, NEW sx, ReadBack(sx, file, n + 1), Reregistered(sx, file, n),
         NEW tus, tus = file[n+1].tus, \A t \in TUs : Times(t, tus) \in Nat,
         NEW kx, kx = WithRuns(sx, n + 1, tus)
  PROVE  ReadBack(kx, file, n + 1) /\ Reregistered(kx, file, n + 1)
<1>1. /\ SitesGood(sx) /\ Len(sx.sites) = n + 1 /\ LiveSites(sx) = 1..n+1
      /\ \A k \in 1..n+1 : /\ sx.sites[k].key = file[k].key /\ sx.sites[k].refs = file[k].refs
                           /\ sx.sites[k].tu = Head(file[k].tus)
  BY DEF ReadBack
<1>2. DOMAIN sx = SiteFields /\ sx.sites \in Seq(SiteRecords)
  BY <1>1 DEF SitesGood, SitesStored
<1>3. /\ DOMAIN kx = SiteFields
      /\ kx.byTu = [t \in TUs |-> sx.byTu[t] \o Run(n + 1, Times(t, tus))]
      /\ kx.sites = sx.sites /\ kx.index = sx.index /\ kx.live = sx.live
      /\ kx.byChannel = sx.byChannel /\ kx.byFunctionUsr = sx.byFunctionUsr
      /\ kx.byFunctionDisplay = sx.byFunctionDisplay
  BY <1>2 DEF SiteFields, WithRuns
<1>4. SitesGood(kx) /\ LiveSites(kx) = LiveSites(sx)
  <2>1. SameStore(sx, kx)
    BY <1>2, <1>3 DEF SameStore
  <2> QED BY <1>1, <2>1, SameStoreOk
<1>5. ReadBack(kx, file, n + 1)
  BY <1>1, <1>3, <1>4 DEF ReadBack
<1>6. ASSUME NEW t \in TUs
      PROVE  /\ kx.byTu[t] \in Seq(1..n+1)
             /\ \A k \in 1..n+1 : Times(k, kx.byTu[t]) = Times(t, file[k].tus)
  <2>1. PICK s, d : s = sx.byTu[t] /\ d = Times(t, tus)
    OBVIOUS
  <2>2. s \in Seq(1..n) /\ d \in Nat /\ \A k \in 1..n : Times(k, s) = Times(t, file[k].tus)
    BY <2>1 DEF Reregistered
  <2>3. s \in Seq(1..n+1) /\ n + 1 \in 1..n+1
    <3>1. 1..n \subseteq 1..n+1
      OBVIOUS
    <3> QED BY <2>2, <3>1, SeqWider
  <2>4. /\ s \o Run(n + 1, d) \in Seq(1..n+1)
        /\ \A x : Times(x, s \o Run(n + 1, d)) = Times(x, s) + IF x = n + 1 THEN d ELSE 0
    <3>1. PICK Q, y : Q = 1..n+1 /\ y = n + 1
      OBVIOUS
    <3>2. s \in Seq(Q) /\ y \in Q /\ d \in Nat
      BY <2>2, <2>3, <3>1
    <3>3. /\ s \o Run(y, d) \in Seq(Q)
          /\ \A x : Times(x, s \o Run(y, d)) = Times(x, s) + IF x = y THEN d ELSE 0
      BY ONLY <3>2, TimesRun
    <3> QED BY <3>1, <3>3
  <2>5. kx.byTu[t] = s \o Run(n + 1, d)
    BY <1>3, <2>1
  <2>6. Times(n + 1, s) = 0
    <3>1. ~ \E k \in DOMAIN s : s[k] = n + 1
      BY <2>2
    <3>2. Times(n + 1, s) \in Nat /\ (Times(n + 1, s) > 0 <=> \E k \in DOMAIN s : s[k] = n + 1)
      BY <2>2, TimesType, TimesIn
    <3> QED BY <3>1, <3>2
  <2>7. \A k \in 1..n : Times(k, s) \in Nat
    BY <2>2, TimesType
  <2>8. ASSUME NEW k \in 1..n+1 PROVE Times(k, s \o Run(n + 1, d)) = Times(t, file[k].tus)
    <3>1. CASE k = n + 1
      BY <2>1, <2>2, <2>4, <2>6, <3>1
    <3>2. CASE k # n + 1
      <4>1. k \in 1..n
        BY <3>2
      <4>2. PICK a, b : a = Times(k, s) /\ b = Times(k, s \o Run(n + 1, d))
        OBVIOUS
      <4>3. b = a + 0 /\ a \in Nat
        BY <2>4, <2>7, <3>2, <4>1, <4>2
      <4>4. a = Times(t, file[k].tus)
        BY <2>2, <4>1, <4>2
      <4> QED BY <4>2, <4>3, <4>4
    <3> QED BY <3>1, <3>2
  <2> QED BY <2>4, <2>5, <2>8
<1>7. Reregistered(kx, file, n + 1)
  <2>1. kx.byTu \in [TUs -> Seq(1..n+1)]
    BY <1>3, <1>6
  <2> QED BY <1>6, <2>1 DEF Reregistered
<1> QED BY <1>5, <1>7

(* A file that can be read back: no key twice, a contributor for each site.  *)
Readable(file, m) ==
  /\ m \in Nat /\ Len(file) = m
  /\ \A k \in 1..m : /\ file[k].key \in ChannelKeys /\ file[k].refs \in Nat
                     /\ Head(file[k].tus) \in TUs
                     /\ \A t \in TUs : Times(t, file[k].tus) \in Nat
  /\ \A j, k \in 1..m : file[j].key = file[k].key => j = k

LoadedSo(jx, file, b, n) == ReadBack(jx, file, n) /\ (b => Reregistered(jx, file, n))

LEMMA LoadSiteOk ==
  ASSUME NEW b \in BOOLEAN, NEW file, NEW m, Readable(file, m),
         NEW n \in Nat, n + 1 <= m, NEW jx, LoadedSo(jx, file, b, n),
         NEW kx, kx = LoadSite(jx, file[n+1], b)
  PROVE  LoadedSo(kx, file, b, n + 1)
<1>1. PICK s, sx : s = file[n+1] /\ sx = Store(jx, s.key, Head(s.tus), s.refs)
  OBVIOUS
<1>2. /\ s.key \in ChannelKeys /\ s.refs \in Nat /\ Head(s.tus) \in TUs
      /\ \A t \in TUs : Times(t, s.tus) \in Nat
  BY <1>1 DEF Readable
<1>3. \A k \in 1..n : file[k].key # s.key
  <2> SUFFICES ASSUME NEW k \in 1..n, file[k].key = s.key PROVE FALSE
    OBVIOUS
  <2>1. m \in Nat /\ k \in 1..m /\ n + 1 \in 1..m /\ k # n + 1
    BY DEF Readable
  <2> QED BY <1>1, <2>1 DEF Readable
<1>4. ReadBack(jx, file, n)
  BY DEF LoadedSo
<1>5. ReadBack(sx, file, n + 1) /\ sx.byTu = jx.byTu
  BY <1>1, <1>2, <1>3, <1>4, ReadBackStore
<1>6. CASE b = TRUE
  <2>1. PICK tus : tus = s.tus
    OBVIOUS
  <2>2. Len(sx.sites) = n + 1
    BY <1>5 DEF ReadBack
  <2>3. kx = [sx EXCEPT !.byTu = [t \in TUs |-> jx.byTu[t] \o [k \in 1..Times(t, tus) |-> n + 1]]]
    BY <1>1, <1>6, <2>1, <2>2 DEF LoadSite
  <2>4. kx = WithRuns(sx, n + 1, tus)
    BY <1>5, <2>3 DEF Run, WithRuns
  <2>5. Reregistered(sx, file, n)
    BY <1>5, <1>6 DEF LoadedSo, Reregistered
  <2>6. tus = file[n+1].tus /\ \A t \in TUs : Times(t, tus) \in Nat
    BY <1>1, <1>2, <2>1
  <2>7. ReadBack(sx, file, n + 1)
    BY <1>5
  <2>8. ReadBack(kx, file, n + 1) /\ Reregistered(kx, file, n + 1)
    BY <2>4, <2>5, <2>6, <2>7, ReadBackRegisters
  <2> QED BY <2>8 DEF LoadedSo
<1>7. CASE b = FALSE
  <2>1. kx = sx
    BY <1>1, <1>7 DEF LoadSite
  <2> QED BY <1>5, <1>7, <2>1 DEF LoadedSo
<1> QED BY <1>6, <1>7

LEMMA LoadsOk ==
  ASSUME NEW b \in BOOLEAN, NEW file, NEW k, Readable(file, k), NEW jx, jx = LoadSites(file, b)
  PROVE  LoadedSo(jx, file, b, k)
<1> DEFINE c == CHOOSE f : Loads(f, file, b, k)
<1>0. k \in Nat /\ Len(file) = k
  BY DEF Readable
<1>1. jx = c[k]
  BY <1>0 DEF LoadSites, Loads
<1>2. Loads(c, file, b, k)
  <2>1. \E f : Loads(f, file, b, k)
    BY <1>0, LoadsExists
  <2> QED BY <2>1, Zenon
<1>3. \A m \in 0..k : c[m] = IF m = 0 THEN EmptyChannels ELSE LoadSite(c[m-1], file[m], b)
  <2> HIDE DEF c
  <2> QED BY <1>2 DEF Loads
<1> HIDE DEF c
<1> DEFINE T == {n \in Nat : n <= k => LoadedSo(c[n], file, b, n)}
<1>4. 0 \in T
  <2>1. c[0] = EmptyChannels
    BY <1>0, <1>3
  <2>2. SitesGood(EmptyChannels) /\ SitesHeld(EmptyChannels)
    BY EmptySitesOk
  <2>3. /\ EmptyChannels.sites = << >> /\ LiveSites(EmptyChannels) = {}
        /\ EmptyChannels.byTu = [t \in TUs |-> << >>]
    BY DEF EmptyChannels, LiveSites
  <2>4. 1..0 = {} /\ Len(<< >>) = 0 /\ << >> \in Seq({})
    OBVIOUS
  <2>5. ReadBack(EmptyChannels, file, 0)
    BY <2>2, <2>3, <2>4 DEF ReadBack
  <2>6. Reregistered(EmptyChannels, file, 0)
    BY <2>3, <2>4 DEF Reregistered
  <2> QED BY <2>1, <2>5, <2>6 DEF LoadedSo
<1>5. ASSUME NEW n \in Nat, n \in T PROVE n + 1 \in T
  <2> SUFFICES ASSUME n + 1 <= k PROVE LoadedSo(c[n+1], file, b, n + 1)
    OBVIOUS
  <2>1. LoadedSo(c[n], file, b, n)
    BY <1>0, <1>5
  <2>2. c[n+1] = LoadSite(c[n], file[n+1], b)
    <3>1. n + 1 \in 0..k /\ n + 1 # 0 /\ (n + 1) - 1 = n
      BY <1>0
    <3> QED BY <3>1, <1>3
  <2> QED BY <2>1, <2>2, LoadSiteOk
<1>6. \A n \in Nat : n \in T
  <2> HIDE DEF T
  <2> QED BY <1>4, <1>5, SetInduction
<1> QED BY <1>0, <1>1, <1>6

LEMMA SavedReadable ==
  ASSUME NEW ch, SitesGood(ch), SitesHeld(ch), NEW order \in SetToSeqs(TUs),
         NEW kept, kept = Kept(ch), NEW file, file = SaveSites(ch, order)
  PROVE  Readable(file, Len(kept))
<1>1. PICK m : m = Len(kept)
  OBVIOUS
<1>2. Renumbers(ch, kept, m)
  BY <1>1, KeptPlaces DEF SitesGood
<1>3. /\ m \in Nat /\ DOMAIN kept = 1..m
      /\ \A k \in 1..m : kept[k] \in LiveSites(ch) /\ NewPlace(ch, kept[k]) = k
  BY <1>2 DEF Renumbers
<1>4. /\ DOMAIN file = DOMAIN kept /\ Len(file) = Len(kept)
      /\ \A k \in DOMAIN kept : Written(ch, file[k], kept[k])
  BY SavedSites
<1>5. \A i \in LiveSites(ch) : ch.index[ch.sites[i].key] = i
  BY DEF SitesGood, KeysIndexed
<1>6. ASSUME NEW j \in 1..m, NEW k \in 1..m, file[j].key = file[k].key PROVE j = k
  <2>1. file[j].key = ch.sites[kept[j]].key /\ file[k].key = ch.sites[kept[k]].key
    BY <1>3, <1>4 DEF Written
  <2>2. kept[j] \in LiveSites(ch) /\ kept[k] \in LiveSites(ch)
    BY <1>3
  <2>3. PICK a, b, q : a = kept[j] /\ b = kept[k] /\ q = ch.sites[a].key
    OBVIOUS
  <2>4. q = ch.sites[b].key /\ a \in LiveSites(ch) /\ b \in LiveSites(ch)
    BY <1>6, <2>1, <2>2, <2>3
  <2>5. ch.index[q] = a /\ ch.index[q] = b
    BY <1>5, <2>3, <2>4
  <2>6. kept[j] = kept[k]
    BY <2>3, <2>5
  <2> QED BY <1>3, <2>6
<1>7. \A k \in 1..m : /\ file[k].key \in ChannelKeys /\ file[k].refs \in Nat
                      /\ Head(file[k].tus) \in TUs
                      /\ \A t \in TUs : Times(t, file[k].tus) \in Nat
  BY <1>3, <1>4 DEF Written
<1> QED BY <1>1, <1>3, <1>4, <1>6, <1>7 DEF Readable

\* A snapshot read only answers, and one read to be changed is the index it was
\* saved from.
LEMMA LoadSitesOk ==
  ASSUME NEW ch, SitesGood(ch), SitesHeld(ch), NEW order \in SetToSeqs(TUs),
         NEW b \in BOOLEAN, NEW jx, jx = LoadSites(SaveSites(ch, order), b)
  PROVE  SitesGood(jx) /\ (b => Recast(ch, jx) /\ Named(jx))
<1>1. PICK kept, m, file : kept = Kept(ch) /\ m = Len(kept) /\ file = SaveSites(ch, order)
  OBVIOUS
<1>2. Renumbers(ch, kept, m)
  BY <1>1, KeptPlaces DEF SitesGood
<1>3. /\ m \in Nat /\ DOMAIN kept = 1..m
      /\ \A k \in 1..m : kept[k] \in LiveSites(ch) /\ NewPlace(ch, kept[k]) = k
      /\ \A i \in LiveSites(ch) : NewPlace(ch, i) \in 1..m /\ kept[NewPlace(ch, i)] = i
  BY <1>2 DEF Renumbers
<1>4. \A k \in 1..m : Written(ch, file[k], kept[k])
  BY <1>1, <1>3, SavedSites
<1>5. Readable(file, m)
  BY <1>1, SavedReadable
<1>6. LoadedSo(jx, file, b, m)
  BY <1>1, <1>5, LoadsOk
<1>7. /\ SitesGood(jx) /\ Len(jx.sites) = m /\ LiveSites(jx) = 1..m
      /\ \A k \in 1..m : /\ jx.sites[k].key = file[k].key /\ jx.sites[k].refs = file[k].refs
                         /\ jx.sites[k].tu = Head(file[k].tus)
  BY <1>6 DEF LoadedSo, ReadBack
<1>8. SUFFICES ASSUME b PROVE Recast(ch, jx) /\ Named(jx)
  BY <1>7
<1>9. /\ jx.byTu \in [TUs -> Seq(1..m)]
      /\ \A t \in TUs : \A k \in 1..m : Times(k, jx.byTu[t]) = Times(t, file[k].tus)
  BY <1>6, <1>8 DEF LoadedSo, Reregistered
<1>10. \A t \in TUs : \A k \in 1..m : Times(k, jx.byTu[t]) = Times(kept[k], ch.byTu[t])
  BY <1>4, <1>9 DEF Written
<1>11. ASSUME NEW k \in 1..m
       PROVE  jx.sites[k].refs = Registered(jx, TUs, k) /\ jx.sites[k].refs > 0
  <2>1. PICK i : i = kept[k]
    OBVIOUS
  <2>2. i \in LiveSites(ch) /\ jx.sites[k].refs = ch.sites[i].refs
    BY <1>3, <1>4, <1>7, <2>1 DEF Written
  <2>3. \A t \in TUs : Times(k, jx.byTu[t]) = Times(i, ch.byTu[t])
    BY <1>10, <2>1
  <2>4. AreLists(jx.byTu, TUs, 1..m)
    BY <1>9 DEF AreLists
  <2>5. Occurrences(k, jx.byTu, TUs) = Occurrences(i, ch.byTu, TUs)
    BY <2>3, <2>4, KeepsLists, OccurrencesSame
  <2>6. ch.sites[i].refs = Registered(ch, TUs, i) /\ ch.sites[i].refs > 0
    BY <2>2 DEF SitesHeld
  <2> QED BY <2>2, <2>5, <2>6 DEF Registered
<1>12. SitesHeld(jx)
  BY <1>7, <1>9, <1>11 DEF SitesHeld
<1>13. \A k \in 1..m : jx.sites[k].key = ch.sites[kept[k]].key
  BY <1>4, <1>7 DEF Written
<1>14. ASSUME NEW q, NEW t \in TUs PROVE Noted(jx, q, t) = Noted(ch, q, t)
  <2>1. /\ \A y \in DOMAIN jx.index : jx.index[y] \in 1..m /\ jx.sites[jx.index[y]].key = y
        /\ \A k \in 1..m : jx.sites[k].key \in DOMAIN jx.index /\ jx.index[jx.sites[k].key] = k
    BY <1>7 DEF SitesGood, KeysIndexed
  <2>2. /\ \A y \in DOMAIN ch.index : ch.index[y] \in LiveSites(ch) /\ ch.sites[ch.index[y]].key = y
        /\ \A i \in LiveSites(ch) : ch.sites[i].key \in DOMAIN ch.index /\ ch.index[ch.sites[i].key] = i
    BY DEF SitesGood, KeysIndexed
  <2>3. CASE q \in DOMAIN ch.index
    <3>1. PICK i, k : i = ch.index[q] /\ k = NewPlace(ch, i)
      OBVIOUS
    <3>2. i \in LiveSites(ch) /\ ch.sites[i].key = q /\ k \in 1..m /\ kept[k] = i
      BY <1>3, <2>2, <2>3, <3>1
    <3>3. q \in DOMAIN jx.index /\ jx.index[q] = k
      BY <1>13, <2>1, <3>2
    <3> QED BY <1>10, <2>3, <3>1, <3>2, <3>3 DEF Noted
  <2>4. CASE q \notin DOMAIN ch.index
    <3>1. q \notin DOMAIN jx.index
      <4>1. SUFFICES ASSUME q \in DOMAIN jx.index PROVE FALSE
        OBVIOUS
      <4>2. PICK k : k = jx.index[q]
        OBVIOUS
      <4>3. k \in 1..m /\ jx.sites[k].key = q
        BY <2>1, <4>1, <4>2
      <4>4. kept[k] \in LiveSites(ch) /\ ch.sites[kept[k]].key = q
        BY <1>3, <1>13, <4>3
      <4> QED BY <2>2, <2>4, <4>4
    <3> QED BY <2>4, <3>1 DEF Noted
  <2> QED BY <2>3, <2>4
<1>15. Named(jx)
  <2> SUFFICES ASSUME NEW k \in 1..m PROVE Times(k, jx.byTu[jx.sites[k].tu]) > 0
    BY <1>7 DEF Named
  <2>1. PICK s : s = file[k]
    OBVIOUS
  <2>2. Head(s.tus) \in TUs /\ Times(Head(s.tus), s.tus) > 0
    BY <1>4, <2>1 DEF Written
  <2>3. jx.sites[k].tu = Head(s.tus)
    BY <1>7, <2>1
  <2> QED BY <1>9, <2>1, <2>2, <2>3
<1>16. AllSites(jx) = AllSites(ch)
  <2>1. SitesStored(jx) /\ SitesStored(ch)
    BY <1>7 DEF SitesGood
  <2>2. DOMAIN jx.sites = 1..m
    BY <1>7, <2>1, SitesAre
  <2>3. AllSites(jx) = [k \in 1..m |-> jx.sites[k].key]
    BY <1>7, <2>1, <2>2, AllLive DEF SiteKeys
  <2>4. AllSites(ch) = [k \in DOMAIN kept |-> ch.sites[kept[k]].key]
    BY <1>1, <2>1, AllSitesKept
  <2> QED BY <1>3, <1>13, <2>3, <2>4
<1> QED BY <1>7, <1>12, <1>14, <1>15, <1>16 DEF Recast

-----------------------------------------------------------------------------
(* The channel index against what has been registered.                       *)

(* What each TU registered is noted, unless the key is in blur, and nothing  *)
(* is noted that was not registered.                                         *)
SitesTrack(ch, reg, blur) ==
  /\ SitesGood(ch) /\ SitesHeld(ch)
  /\ \A k \in ChannelKeys : \A t \in TUs :
       /\ k \notin blur => Noted(ch, k, t) = Times(k, reg[t])
       /\ Noted(ch, k, t) > 0 => Times(k, reg[t]) > 0

LEMMA RegistersFacts ==
  ASSUME NEW reg, Registers(reg)
  PROVE  \A t \in Owners : /\ reg[t] \in Seq(AllItems)
                           /\ \A x : Times(x, reg[t]) \in Nat
<1>1. \A t \in Owners : reg[t] \in Seq(AllItems)
  BY DEF Registers
<1>2. \A s \in Seq(AllItems) : \A x : Times(x, s) \in Nat
  BY TimesType
<1> QED BY <1>1, <1>2

LEMMA NoneTimes == \A x : Times(x, << >>) = 0
<1>1. << >> \in Seq(Nat) /\ 0 \in Nat
  OBVIOUS
<1> QED BY <1>1, TimesSteps

LEMMA NoSites ==
  ASSUME NEW blur
  PROVE  SitesTrack(EmptyChannels, None, blur) /\ Named(EmptyChannels)
<1>1. SitesGood(EmptyChannels) /\ SitesHeld(EmptyChannels)
  BY EmptySitesOk
<1>2. EmptyChannels.index = << >> /\ EmptyChannels.sites = << >>
  BY DEF EmptyChannels
<1>3. \A k, t : Noted(EmptyChannels, k, t) = 0
  BY <1>2 DEF Noted
<1>4. \A t \in TUs : None[t] = << >>
  BY DEF None, Owners
<1>5. Named(EmptyChannels)
  BY <1>2 DEF Named, LiveSites
<1> QED BY <1>1, <1>3, <1>4, <1>5, NoneTimes DEF SitesTrack

RegisteringSite(ch, reg, blur, item, tu, jx, new) ==
  /\ SitesTrack(ch, reg, blur) /\ Registers(reg)
  /\ tu \in TUs /\ item \in Items(tu)
  /\ jx = IF item \in ChannelKeys THEN AddSite(ch, item, tu) ELSE ch
  /\ new = [reg EXCEPT ![Owner(tu, item)] = Append(@, item)]

LEMMA RegisterSiteOk ==
  ASSUME NEW ch, NEW reg, NEW blur, NEW item, NEW tu, NEW jx, NEW new,
         RegisteringSite(ch, reg, blur, item, tu, jx, new)
  PROVE  SitesTrack(jx, new, blur) /\ (Named(ch) => Named(jx))
<1>0. /\ SitesTrack(ch, reg, blur) /\ Registers(reg)
      /\ tu \in TUs /\ item \in Items(tu)
      /\ jx = IF item \in ChannelKeys THEN AddSite(ch, item, tu) ELSE ch
      /\ new = [reg EXCEPT ![Owner(tu, item)] = Append(@, item)]
  BY DEF RegisteringSite
<1>1. PICK o : o = Owner(tu, item)
  OBVIOUS
<1>2. item \in AllItems /\ o \in Owners
  BY <1>0, <1>1, OwnerAndItem
<1>3. DOMAIN reg = Owners /\ \A t \in Owners : reg[t] \in Seq(AllItems) /\ \A x : Times(x, reg[t]) \in Nat
  BY <1>0, RegistersFacts DEF Registers
<1>4. \A t \in Owners : new[t] = IF t = o THEN Append(reg[t], item) ELSE reg[t]
  BY <1>0, <1>1, <1>3
<1>5. \A t \in Owners : \A x : Times(x, new[t]) = Times(x, reg[t]) + IF x = item /\ t = o THEN 1 ELSE 0
  <2>1. \A s \in Seq(AllItems) : \A x : Times(x, Append(s, item)) = Times(x, s) + IF x = item THEN 1 ELSE 0
    BY <1>2, TimesSteps
  <2> SUFFICES ASSUME NEW t \in Owners, NEW x
               PROVE  Times(x, new[t]) = Times(x, reg[t]) + IF x = item /\ t = o THEN 1 ELSE 0
    OBVIOUS
  <2>2. PICK s, p : s = reg[t] /\ p = new[t]
    OBVIOUS
  <2>3. s \in Seq(AllItems) /\ Times(x, s) \in Nat
    BY <1>3, <2>2
  <2>4. CASE t = o
    <3>1. p = Append(s, item)
      BY <1>4, <2>2, <2>4
    <3>2. Times(x, p) = Times(x, s) + IF x = item THEN 1 ELSE 0
      BY <2>1, <2>3, <3>1
    <3> QED BY <2>2, <2>4, <3>2
  <2>5. CASE t # o
    <3>1. p = s
      BY <1>4, <2>2, <2>5
    <3> QED BY <2>2, <2>3, <2>5, <3>1
  <2> QED BY <2>4, <2>5
<1>6. SitesGood(ch) /\ SitesHeld(ch)
  BY <1>0 DEF SitesTrack
<1>7. \A t \in TUs : t \in Owners
  BY DEF Owners
<1>8. \A q : \A t \in TUs : Noted(ch, q, t) \in Nat
  BY <1>6, NotedType
<1>9. CASE item \in ChannelKeys
  <2>1. o = tu
    BY <1>1, <1>9, ChannelKeysAssumption, ContextsAssumption DEF Owner
  <2>2. Added(ch, jx, item, tu, 1)
    <3>1. jx = AddTimes(ch, item, tu, 1) /\ 1 \in Nat \ {0}
      BY <1>0, <1>9 DEF AddSite
    <3> QED BY <1>0, <1>6, <1>9, <3>1, AddTimesOk
  <2>3. /\ SitesGood(jx) /\ SitesHeld(jx) /\ (Named(ch) => Named(jx))
        /\ \A q : \A t \in TUs : Noted(jx, q, t) = Noted(ch, q, t) + IF q = item /\ t = tu THEN 1 ELSE 0
    BY <2>2 DEF Added
  <2>4. ASSUME NEW k \in ChannelKeys, NEW t \in TUs
        PROVE  /\ k \notin blur => Noted(jx, k, t) = Times(k, new[t])
               /\ Noted(jx, k, t) > 0 => Times(k, new[t]) > 0
    <3>1. PICK a, b, c, d : a = Noted(ch, k, t) /\ b = Noted(jx, k, t) /\ c = Times(k, reg[t]) /\ d = Times(k, new[t])
      OBVIOUS
    <3>2. a \in Nat /\ c \in Nat
      BY <1>3, <1>7, <1>8, <3>1
    <3>3. (k \notin blur => a = c) /\ (a > 0 => c > 0)
      BY <1>0, <3>1 DEF SitesTrack
    <3>4. b = a + IF k = item /\ t = tu THEN 1 ELSE 0
      BY <2>3, <3>1
    <3>5. d = c + IF k = item /\ t = tu THEN 1 ELSE 0
      BY <1>5, <1>7, <2>1, <3>1
    <3> QED BY <3>1, <3>2, <3>3, <3>4, <3>5
  <2> QED BY <2>3, <2>4 DEF SitesTrack
<1>10. CASE item \notin ChannelKeys
  <2>1. jx = ch
    BY <1>0, <1>10
  <2>2. ASSUME NEW k \in ChannelKeys, NEW t \in TUs PROVE Times(k, new[t]) = Times(k, reg[t])
    <3>1. k # item /\ t \in Owners
      BY <1>7, <1>10
    <3>2. Times(k, new[t]) = Times(k, reg[t]) + 0 /\ Times(k, reg[t]) \in Nat
      BY <1>3, <1>5, <3>1
    <3> QED BY <3>2
  <2> QED BY <1>0, <2>1, <2>2 DEF SitesTrack
<1> QED BY <1>9, <1>10

\* What an absorbed site brings: all its registrations, in the name of one TU; they
\* are that TU's if no other had any.
Shared(pend) == {k \in ChannelKeys : Cardinality({t \in TUs : Contains(pend[t], k)}) > 1}

LEMMA GivenIs ==
  ASSUME NEW fx, NEW pend, SitesTrack(fx, pend, {}), Named(fx), Registers(pend),
         NEW k \in ChannelKeys, NEW t \in TUs, NEW n, n = Len(fx.sites)
  PROVE  /\ Given(fx, k, t, n) \in Nat
         /\ Given(fx, k, t, n) > 0 => Times(k, pend[t]) > 0
         /\ k \notin Shared(pend) => Given(fx, k, t, n) = Times(k, pend[t])
<1>1. /\ SitesGood(fx) /\ SitesHeld(fx)
      /\ \A u \in TUs : Noted(fx, k, u) = Times(k, pend[u])
  BY DEF SitesTrack
<1>2. CASE k \notin DOMAIN fx.index
  <2>1. Given(fx, k, t, n) = 0 /\ Noted(fx, k, t) = 0
    BY <1>2 DEF Given, Noted
  <2> QED BY <1>1, <2>1
<1>3. CASE k \in DOMAIN fx.index
  <2>1. PICK i, u, r : i = fx.index[k] /\ u = fx.sites[i].tu /\ r = fx.sites[i].refs
    OBVIOUS
  <2>2. i \in LiveSites(fx)
    BY <1>1, <1>3, <2>1 DEF SitesGood, KeysIndexed
  <2>3. i \in 1..n /\ n \in Nat
    BY <1>1, <2>2, SitesAre DEF SitesGood
  <2>4. u \in TUs /\ r \in Nat
    <3>1. fx.sites[i] \in SiteRecords
      BY <1>1, <2>2, LivePlaces
    <3> QED BY <2>1, <3>1 DEF SiteRecords
  <2>5. Given(fx, k, t, n) = IF t = u THEN r ELSE 0
    BY <1>3, <2>1, <2>3 DEF Given
  <2>6. \A v \in TUs : Times(i, fx.byTu[v]) = Times(k, pend[v]) /\ Times(k, pend[v]) \in Nat
    <3>1. \A v \in TUs : Noted(fx, k, v) = Times(i, fx.byTu[v])
      BY <1>3, <2>1 DEF Noted
    <3>2. \A v \in TUs : Times(k, pend[v]) \in Nat
      BY RegistersFacts DEF Owners
    <3> QED BY <1>1, <3>1, <3>2
  <2>7. Times(k, pend[u]) > 0
    BY <2>1, <2>2, <2>4, <2>6 DEF Named
  <2>8. ASSUME k \notin Shared(pend) PROVE Given(fx, k, t, n) = Times(k, pend[t])
    <3>1. \A v \in TUs : Times(k, pend[v]) > 0 <=> Contains(pend[v], k)
      <4>1. \A s \in Seq(AllItems) : Times(k, s) > 0 <=> \E j \in DOMAIN s : s[j] = k
        BY TimesIn
      <4>2. \A s \in Seq(AllItems) : DOMAIN s = 1..Len(s)
        OBVIOUS
      <4>3. \A v \in TUs : pend[v] \in Seq(AllItems)
        BY RegistersFacts DEF Owners
      <4> QED BY <4>1, <4>2, <4>3 DEF Contains
    <3>2. PICK C : C = {v \in TUs : Contains(pend[v], k)}
      OBVIOUS
    <3>3. IsFiniteSet(C) /\ u \in C
      <4>1. C \subseteq TUs
        BY <3>2
      <4>2. IsFiniteSet(C)
        BY <4>1, TUsAssumption, FS_Subset
      <4> QED BY <2>4, <2>7, <3>1, <3>2, <4>2
    <3>4. ~ (Cardinality(C) > 1) /\ Cardinality(C) \in Nat
      BY <2>8, <3>2, <3>3, FS_CardinalityType DEF Shared
    <3>5. \A v \in C : v = u
      <4> SUFFICES ASSUME NEW v \in C, v # u PROVE FALSE
        OBVIOUS
      <4>1. {u} \subseteq C \ {v} /\ IsFiniteSet(C \ {v})
        BY <3>3, FS_RemoveElement
      <4>2. Cardinality(C \ {v}) = Cardinality(C) - 1
        BY <3>3, FS_RemoveElement
      <4>3. Cardinality({u}) = 1
        BY FS_Singleton
      <4>4. Cardinality({u}) <= Cardinality(C \ {v})
        BY <4>1, FS_Subset
      <4> QED BY <3>4, <4>2, <4>3, <4>4
    <3>6. \A v \in TUs : v # u => Times(i, fx.byTu[v]) = 0
      <4> SUFFICES ASSUME NEW v \in TUs, v # u PROVE Times(i, fx.byTu[v]) = 0
        OBVIOUS
      <4>1. ~ Contains(pend[v], k)
        BY <3>2, <3>5
      <4> QED BY <2>6, <3>1, <4>1
    <3>7. r = Times(i, fx.byTu[u])
      <4>1. PICK f, L, U : f = fx.byTu /\ L = LiveSites(fx) /\ U = TUs \ {u}
        OBVIOUS
      <4>2. r = Occurrences(i, f, TUs)
        BY <1>1, <2>1, <2>2, <4>1 DEF SitesHeld, Registered
      <4>3. /\ AreLists(f, TUs, L) /\ IsFiniteSet(TUs)
            /\ f[u] \in Seq(L)
        BY <1>1, <2>4, <4>1, KeepsLists
      <4>4. U \subseteq TUs /\ {u} \subseteq TUs /\ {u} \cap U = {} /\ {u} \cup U = TUs
        BY <2>4, <4>1
      <4>5. Occurrences(i, f, {u} \cup U) = Occurrences(i, f, {u}) + Occurrences(i, f, U)
        BY <4>3, <4>4, OccurrencesTogether
      <4>6. Occurrences(i, f, U) = 0
        <5>1. \A v \in U : Times(i, f[v]) = 0
          BY <3>6, <4>1
        <5> QED BY <4>3, <4>4, <5>1, OccurrencesNone
      <4>7. Occurrences(i, f, {u}) = Times(i, f[u]) /\ Times(i, f[u]) \in Nat
        BY <4>3, OccurrencesOne
      <4>8. PICK a, b, c : a = Times(i, f[u]) /\ b = Occurrences(i, f, {u}) /\ c = Occurrences(i, f, TUs)
        OBVIOUS
      <4>9. c = b + 0 /\ b = a /\ a \in Nat
        BY <4>4, <4>5, <4>6, <4>7, <4>8
      <4>10. c = a
        BY <4>9
      <4> QED BY <4>1, <4>2, <4>8, <4>10
    <3>8. CASE t = u
      BY <2>5, <2>6, <3>7, <3>8
    <3>9. CASE t # u
      BY <2>5, <2>6, <3>6, <3>9
    <3> QED BY <3>8, <3>9
  <2> QED BY <2>4, <2>5, <2>7, <2>8
<1> QED BY <1>2, <1>3

AbsorbingSites(ch, reg, blur, fx, pend, jx, new) ==
  /\ SitesTrack(ch, reg, blur) /\ Registers(reg)
  /\ SitesTrack(fx, pend, {}) /\ Named(fx) /\ Registers(pend)
  /\ jx = AbsorbSites(ch, fx)
  /\ new = [t \in Owners |-> reg[t] \o pend[t]]

LEMMA AbsorbedSitesOk ==
  ASSUME NEW ch, NEW reg, NEW blur, NEW fx, NEW pend, NEW jx, NEW new,
         AbsorbingSites(ch, reg, blur, fx, pend, jx, new)
  PROVE  SitesTrack(jx, new, blur \cup Shared(pend))
<1>0. /\ SitesTrack(ch, reg, blur) /\ Registers(reg)
      /\ SitesTrack(fx, pend, {}) /\ Named(fx) /\ Registers(pend)
      /\ jx = AbsorbSites(ch, fx)
      /\ new = [t \in Owners |-> reg[t] \o pend[t]]
  BY DEF AbsorbingSites
<1>1. SitesGood(ch) /\ SitesHeld(ch) /\ SitesGood(fx) /\ SitesHeld(fx)
  BY <1>0 DEF SitesTrack
<1>2. PICK n : n = Len(fx.sites)
  OBVIOUS
<1>3. Taken(ch, jx, fx, n)
  BY <1>0, <1>1, <1>2, AbsorbSitesOk
<1>4. /\ SitesGood(jx) /\ SitesHeld(jx)
      /\ \A q : \A t \in TUs : Noted(jx, q, t) = Noted(ch, q, t) + Given(fx, q, t, n)
  BY <1>3 DEF Taken
<1>5. ASSUME NEW k \in ChannelKeys, NEW t \in TUs
      PROVE  /\ k \notin blur \cup Shared(pend) => Noted(jx, k, t) = Times(k, new[t])
             /\ Noted(jx, k, t) > 0 => Times(k, new[t]) > 0
  <2>1. PICK a, b, c, d, g, p :
          /\ a = Noted(ch, k, t) /\ b = Noted(jx, k, t) /\ c = Times(k, reg[t]) /\ d = Times(k, new[t])
          /\ g = Given(fx, k, t, n) /\ p = Times(k, pend[t])
    OBVIOUS
  <2>2. a \in Nat /\ c \in Nat /\ p \in Nat
    <3>1. t \in Owners
      BY DEF Owners
    <3> QED BY <1>0, <1>1, <2>1, <3>1, NotedType, RegistersFacts
  <2>3. g \in Nat /\ (g > 0 => p > 0) /\ (k \notin Shared(pend) => g = p)
    BY <1>0, <1>2, <2>1, GivenIs
  <2>4. b = a + g
    BY <1>4, <2>1
  <2>5. d = c + p
    <3>1. t \in Owners
      BY DEF Owners
    <3>2. reg[t] \in Seq(AllItems) /\ pend[t] \in Seq(AllItems) /\ new[t] = reg[t] \o pend[t]
      BY <1>0, <3>1, RegistersFacts
    <3>3. PICK s, z : s = reg[t] /\ z = pend[t]
      OBVIOUS
    <3>4. Times(k, s \o z) = Times(k, s) + Times(k, z)
      BY <3>2, <3>3, TimesConcat
    <3> QED BY <2>1, <3>2, <3>3, <3>4
  <2>6. (k \notin blur => a = c) /\ (a > 0 => c > 0)
    BY <1>0, <2>1 DEF SitesTrack
  <2>7. k \notin blur \cup Shared(pend) => b = d
    BY <2>2, <2>3, <2>4, <2>5, <2>6
  <2>8. b > 0 => d > 0
    BY <2>2, <2>3, <2>4, <2>5, <2>6
  <2> QED BY <2>1, <2>7, <2>8
<1> QED BY <1>4, <1>5 DEF SitesTrack

DroppingSites(ch, reg, blur, S, jx, new) ==
  /\ SitesTrack(ch, reg, blur) /\ S \subseteq TUs
  /\ jx = RemoveSites(ch, S)
  /\ \A t \in TUs : new[t] = IF t \in S THEN << >> ELSE reg[t]

LEMMA DroppedSitesOk ==
  ASSUME NEW ch, NEW reg, NEW blur, NEW S, NEW jx, NEW new, DroppingSites(ch, reg, blur, S, jx, new)
  PROVE  SitesTrack(jx, new, blur)
<1>0. /\ SitesTrack(ch, reg, blur) /\ S \subseteq TUs
      /\ jx = RemoveSites(ch, S)
      /\ \A t \in TUs : new[t] = IF t \in S THEN << >> ELSE reg[t]
  BY DEF DroppingSites
<1>1. SitesLeft(ch, jx, S)
  BY <1>0, RemoveSitesOk DEF SitesTrack
<1>2. /\ SitesGood(jx) /\ SitesHeld(jx)
      /\ \A q : \A t \in TUs : Noted(jx, q, t) = IF t \in S THEN 0 ELSE Noted(ch, q, t)
  BY <1>1 DEF SitesLeft
<1>3. ASSUME NEW k \in ChannelKeys, NEW t \in TUs
      PROVE  /\ k \notin blur => Noted(jx, k, t) = Times(k, new[t])
             /\ Noted(jx, k, t) > 0 => Times(k, new[t]) > 0
  <2>1. CASE t \in S
    BY <1>0, <1>2, <2>1, NoneTimes
  <2>2. CASE t \notin S
    BY <1>0, <1>2, <2>2 DEF SitesTrack
  <2> QED BY <2>1, <2>2
<1> QED BY <1>2, <1>3 DEF SitesTrack

LEMMA RecastOk ==
  ASSUME NEW ch, NEW reg, NEW blur, SitesTrack(ch, reg, blur), NEW jx, Recast(ch, jx)
  PROVE  SitesTrack(jx, reg, blur) /\ AllSites(jx) = AllSites(ch)
BY DEF Recast, SitesTrack

-----------------------------------------------------------------------------
(* Both indexes through the steps.                                           *)

SiteInv ==
  /\ ContextInv
  /\ SitesTrack(channels, contrib, blurred)
  /\ SitesTrack(freshChannels, pending, {}) /\ Named(freshChannels)

LEMMA SiteInvInit == Init => SiteInv
<1>1. Init => ContextInv
  BY ContextInvInit
<1> QED BY <1>1, NoSites DEF Init, SiteInv

LEMMA SiteInvStep == SiteInv /\ [Next]_vars => SiteInv'
<1> SUFFICES ASSUME SiteInv, [Next]_vars PROVE SiteInv'
  OBVIOUS
<1>0. /\ ContextInv /\ SitesTrack(channels, contrib, blurred)
      /\ SitesTrack(freshChannels, pending, {}) /\ Named(freshChannels)
      /\ Registers(contrib) /\ Registers(pending)
  BY DEF SiteInv, ContextInv
<1>00. SitesTrack(EmptyChannels, None, {}) /\ Named(EmptyChannels)
  BY NoSites
<1>000. PICK yes \in BOOLEAN : yes = TRUE
  OBVIOUS
<1>0000. ContextInv'
  BY <1>0, ContextInvStep
<1>1. ASSUME NEW tu \in TUs, NEW item \in Items(tu), Bake(tu, item) PROVE SiteInv'
  <2>1. /\ channels' = IF item \in ChannelKeys THEN AddSite(channels, item, tu) ELSE channels
        /\ contrib' = [contrib EXCEPT ![Owner(tu, item)] = Append(@, item)]
        /\ freshChannels' = freshChannels /\ pending' = pending /\ blurred' = blurred
    BY <1>1 DEF Bake
  <2>2. RegisteringSite(channels, contrib, blurred, item, tu, channels', contrib')
    BY <1>0, <2>1 DEF RegisteringSite
  <2>3. SitesTrack(channels', contrib', blurred)
    BY <2>2, RegisterSiteOk
  <2> QED BY <1>0, <1>0000, <2>1, <2>3 DEF SiteInv
<1>2. ASSUME NEW tu \in TUs, NEW item \in Items(tu), BakeAside(tu, item) PROVE SiteInv'
  <2>1. /\ freshChannels' = IF item \in ChannelKeys THEN AddSite(freshChannels, item, tu) ELSE freshChannels
        /\ pending' = [pending EXCEPT ![Owner(tu, item)] = Append(@, item)]
        /\ channels' = channels /\ contrib' = contrib /\ blurred' = blurred
    BY <1>2 DEF BakeAside
  <2>2. RegisteringSite(freshChannels, pending, {}, item, tu, freshChannels', pending')
    BY <1>0, <2>1 DEF RegisteringSite
  <2>3. SitesTrack(freshChannels', pending', {}) /\ Named(freshChannels')
    BY <1>0, <2>2, RegisterSiteOk
  <2> QED BY <1>0, <1>0000, <2>1, <2>3 DEF SiteInv
<1>3. ASSUME NEW fx, NEW fc, SitesTrack(fc, pending, {}), Named(fc), Absorbed(fx, fc) PROVE SiteInv'
  <2>1. /\ channels' = AbsorbSites(channels, fc)
        /\ contrib' = [t \in Owners |-> contrib[t] \o pending[t]]
        /\ blurred' = blurred \cup Shared(pending)
        /\ freshChannels' = EmptyChannels /\ pending' = None
    BY <1>3 DEF Absorbed, Shared
  <2>2. AbsorbingSites(channels, contrib, blurred, fc, pending, channels', contrib')
    BY <1>0, <1>3, <2>1 DEF AbsorbingSites
  <2>3. SitesTrack(channels', contrib', blurred \cup Shared(pending))
    BY <2>2, AbsorbedSitesOk
  <2> QED BY <1>00, <1>0000, <2>1, <2>3 DEF SiteInv
<1>4. ASSUME AbsorbFresh PROVE SiteInv'
  <2>1. Absorbed(freshContexts, freshChannels)
    BY <1>4 DEF AbsorbFresh
  <2> QED BY <1>0, <1>3, <2>1
<1>5. ASSUME NEW order \in Orders, AbsorbShardFile(order) PROVE SiteInv'
  <2>1. PICK fx, fc : /\ fx = LoadContexts(SaveContexts(freshContexts), TRUE)
                      /\ fc = LoadSites(SaveSites(freshChannels, order), TRUE)
    OBVIOUS
  <2>2. Absorbed(fx, fc)
    BY <1>5, <2>1 DEF AbsorbShardFile
  <2>3. fc = LoadSites(SaveSites(freshChannels, order), yes) /\ order \in SetToSeqs(TUs)
    BY <1>000, <2>1 DEF Orders
  <2>4. Recast(freshChannels, fc) /\ Named(fc)
    BY <1>0, <1>000, <2>3, LoadSitesOk DEF SitesTrack
  <2>5. SitesTrack(fc, pending, {})
    BY <1>0, <2>4, RecastOk
  <2> QED BY <1>3, <2>2, <2>4, <2>5
<1>6. ASSUME NEW S \in SUBSET TUs, Drop(S) PROVE SiteInv'
  <2>1. /\ channels' = RemoveSites(channels, S)
        /\ \A t \in TUs : contrib'[t] = IF t \in S THEN <<>> ELSE contrib[t]
        /\ freshChannels' = freshChannels /\ pending' = pending /\ blurred' = blurred
    BY <1>6, TUsAssumption DEF Drop, Owners
  <2>2. DroppingSites(channels, contrib, blurred, S, channels', contrib')
    BY <1>0, <2>1 DEF DroppingSites
  <2>3. SitesTrack(channels', contrib', blurred)
    BY <2>2, DroppedSitesOk
  <2> QED BY <1>0, <1>0000, <2>1, <2>3 DEF SiteInv
<1>7. ASSUME CompactBoth PROVE SiteInv'
  <2>1. /\ channels' = CompactSites(channels) /\ contrib' = contrib
        /\ freshChannels' = freshChannels /\ pending' = pending /\ blurred' = blurred
    BY <1>7 DEF CompactBoth
  <2>2. Recast(channels, channels')
    BY <1>0, <2>1, CompactSitesOk DEF SitesTrack
  <2>3. SitesTrack(channels', contrib, blurred)
    BY <1>0, <2>2, RecastOk
  <2> QED BY <1>0, <1>0000, <2>1, <2>3 DEF SiteInv
<1>8. ASSUME NEW order \in Orders, Restart(order) PROVE SiteInv'
  <2>1. /\ channels' = LoadSites(SaveSites(channels, order), TRUE) /\ contrib' = contrib
        /\ freshChannels' = EmptyChannels /\ pending' = None /\ blurred' = blurred
    BY <1>8 DEF Restart
  <2>2. channels' = LoadSites(SaveSites(channels, order), yes) /\ order \in SetToSeqs(TUs)
    BY <1>000, <2>1 DEF Orders
  <2>3. Recast(channels, channels')
    BY <1>0, <1>000, <2>2, LoadSitesOk DEF SitesTrack
  <2>4. SitesTrack(channels', contrib, blurred)
    BY <1>0, <2>3, RecastOk
  <2> QED BY <1>00, <1>0000, <2>1, <2>4 DEF SiteInv
<1>9. CASE UNCHANGED vars
  BY <1>0, <1>0000, <1>9 DEF SiteInv, vars
<1> QED BY <1>1, <1>2, <1>4, <1>5, <1>6, <1>7, <1>8, <1>9 DEF Next

\* What one key holds: its live site if it has one.
Holding(ch, k) == {i \in LiveSites(ch) : ch.sites[i].key = k}

LEMMA StoredUnder ==
  ASSUME NEW ch, SitesGood(ch), NEW k, NEW A, A = Holding(ch, k)
  PROVE  /\ k \in DOMAIN ch.index => A = {ch.index[k]}
         /\ k \notin DOMAIN ch.index => A = {}
<1>1. /\ \A q \in DOMAIN ch.index : ch.index[q] \in LiveSites(ch) /\ ch.sites[ch.index[q]].key = q
      /\ \A i \in LiveSites(ch) :
           ch.sites[i].key \in DOMAIN ch.index /\ ch.index[ch.sites[i].key] = i
  BY DEF SitesGood, KeysIndexed
<1>2. CASE k \in DOMAIN ch.index
  <2>1. ch.index[k] \in A
    BY <1>1, <1>2 DEF Holding
  <2>2. \A i \in A : i = ch.index[k]
    BY <1>1 DEF Holding
  <2> QED BY <1>2, <2>1, <2>2
<1>3. CASE k \notin DOMAIN ch.index
  BY <1>1, <1>3 DEF Holding
<1> QED BY <1>2, <1>3

LEMMA RebuiltOk ==
  ASSUME NEW ch, NEW reg, NEW blur, SitesTrack(ch, reg, blur), Registers(reg),
         NEW k \in ChannelKeys \ blur, NEW A, A = Holding(ch, k)
  PROVE  /\ Cardinality(A) = IF Occurrences(k, reg, TUs) > 0 THEN 1 ELSE 0
         /\ \A i \in A : ch.sites[i].refs = Occurrences(k, reg, TUs)
<1>1. SitesGood(ch) /\ SitesHeld(ch) /\ \A t \in TUs : Noted(ch, k, t) = Times(k, reg[t])
  BY DEF SitesTrack
<1>2. /\ k \in DOMAIN ch.index => A = {ch.index[k]}
      /\ k \notin DOMAIN ch.index => A = {}
  BY <1>1, StoredUnder
<1>3. AreLists(reg, TUs, AllItems) /\ IsFiniteSet(TUs)
  BY RegistersFacts, TUsAssumption DEF AreLists, Owners
<1>4. CASE k \in DOMAIN ch.index
  <2>1. PICK i : i = ch.index[k]
    OBVIOUS
  <2>2. A = {i} /\ i \in LiveSites(ch)
    BY <1>1, <1>2, <1>4, <2>1 DEF SitesGood, KeysIndexed
  <2>3. ch.sites[i].refs = Occurrences(i, ch.byTu, TUs) /\ ch.sites[i].refs > 0
    BY <1>1, <2>2 DEF SitesHeld, Registered
  <2>4. \A t \in TUs : Times(i, ch.byTu[t]) = Times(k, reg[t])
    BY <1>1, <1>4, <2>1 DEF Noted
  <2>5. AreLists(ch.byTu, TUs, LiveSites(ch))
    BY <1>1, KeepsLists
  <2>6. Occurrences(i, ch.byTu, TUs) = Occurrences(k, reg, TUs)
    BY <1>3, <2>4, <2>5, OccurrencesSame
  <2>7. Cardinality({i}) = 1
    BY FS_Singleton
  <2> QED BY <2>2, <2>3, <2>6, <2>7
<1>5. CASE k \notin DOMAIN ch.index
  <2>1. \A t \in TUs : Times(k, reg[t]) = 0
    BY <1>1, <1>5 DEF Noted
  <2>2. Occurrences(k, reg, TUs) = 0
    BY <1>3, <2>1, OccurrencesNone
  <2>3. A = {} /\ Cardinality({}) = 0
    BY <1>2, <1>5, FS_EmptySet
  <2>4. \A i \in A : FALSE
    BY <2>3
  <2>5. Cardinality(A) = 0
    BY <2>3
  <2>6. ~ (Occurrences(k, reg, TUs) > 0)
    BY <2>2
  <2> QED BY <2>4, <2>5, <2>6
<1> QED BY <1>4, <1>5

\* Whatever has been registered, absorbed, removed, compacted and reloaded, a channel
\* site is stored once, with as many references as there are registrations of it by
\* TUs still indexed, and not at all when there are none; keys that two TUs of one
\* absorbed bake shared excepted (ChannelIndex.cpp: addSite, removeTUs, absorb).
THEOREM ChannelSitesCorrect == Spec => []ChannelSitesMatchRebuild
<1>1. SiteInv => ChannelSitesMatchRebuild
  <2> SUFFICES ASSUME SiteInv PROVE ChannelSitesMatchRebuild
    OBVIOUS
  <2>1. SitesTrack(channels, contrib, blurred) /\ Registers(contrib)
    BY DEF SiteInv, ContextInv
  <2>2. ASSUME NEW k \in ChannelKeys \ blurred,
               NEW A, A = Holding(channels, k)
        PROVE  /\ Cardinality(A) = IF TimesRegistered(k) > 0 THEN 1 ELSE 0
               /\ \A i \in A : channels.sites[i].refs = TimesRegistered(k)
    BY <2>1, <2>2, RebuiltOk DEF TimesRegistered
  <2> QED BY <2>2 DEF ChannelSitesMatchRebuild, RebuiltSites, Holding
<1> QED BY <1>1, SiteInvInit, SiteInvStep, PTL DEF Spec

\* Every lookup answers what a scan of all live entries would, in the same order, now
\* and after a reload that does not make the index changeable: no list misses an
\* entry or names a removed one (ControlFlowIndex.cpp and ChannelIndex.cpp: lookups).
THEOREM LookupsCorrect == Spec => []LookupsExact
<1>1. SiteInv => LookupsExact
  <2> SUFFICES ASSUME SiteInv PROVE LookupsExact
    OBVIOUS
  <2>1. Good(contexts) /\ SitesGood(channels) /\ SitesHeld(channels)
    BY DEF SiteInv, ContextInv, IndexOk, SitesTrack
  <2>2. PICK no \in BOOLEAN : no = FALSE
    OBVIOUS
  <2>3. PICK order : order = SetToSeq(TUs)
    OBVIOUS
  <2>4. order \in SetToSeqs(TUs)
    BY <2>3, OneOrder, TUsAssumption
  <2>5. PICK ix, jx : /\ ix = LoadContexts(SaveContexts(contexts), no)
                      /\ jx = LoadSites(SaveSites(channels, order), no)
    OBVIOUS
  <2>6. Good(ix)
    BY <2>1, <2>5, ReloadOk
  <2>7. SitesGood(jx)
    BY <2>1, <2>4, <2>5, LoadSitesOk
  <2>8. ContextLookupsExact(contexts) /\ ContextLookupsExact(ix)
    BY <2>1, <2>6, ContextsAnswered
  <2>9. ChannelLookupsExact(channels) /\ ChannelLookupsExact(jx)
    BY <2>1, <2>7, ChannelsAnswered
  <2>10. ix = LoadContexts(SaveContexts(contexts), FALSE)
    BY <2>2, <2>5
  <2>11. jx = LoadSites(SaveSites(channels, SetToSeq(TUs)), FALSE)
    BY <2>2, <2>3, <2>5
  <2> QED BY <2>8, <2>9, <2>10, <2>11 DEF LookupsExact
<1> QED BY <1>1, SiteInvInit, SiteInvStep, PTL DEF Spec

-----------------------------------------------------------------------------
(* Steps after which the same is registered as before.                       *)

LEMMA RegisteredMore ==
  ASSUME NEW reg, Registers(reg), NEW o \in Owners, NEW item,
         NEW new, new = [reg EXCEPT ![o] = Append(@, item)]
  PROVE  new # reg
<1>1. DOMAIN reg = Owners /\ reg[o] \in Seq(AllItems)
  BY DEF Registers
<1>2. new[o] = Append(reg[o], item)
  BY <1>1
<1>3. PICK s, p : s = reg[o] /\ p = new[o]
  OBVIOUS
<1>4. Len(p) = Len(s) + 1 /\ Len(s) \in Nat
  BY <1>1, <1>2, <1>3
<1> QED BY <1>3, <1>4

LEMMA NothingPending ==
  ASSUME NEW reg, Registers(reg), NEW pend, Registers(pend),
         reg = [t \in Owners |-> reg[t] \o pend[t]]
  PROVE  pend = None
<1>1. ASSUME NEW t \in Owners PROVE pend[t] = << >>
  <2>1. PICK s, p : s = reg[t] /\ p = pend[t]
    OBVIOUS
  <2>2. s \in Seq(AllItems) /\ p \in Seq(AllItems)
    BY <2>1, RegistersFacts
  <2>3. s = s \o p
    BY <2>1
  <2>4. Len(s \o p) = Len(s) + Len(p) /\ Len(s) \in Nat /\ Len(p) \in Nat
    BY <2>2
  <2>5. Len(p) = 0
    BY <2>3, <2>4
  <2> QED BY <2>1, <2>2, <2>5
<1>2. pend = [t \in Owners |-> pend[t]]
  BY DEF Registers
<1> QED BY <1>1, <1>2 DEF None

\* TUs that have registered nothing take no context with them.
LEMMA IdleContexts ==
  ASSUME NEW ix, NEW reg, NEW S, NEW jx, Dropping(ix, reg, S, jx, reg)
  PROVE  AllContexts(jx) = AllContexts(ix)
<1>0. Good(ix) /\ Located(ix) /\ Counts(ix, reg) /\ S \subseteq TUs /\ jx = RemoveTUs(ix, S)
  BY DEF Dropping, Tracks, IndexOk
<1>1. Counts(jx, reg)
  <2>1. Tracks(jx, reg)
    BY DroppedOk
  <2> QED BY <2>1 DEF Tracks, IndexOk
<1>2. PICK v, L, G : v = Views(ix) /\ L = LiveContexts(ix) /\ G = Gone(S)
  OBVIOUS
<1> DEFINE K == {i \in L : v[i] \notin G}
<1>3. AllContexts(jx) = Listed(v, K)
  <2>1. AllContexts(jx) = Listed(Views(ix), {i \in LiveContexts(ix) : Views(ix)[i] \notin Gone(S)})
    BY <1>0, RemoveOk
  <2> QED BY <1>2, <2>1
<1>4. v \in Seq(ShownAll) /\ AllContexts(ix) = Listed(v, L)
  BY <1>0, <1>2, ViewsSeq, AllContextsAre DEF Good
<1>5. L \subseteq DOMAIN v
  BY <1>0, <1>2, EntriesAre DEF Good
<1>6. ASSUME NEW i \in L, v[i] \in G PROVE FALSE
  <2>1. PICK x : x = v[i]
    OBVIOUS
  <2>2. x \in ShownAll
    BY <1>4, <1>5, <1>6, <2>1
  <2>3. PICK c \in Contexts, t \in Owners : x = Shown(c, t)
    BY <2>2 DEF ShownAll
  <2>4. Times(x, AllContexts(jx)) = Times(c, reg[t]) /\ Times(x, AllContexts(ix)) = Times(c, reg[t])
    BY <1>0, <1>1, <2>3 DEF Counts
  <2>5. Times(x, Listed(v, K)) = 0
    <3>1. Times(x, Listed(v, K)) = IF x \in G THEN 0 ELSE Times(x, Listed(v, L))
      BY <1>4, TimesGone
    <3> QED BY <1>6, <2>1, <3>1
  <2>6. Times(x, Listed(v, L)) > 0
    <3>1. Listed(v, L) \in Seq(ShownAll)
      BY <1>4, ListedType
    <3>2. In(x, Listed(v, L))
      BY <1>4, <1>5, <1>6, <2>1, ListedPlaces
    <3> HIDE DEF K
    <3>3. PICK s : s = Listed(v, L)
      OBVIOUS
    <3>4. s \in Seq(ShownAll) /\ \E m \in DOMAIN s : s[m] = x
      BY <3>1, <3>2, <3>3 DEF In
    <3>5. Times(x, s) > 0
      BY <3>4, TimesIn
    <3> QED BY <3>3, <3>5
  <2> HIDE DEF K
  <2> QED BY <1>3, <1>4, <2>4, <2>5, <2>6
<1>7. K = L
  BY <1>6
<1> HIDE DEF K
<1> QED BY <1>3, <1>4, <1>7

\* Nor a site.
LEMMA IdleSites ==
  ASSUME NEW ch, NEW reg, NEW blur, NEW S, NEW jx, DroppingSites(ch, reg, blur, S, jx, reg)
  PROVE  AllSites(jx) = AllSites(ch)
<1>0. /\ SitesGood(ch) /\ SitesHeld(ch) /\ S \subseteq TUs /\ jx = RemoveSites(ch, S)
      /\ \A t \in S : reg[t] = << >>
      /\ \A k \in ChannelKeys : \A t \in TUs : Noted(ch, k, t) > 0 => Times(k, reg[t]) > 0
  BY DEF DroppingSites, SitesTrack
<1>1. PICK dead, L : dead = Spent(ch, S) /\ L = LiveSites(ch)
  OBVIOUS
<1>2. SitesOut(ch, jx, S, dead) /\ Unheld(ch, S, dead)
  BY <1>0, <1>1, RemoveSiteFields
<1>3. AreLists(ch.byTu, TUs, L) /\ IsFiniteSet(TUs)
  BY <1>0, <1>1, KeepsLists
<1>4. ASSUME NEW i \in L PROVE i \notin dead
  <2>1. PICK k : k = ch.sites[i].key
    OBVIOUS
  <2>2. k \in ChannelKeys
    <3>1. ch.sites[i] \in SiteRecords
      BY <1>0, <1>1, LivePlaces DEF SitesGood
    <3> QED BY <2>1, <3>1 DEF SiteRecords
  <2>3. k \in DOMAIN ch.index /\ ch.index[k] = i
    BY <1>0, <1>1, <2>1 DEF SitesGood, KeysIndexed
  <2>4. \A t \in S : Times(i, ch.byTu[t]) = 0
    <3> SUFFICES ASSUME NEW t \in S PROVE Times(i, ch.byTu[t]) = 0
      OBVIOUS
    <3>1. Noted(ch, k, t) = Times(i, ch.byTu[t]) /\ t \in TUs
      BY <1>0, <2>3 DEF Noted
    <3>2. Times(i, ch.byTu[t]) \in Nat
      BY <1>0, <3>1, KeepsLists
    <3>3. Times(k, reg[t]) = 0
      BY <1>0, NoneTimes
    <3>4. ~ (Times(k, reg[t]) > 0)
      BY <3>3
    <3>5. ~ (Noted(ch, k, t) > 0)
      BY <1>0, <2>2, <3>1, <3>4
    <3> QED BY <3>1, <3>2, <3>5
  <2>5. Registered(ch, S, i) = 0
    BY <1>0, <1>3, <2>4, OccurrencesNone DEF Registered
  <2>6. /\ i \in dead <=> Registered(ch, TUs \ S, i) = 0
        /\ Registered(ch, TUs \ S, i) \in Nat
        /\ ch.sites[i].refs = Registered(ch, S, i) + Registered(ch, TUs \ S, i)
    BY <1>1, <1>2 DEF Unheld
  <2>7. ch.sites[i].refs > 0
    BY <1>0, <1>1 DEF SitesHeld
  <2> QED BY <2>5, <2>6, <2>7
<1>5. dead \subseteq L
  BY <1>1, <1>2 DEF Unheld
<1>6. SitesGood(jx) /\ LiveSites(jx) = L \ dead
  BY <1>0, <1>1, <1>2, <1>5, SitesOutGood
<1>7. LiveSites(jx) = L
  BY <1>4, <1>5, <1>6
<1>8. SiteKeys(jx) = SiteKeys(ch)
  <2>1. PICK n : n = Len(ch.sites)
    OBVIOUS
  <2>2. /\ Len(jx.sites) = n /\ \A i \in 1..n : jx.sites[i].key = ch.sites[i].key
    BY <1>2, <2>1 DEF SitesOut, Released
  <2>3. DOMAIN ch.sites = 1..n /\ DOMAIN jx.sites = 1..n
    BY <1>0, <1>6, <2>1, <2>2, SitesAre DEF SitesGood
  <2> QED BY <2>2, <2>3 DEF SiteKeys
<1> QED BY <1>0, <1>1, <1>6, <1>7, <1>8, AllSitesAre DEF SitesGood

\* A removal of TUs that had registered nothing, a compaction and a restart leave
\* every answer as it is: entries, their order, and nothing lost or doubled
\* (ControlFlowIndex.cpp and ChannelIndex.cpp: removeTUs, compact; Snapshot.cpp).
THEOREM MaintenanceCorrect == Spec => MaintenanceKeepsAnswers
<1>1. SiteInv /\ [Next]_vars =>
        [contrib' = contrib => /\ AllContexts(contexts') = AllContexts(contexts)
                               /\ AllSites(channels') = AllSites(channels)]_vars
  <2> SUFFICES ASSUME SiteInv, Next, contrib' = contrib
               PROVE  /\ AllContexts(contexts') = AllContexts(contexts)
                      /\ AllSites(channels') = AllSites(channels)
    BY DEF vars
  <2>0. /\ SitesTrack(channels, contrib, blurred)
        /\ Registers(contrib) /\ Registers(pending)
        /\ IndexOk(contexts, contrib)
    BY DEF SiteInv, ContextInv
  <2>00. Good(contexts) /\ SitesGood(channels) /\ SitesHeld(channels)
    BY <2>0 DEF IndexOk, SitesTrack
  <2>000. PICK yes \in BOOLEAN : yes = TRUE
    OBVIOUS
  <2>1. ASSUME NEW tu \in TUs, NEW item \in Items(tu), Bake(tu, item) PROVE FALSE
    <3>1. contrib' = [contrib EXCEPT ![Owner(tu, item)] = Append(@, item)]
      BY <2>1 DEF Bake
    <3>2. Owner(tu, item) \in Owners
      BY OwnerAndItem
    <3>3. PICK o, new : o = Owner(tu, item) /\ new = contrib'
      OBVIOUS
    <3>4. new # contrib
      BY <2>0, <3>1, <3>2, <3>3, RegisteredMore
    <3> QED BY <3>3, <3>4
  <2>2. ASSUME NEW tu \in TUs, NEW item \in Items(tu), BakeAside(tu, item)
        PROVE  contexts' = contexts /\ channels' = channels
    BY <2>2 DEF BakeAside
  <2>3. ASSUME NEW fx, NEW fc, pending # None, Absorbed(fx, fc) PROVE FALSE
    <3>1. contrib = [t \in Owners |-> contrib[t] \o pending[t]]
      BY <2>3 DEF Absorbed
    <3> QED BY <2>0, <2>3, <3>1, NothingPending
  <2>4. ASSUME AbsorbFresh PROVE FALSE
    BY <2>3, <2>4 DEF AbsorbFresh
  <2>5. ASSUME NEW order \in Orders, AbsorbShardFile(order) PROVE FALSE
    BY <2>3, <2>5 DEF AbsorbShardFile
  <2>6. ASSUME NEW S \in SUBSET TUs, Drop(S)
        PROVE  /\ AllContexts(contexts') = AllContexts(contexts)
               /\ AllSites(channels') = AllSites(channels)
    <3>1. /\ contexts' = RemoveTUs(contexts, S) /\ channels' = RemoveSites(channels, S)
          /\ contrib = [t \in Owners |->
                   IF t \in S THEN <<>>
                   ELSE IF t = NoTU THEN Only(contrib[t], LAMBDA c : siteFile[c.site] \notin S)
                   ELSE contrib[t]]
      BY <2>6 DEF Drop
    <3>2. Dropping(contexts, contrib, S, contexts', contrib)
      BY <2>0, <3>1 DEF Dropping, Tracks
    <3>3. \A t \in TUs : contrib[t] = IF t \in S THEN <<>> ELSE contrib[t]
      BY <3>1, TUsAssumption DEF Owners
    <3>4. DroppingSites(channels, contrib, blurred, S, channels', contrib)
      BY <2>0, <3>1, <3>3 DEF DroppingSites
    <3>5. AllContexts(contexts') = AllContexts(contexts)
      BY <3>2, IdleContexts
    <3>6. AllSites(channels') = AllSites(channels)
      BY <3>4, IdleSites
    <3> QED BY <3>5, <3>6
  <2>7. ASSUME CompactBoth
        PROVE  /\ AllContexts(contexts') = AllContexts(contexts)
               /\ AllSites(channels') = AllSites(channels)
    <3>1. contexts' = Compact(contexts) /\ channels' = CompactSites(channels)
      BY <2>7 DEF CompactBoth
    <3>2. Recast(channels, channels')
      BY <2>00, <3>1, CompactSitesOk
    <3> QED BY <2>00, <3>1, <3>2, CompactOk DEF Recast
  <2>8. ASSUME NEW order \in Orders, Restart(order)
        PROVE  /\ AllContexts(contexts') = AllContexts(contexts)
               /\ AllSites(channels') = AllSites(channels)
    <3>1. /\ contexts' = LoadContexts(SaveContexts(contexts), yes)
          /\ channels' = LoadSites(SaveSites(channels, order), yes)
          /\ order \in SetToSeqs(TUs)
      BY <2>000, <2>8 DEF Restart, Orders
    <3>2. Recast(channels, channels')
      BY <2>00, <2>000, <3>1, LoadSitesOk
    <3> QED BY <2>00, <3>1, <3>2, ReloadOk DEF Recast
  <2> QED BY <2>1, <2>2, <2>4, <2>5, <2>6, <2>7, <2>8 DEF Next
<1>2. Spec => []SiteInv
  BY SiteInvInit, SiteInvStep, PTL DEF Spec
<1> QED BY <1>1, <1>2, PTL DEF Spec, MaintenanceKeepsAnswers
=============================================================================
