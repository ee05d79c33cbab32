------------------------------ MODULE CallGraph ------------------------------
(***************************************************************************)
(* The call graph (src/callgraph/CallGraph.cpp) as a value, with one       *)
(* operator per member function: what each mutator makes of a graph and    *)
(* what each query answers.  Every mutator holds the graph's mutex for its *)
(* whole body, so one application is one step of whoever calls it.         *)
(*                                                                         *)
(* Functions, call sites and display names are opaque: interned ids are    *)
(* the strings they stand for.  An edge key is everything two edges are    *)
(* told apart by (EdgeKey).  The position of an edge matters, for four     *)
(* maps refer to it; the order of a list of positions or of names does     *)
(* not, and such a list is a bag.                                          *)
(***************************************************************************)
EXTENDS Naturals, Sequences, FiniteSets, Bags

CONSTANTS
  TUs,       \* translation unit paths
  Fns,       \* usr identities
  display,   \* display[f]: the qualified name of f; two usrs may share one
  EdgeKeys   \* [caller, callee, site, kind, proven] records

ASSUME TUsAssumption == IsFiniteSet(TUs)
ASSUME KeysAssumption ==
  \A k \in EdgeKeys : /\ k.caller \in Fns /\ k.callee \in Fns
                      /\ k.kind \in {"call", "virtual", "return"}
                      /\ k.proven \in BOOLEAN

Names == {display[f] : f \in Fns}

(* The fields are those of the class: nodes_ (its keys), byName_, edges_,    *)
(* edgeIndex_, outEdges_, inEdges_, tuEdges_, nodeContributors_, tuNodes_,   *)
(* liveEdgeCount_; the relations as sets of pairs, each with its reverse:    *)
(* methodOverrides_ / overrideBases_ and functionReturns_ / returnedBy_.     *)
EmptyGraph ==
  [nodes |-> {}, byName |-> [n \in Names |-> EmptyBag],
   edges |-> <<>>, edgeIndex |-> <<>>,
   out |-> [f \in Fns |-> EmptyBag], in |-> [f \in Fns |-> EmptyBag],
   tuEdges |-> [t \in TUs |-> EmptyBag],
   contributors |-> [f \in Fns |-> {}], tuNodes |-> [t \in TUs |-> {}],
   live |-> 0,
   overrides |-> {}, bases |-> {}, returns |-> {}, returnedBy |-> {}]

Copies(x, b)  == IF x \in DOMAIN b THEN b[x] ELSE 0
Push(b, x)    == b (+) SetToBag({x})
Without(b, S) == [x \in DOMAIN b \ S |-> b[x]]
LiveIdx(g)    == {i \in DOMAIN g.edges : g.edges[i].refs > 0}
LiveKeys(g)   == {g.edges[i].key : i \in LiveIdx(g)}
-----------------------------------------------------------------------------
(* addNode: a node seen for the first time gets its disambiguation entry;    *)
(* the contributor is noted unless the call names no TU (NoTU).              *)
NoTU == "no TU"

Contribute(g, f, tu) ==
  IF tu = NoTU \/ tu \in g.contributors[f] THEN g
  ELSE [g EXCEPT !.contributors[f] = @ \cup {tu}, !.tuNodes[tu] = @ \cup {f}]

NewNode(g, f) ==
  IF f \in g.nodes THEN g
  ELSE [g EXCEPT !.nodes = @ \cup {f},
                 !.byName[display[f]] = IF f \in DOMAIN @ THEN @ ELSE Push(@, f)]

AddNode(g, f, tu) == Contribute(NewNode(g, f), f, tu)

(* addEdge: an identical edge gains a registration instead of a copy.        *)
AddEdge(g, k, tu) ==
  IF k \in DOMAIN g.edgeIndex
  THEN LET i == g.edgeIndex[k]
       IN [g EXCEPT !.edges[i].refs = @ + 1, !.tuEdges[tu] = Push(@, i)]
  ELSE LET i == Len(g.edges) + 1
       IN [g EXCEPT !.edges = Append(@, [key |-> k, refs |-> 1]),
                    !.edgeIndex = [x \in DOMAIN @ \cup {k} |-> IF x = k THEN i ELSE @[x]],
                    !.out[k.caller] = Push(@, i), !.in[k.callee] = Push(@, i),
                    !.live = @ + 1, !.tuEdges[tu] = Push(@, i)]

(* addMethodOverride, addFunctionReturn: both directions, no TU.             *)
AddOverride(g, b, o) ==
  [g EXCEPT !.overrides = @ \cup {<<b, o>>}, !.bases = @ \cup {<<o, b>>}]
AddReturn(g, f, r) ==
  [g EXCEPT !.returns = @ \cup {<<f, r>>}, !.returnedBy = @ \cup {<<r, f>>}]
-----------------------------------------------------------------------------
(* removeTUs.  Each registration of a removed TU is released; an edge whose  *)
(* last one goes is a tombstone.  Nodes left without a contributor go, with  *)
(* their disambiguation entry.                                               *)
Registrations(g, S, i) == UNION {{t} \X (1 .. Copies(i, g.tuEdges[t])) : t \in S}
Released(g, S, i) == Cardinality(Registrations(g, S, i))

Dying(g, S) == {i \in LiveIdx(g) : Released(g, S, i) >= g.edges[i].refs}
Left(g, S, i) ==
  [g.edges[i] EXCEPT !.refs = IF i \in Dying(g, S) THEN 0 ELSE @ - Released(g, S, i)]

Orphans(g, S) ==
  {f \in UNION {g.tuNodes[t] : t \in S} : g.contributors[f] # {} /\ g.contributors[f] \subseteq S}

(* Scrubbing the lists of callers and callees.                               *)
(* Faulty variant: dead edges are not scrubbed from the callees' lists.      *)
UnscrubbedIn(g, dead) == g.in
ScrubbedOut(g, dead)  == [f \in Fns |-> Without(g.out[f], dead)]
ScrubbedIn(g, dead)   == [f \in Fns |-> Without(g.in[f], dead)]

ReleaseEdges(g, S) ==
  LET dead == Dying(g, S)
      keys == {g.edges[i].key : i \in dead}
  IN [g EXCEPT
       !.edges = [i \in DOMAIN @ |-> Left(g, S, i)],
       !.edgeIndex = [k \in DOMAIN @ \ keys |-> @[k]],
       !.out = ScrubbedOut(g, dead), !.in = ScrubbedIn(g, dead),
       !.live = @ - Cardinality(dead),
       !.tuEdges = [t \in TUs |-> IF t \in S THEN EmptyBag ELSE @[t]]]

ReleaseNodes(g, S) ==
  LET gone == Orphans(g, S)
  IN [g EXCEPT
       !.nodes = @ \ gone,
       !.byName = [n \in Names |-> Without(@[n], gone)],
       !.contributors = [f \in Fns |-> @[f] \ S],
       !.tuNodes = [t \in TUs |-> IF t \in S THEN {} ELSE @[t]]]

RemoveTUs(g, S) == ReleaseNodes(ReleaseEdges(g, S), S)
-----------------------------------------------------------------------------
(* Edges that keep their order under new numbers: those at the positions S.  *)
Rank(S, i)   == Cardinality({j \in S : j <= i})
Nth(S, n)    == CHOOSE i \in S : Rank(S, i) = n
Picked(s, S) == [n \in 1 .. Cardinality(S) |-> s[Nth(S, n)]]

(* The maps that hold positions, built anew for edges without tombstones.    *)
IndexOf(edges) ==
  [k \in {edges[i].key : i \in DOMAIN edges} |-> CHOOSE i \in DOMAIN edges : edges[i].key = k]
OutLists(edges) == [f \in Fns |-> SetToBag({i \in DOMAIN edges : edges[i].key.caller = f})]
InLists(edges)  == [f \in Fns |-> SetToBag({i \in DOMAIN edges : edges[i].key.callee = f})]

(* compact: live edges are renumbered in order, tombstones dropped, and all  *)
(* the maps that hold positions are rebuilt.                                 *)
(* Faulty variant: an edge with a single registration counts as a tombstone. *)
KeptIfShared(g) == {i \in DOMAIN g.edges : g.edges[i].refs > 1}
Kept(g) == LiveIdx(g)

Renumbered(b, kept) ==
  [n \in {Rank(kept, i) : i \in DOMAIN b \cap kept} |-> b[Nth(kept, n)]]

Compact(g) ==
  LET edges == Picked(g.edges, Kept(g))
  IN [g EXCEPT
       !.edges = edges, !.edgeIndex = IndexOf(edges),
       !.out = OutLists(edges), !.in = InLists(edges),
       !.tuEdges = [t \in TUs |-> Renumbered(@[t], Kept(g))]]
-----------------------------------------------------------------------------
(* absorb: merge a worker's shard.  Its live edges join the identical ones,  *)
(* with all their registrations, or are appended; its TU provenance is       *)
(* re-pointed at the merged edges.                                           *)
Incoming(g, shard) == {i \in LiveIdx(shard) : shard.edges[i].key \notin DOMAIN g.edgeIndex}

EdgeRemap(g, shard) ==
  [i \in LiveIdx(shard) |->
     IF i \in Incoming(g, shard) THEN Len(g.edges) + Rank(Incoming(g, shard), i)
     ELSE g.edgeIndex[shard.edges[i].key]]

(* Faulty variant: a shard's edge counts once, however often it was          *)
(* registered there.                                                         *)
OneRef(shard, k) == IF k \in DOMAIN shard.edgeIndex THEN 1 ELSE 0

RefsIn(shard, k) ==
  IF k \in DOMAIN shard.edgeIndex THEN shard.edges[shard.edgeIndex[k]].refs ELSE 0

Joined(g, shard, i) ==
  IF g.edges[i].refs = 0 THEN g.edges[i]
  ELSE [g.edges[i] EXCEPT !.refs = @ + RefsIn(shard, g.edges[i].key)]

Repointed(b, remap) ==
  [j \in {remap[i] : i \in DOMAIN b \cap DOMAIN remap} |->
     b[CHOOSE i \in DOMAIN b \cap DOMAIN remap : remap[i] = j]]

AbsorbEdges(g, shard) ==
  LET new   == Incoming(g, shard)
      remap == EdgeRemap(g, shard)
      Appended(S) == SetToBag({remap[i] : i \in S})
  IN [g EXCEPT
       !.edges = [i \in DOMAIN @ |-> Joined(g, shard, i)] \o Picked(shard.edges, new),
       !.edgeIndex = [k \in DOMAIN @ \cup {shard.edges[i].key : i \in new} |->
                        IF k \in DOMAIN @ THEN @[k] ELSE remap[shard.edgeIndex[k]]],
       !.out = [f \in Fns |-> @[f] (+) Appended({i \in new : shard.edges[i].key.caller = f})],
       !.in  = [f \in Fns |-> @[f] (+) Appended({i \in new : shard.edges[i].key.callee = f})],
       !.live = @ + Cardinality(new),
       !.tuEdges = [t \in TUs |-> @[t] (+) Repointed(shard.tuEdges[t], remap)]]

(* Faulty variant: the shard's node provenance is not carried over.          *)
ContributorsDropped(g, shard) == g.contributors
Contributors(g, shard) == [f \in Fns |-> g.contributors[f] \cup shard.contributors[f]]

NewlyNamed(g, shard, n) ==
  {f \in shard.nodes \ g.nodes : display[f] = n /\ f \notin DOMAIN g.byName[n]}

AbsorbNodes(g, shard) ==
  [g EXCEPT
    !.nodes = @ \cup shard.nodes,
    !.byName = [n \in Names |-> @[n] (+) SetToBag(NewlyNamed(g, shard, n))],
    !.contributors = Contributors(g, shard),
    !.tuNodes = [t \in TUs |-> @[t] \cup shard.tuNodes[t]]]

AbsorbRelations(g, shard) ==
  [g EXCEPT !.overrides = @ \cup shard.overrides, !.bases = @ \cup shard.bases,
            !.returns = @ \cup shard.returns, !.returnedBy = @ \cup shard.returnedBy]

Absorb(g, shard) == AbsorbRelations(AbsorbEdges(AbsorbNodes(g, shard), shard), shard)
-----------------------------------------------------------------------------
(* The graph section of the snapshot.  Saved are the nodes with their        *)
(* contributors, the live edges in order with their registrations (tuEdges_  *)
(* inverted), and the forward relations; a load rebuilds byName_, the        *)
(* adjacency, the dedup index, the provenance and the reverse relations.     *)
SaveGraph(g) ==
  [nodes |-> [f \in g.nodes |-> g.contributors[f]],
   edges |-> Picked([i \in DOMAIN g.edges |->
                       [key |-> g.edges[i].key, refs |-> g.edges[i].refs,
                        tus |-> [t \in TUs |-> Copies(i, g.tuEdges[t])]]], LiveIdx(g)),
   overrides |-> g.overrides, returns |-> g.returns]

Provenance(edges, t) ==
  [i \in {j \in DOMAIN edges : edges[j].tus[t] > 0} |-> edges[i].tus[t]]

Reversed(rel) == {<<p[2], p[1]>> : p \in rel}

LoadGraph(file) ==
  [nodes |-> DOMAIN file.nodes,
   byName |-> [n \in Names |-> SetToBag({f \in DOMAIN file.nodes : display[f] = n})],
   edges |-> [i \in DOMAIN file.edges |-> [key |-> file.edges[i].key, refs |-> file.edges[i].refs]],
   edgeIndex |-> IndexOf(file.edges),
   out |-> OutLists(file.edges), in |-> InLists(file.edges),
   tuEdges |-> [t \in TUs |-> Provenance(file.edges, t)],
   contributors |-> [f \in Fns |-> IF f \in DOMAIN file.nodes THEN file.nodes[f] ELSE {}],
   tuNodes |-> [t \in TUs |-> {f \in DOMAIN file.nodes : t \in file.nodes[f]}],
   live |-> Len(file.edges),
   overrides |-> file.overrides, bases |-> Reversed(file.overrides),
   returns |-> file.returns, returnedBy |-> Reversed(file.returns)]
-----------------------------------------------------------------------------
(* Queries, at the granularity of who reaches whom at which call site.       *)

(* transitiveClosure: what start reaches, start itself left out.  A worklist *)
(* stops with the least set that holds start and all successors of its own.  *)
Closure(rel, start) ==
  {x \in Fns \ {start} :
     \A S \in SUBSET Fns :
       start \in S /\ (\A p \in rel : p[1] \in S => p[2] \in S) => x \in S}

Image(rel, x) == {p[2] : p \in {q \in rel : q[1] = x}}

(* The live keys that an adjacency list holds.                               *)
KeysAt(g, b) == {g.edges[i].key : i \in DOMAIN b \cap LiveIdx(g)}

Expandable(k) == k.kind = "virtual" /\ ~k.proven
Row(caller, callee, site) == <<caller, callee, site>>

(* calleeRefsOf: stored edges, Plausible virtual calls expanded through      *)
(* transitive overrides, deferred edges replaced by what their callee is     *)
(* known to return.                                                          *)
CalleeRows(g, f) ==
  LET out == KeysAt(g, g.out[f])
  IN {Row(f, k.callee, k.site) : k \in {k \in out : k.kind # "return"}}
     \cup (UNION {{Row(f, o, k.site) : o \in Closure(g.overrides, k.callee)} :
                    k \in {k \in out : Expandable(k)}})
     \cup (UNION {{Row(f, r, k.site) : r \in Image(g.returns, k.callee)} :
                    k \in {k \in out : k.kind = "return"}})

(* callerRefsOf: the same rows, found from the other end through the         *)
(* reverse maps.                                                             *)
CallerRows(g, f) ==
  {Row(k.caller, f, k.site) : k \in {k \in KeysAt(g, g.in[f]) : k.kind # "return"}}
  \cup (UNION {{Row(k.caller, f, k.site) :
                  k \in {k \in KeysAt(g, g.in[b]) : Expandable(k)}} :
                b \in Closure(g.bases, f)})
  \cup (UNION {{Row(k.caller, f, k.site) :
                  k \in {k \in KeysAt(g, g.in[r]) : k.kind = "return"}} :
                r \in Image(g.returnedBy, f)})

Answers(g) == [f \in Fns |-> CalleeRows(g, f)]
=============================================================================
