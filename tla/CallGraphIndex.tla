--------------------------- MODULE CallGraphIndex ---------------------------
(***************************************************************************)
(* A call graph kept up to date while TUs are baked, removed and baked     *)
(* again: the parallel in-process bake and reindex_tu write to the graph   *)
(* directly, worker subprocesses build shards that the parent absorbs, a   *)
(* warm refresh removes a set of TUs before absorbing their new shard.     *)
(*                                                                         *)
(* How often a TU has registered what since it was last removed is         *)
(* remembered in contrib.  A full rebuild of those TUs would register      *)
(* exactly that.                                                           *)
(***************************************************************************)
EXTENDS CallGraph

CONSTANTS
  Overrides,       \* override relations a TU may declare
  Returns,         \* functions a TU may see returned
  Declared,        \* usrs whose declarations TUs see
  Untagged,        \* usrs of constructors named only by make_unique
  MaxSteps,        \* bound: registrations
  MaxRemovals      \* bound: removals and compactions

ASSUME ProgramAssumption ==
  /\ Declared \subseteq Fns /\ Untagged \subseteq Fns
  /\ Overrides \subseteq Fns \X Fns /\ Returns \subseteq Fns \X Fns
  /\ NoTU \notin TUs

VARIABLES
  graph,
  shard,           \* what workers have built and the parent has not absorbed
  contrib,         \* contrib[tu][item]: how often tu has registered item in graph
  pending,         \* pending[tu]: the same, in shard
  steps, removals

vars == <<graph, shard, contrib, pending, steps, removals>>

(* What a visitor may register while it walks a TU.  make_unique and         *)
(* make_shared register the constructed type's constructors without naming   *)
(* the TU (CallGraphBuilder.cpp:753).                                        *)
Items ==
  {<<"node", f>> : f \in Declared} \cup {<<"maker", f>> : f \in Untagged}
    \cup {<<"edge", k>> : k \in EdgeKeys}
    \cup {<<"override", p>> : p \in Overrides} \cup {<<"return", p>> : p \in Returns}

None == [t \in TUs |-> [x \in Items |-> 0]]

Init ==
  /\ graph = EmptyGraph /\ shard = EmptyGraph
  /\ contrib = None /\ pending = None
  /\ steps = 0 /\ removals = 0

Register(g, tu, item) ==
  CASE item[1] = "node"     -> AddNode(g, item[2], tu)
    [] item[1] = "maker"    -> AddNode(g, item[2], NoTU)
    [] item[1] = "edge"     -> AddEdge(g, item[2], tu)
    [] item[1] = "override" -> AddOverride(g, item[2][1], item[2][2])
    [] item[1] = "return"   -> AddReturn(g, item[2][1], item[2][2])

Bake(tu, item) ==
  /\ steps < MaxSteps
  /\ graph' = Register(graph, tu, item)
  /\ contrib' = [contrib EXCEPT ![tu][item] = @ + 1]
  /\ steps' = steps + 1
  /\ UNCHANGED <<shard, pending, removals>>

BakeInWorker(tu, item) ==
  /\ steps < MaxSteps
  /\ shard' = Register(shard, tu, item)
  /\ pending' = [pending EXCEPT ![tu][item] = @ + 1]
  /\ steps' = steps + 1
  /\ UNCHANGED <<graph, contrib, removals>>

AbsorbShard ==
  /\ pending # None
  /\ graph' = Absorb(graph, shard)
  /\ contrib' = [t \in TUs |-> [x \in Items |-> contrib[t][x] + pending[t][x]]]
  /\ shard' = EmptyGraph /\ pending' = None
  /\ UNCHANGED <<steps, removals>>

Remove(S) ==
  /\ removals < MaxRemovals
  /\ graph' = RemoveTUs(graph, S)
  /\ contrib' = [t \in TUs |-> IF t \in S THEN None[t] ELSE contrib[t]]
  /\ removals' = removals + 1
  /\ UNCHANGED <<shard, pending, steps>>

CompactGraph ==
  /\ removals < MaxRemovals
  /\ graph' = Compact(graph)
  /\ removals' = removals + 1
  /\ UNCHANGED <<shard, contrib, pending, steps>>

(* A restart: the graph comes back from the snapshot it was saved to; what a *)
(* worker had not handed over is lost.                                       *)
Restart ==
  /\ removals < MaxRemovals
  /\ graph' = LoadGraph(SaveGraph(graph))
  /\ shard' = EmptyGraph /\ pending' = None
  /\ removals' = removals + 1
  /\ UNCHANGED <<contrib, steps>>

Next ==
  \/ \E tu \in TUs, item \in Items : Bake(tu, item) \/ BakeInWorker(tu, item)
  \/ AbsorbShard
  \/ \E S \in (SUBSET TUs) \ {{}} : Remove(S)
  \/ CompactGraph
  \/ Restart

Spec == Init /\ [][Next]_vars
-----------------------------------------------------------------------------
(* What a full rebuild would hold.                                           *)
Times(item) == Cardinality(UNION {{t} \X (1 .. contrib[t][item]) : t \in TUs})

RebuiltEdges == {k \in EdgeKeys : \E t \in TUs : contrib[t][<<"edge", k>>] > 0}
RebuiltNodes == {f \in Declared : \E t \in TUs : contrib[t][<<"node", f>>] > 0}

\* The stored edges are those a full rebuild would store, each with as many
\* registrations: an edge that several TUs register survives until the last
\* of them is removed, and no longer (CallGraph.h:255-259).
EdgesMatchRebuild ==
  /\ LiveKeys(graph) = RebuiltEdges
  /\ \A i \in LiveIdx(graph) : graph.edges[i].refs = Times(<<"edge", graph.edges[i].key>>)

\* Nodes named by some TU's registration are those a full rebuild would hold,
\* and each can be found by its display name exactly once.
TaggedNodesMatchRebuild ==
  /\ graph.nodes \ Untagged = RebuiltNodes \ Untagged
  /\ \A n \in Names : graph.byName[n] = SetToBag({f \in graph.nodes : display[f] = n})

\* The index and the two adjacency lists name every live edge once, at its
\* own key and endpoints, and no tombstone; the count is theirs.
EdgeListsExact ==
  /\ graph.live = Cardinality(LiveIdx(graph))
  /\ DOMAIN graph.edgeIndex = LiveKeys(graph)
  /\ \A i \in LiveIdx(graph) : graph.edgeIndex[graph.edges[i].key] = i
  /\ \A f \in Fns :
       /\ graph.out[f] = SetToBag({i \in LiveIdx(graph) : graph.edges[i].key.caller = f})
       /\ graph.in[f]  = SetToBag({i \in LiveIdx(graph) : graph.edges[i].key.callee = f})

\* Every caller -> callee row found from the caller's side is found from the
\* callee's side and the other way round, expanded virtual calls and returned
\* function pointers included: callersOf and callees_of never disagree.
QueriesAgree ==
  \A f \in Fns :
    /\ \A r \in CalleeRows(graph, f) : r \in CallerRows(graph, r[2])
    /\ \A r \in CallerRows(graph, f) : r \in CalleeRows(graph, r[1])

\* Both directions of the graph hold, and answer, the same edges: the lists
\* kept by addEdge, removeTUs, absorb and compaction, and the queries over them.
AdjacencyExact == EdgeListsExact /\ QueriesAgree

\* Compaction and a restart from the snapshot change no answer.
MaintenanceKeepsAnswers == [][contrib' = contrib => Answers(graph') = Answers(graph)]_vars
=============================================================================
