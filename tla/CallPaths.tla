------------------------------ MODULE CallPaths ------------------------------
(***************************************************************************)
(* The two budgeted path searches of the query tools: find_call_chain      *)
(* (src/query/GraphTools.cpp) and the lock walk behind query_locks_held    *)
(* and query_same_lock (src/query/LockTools.cpp).  Both walk backwards     *)
(* from the target in usr space, prune with a forward search from the      *)
(* starting points (the corridor) and remember dead ends.                  *)
(*                                                                         *)
(* A graph is the sequence of its edges in the order the queries see them: *)
(* what calleesOf and callersOf answer, expansions included (module        *)
(* CallGraph says why the two agree).  A call site is opaque.              *)
(***************************************************************************)
EXTENDS Naturals, Sequences, FiniteSets, SequencesExt

CallerRefsOf(edges, f) == SelectSeq(edges, LAMBDA e : e.callee = f)

(* storedInDegree: the stored edges into f, without the expansions.          *)
StoredInDegree(edges, f) ==
  Len(SelectSeq(edges, LAMBDA e : e.callee = f /\ e.stored))

(* EdgeFilter: empty sets allow everything; an explicit set of confidences   *)
(* replaces the minimum.                                                     *)
ConfidenceRank == [Unknown |-> 0, Plausible |-> 1, Proven |-> 2]
AllowAll ==
  [kinds |-> {}, execs |-> {}, useConfs |-> FALSE, confs |-> {}, minConf |-> "Unknown"]

Allows(filter, e) ==
  /\ filter.kinds # {} => e.kind \in filter.kinds
  /\ filter.execs # {} => e.exec \in filter.execs
  /\ IF filter.useConfs THEN e.conf \in filter.confs
     ELSE ConfidenceRank[e.conf] >= ConfidenceRank[filter.minConf]
-----------------------------------------------------------------------------
(* The corridor: the fewest edges from a start to each function, found by a  *)
(* forward search that gives up after maxDist rounds.  Functions it did not  *)
(* reach are not in its domain.                                              *)
RECURSIVE Rounds(_, _, _, _)
Rounds(edges, dist, frontier, left) ==
  LET next == {e.callee : e \in {x \in ToSet(edges) : x.caller \in frontier}} \ DOMAIN dist
      d    == 1 + CHOOSE n \in {dist[f] : f \in frontier} : TRUE
  IN IF frontier = {} \/ left = 0 THEN dist
     ELSE Rounds(edges,
                 [f \in DOMAIN dist \cup next |-> IF f \in next THEN d ELSE dist[f]],
                 next, left - 1)

Corridor(edges, starts, maxDist) == Rounds(edges, [f \in starts |-> 0], starts, maxDist)

(* What a search carries along: the paths found, the dead-end memo, the hubs *)
(* it declined to expand, why the current subtree failed, and whether the    *)
(* cap on paths ended the loop over the callers.                             *)
Begun == [found |-> <<>>, deadAt |-> <<>>, hubs |-> {}, flags |-> {}, stop |-> FALSE]

KnownDead(s, f, depth) == f \in DOMAIN s.deadAt /\ depth >= s.deadAt[f]

(* A subtree is a dead end only if nothing was found in it and its failure   *)
(* does not depend on the path that led there.                               *)
(* Faulty variant: a subtree cut short by the current path is remembered.    *)
RemembersBlocked(flags) == "found" \notin flags
DeadEnd(flags)          == flags = {}

NoteDeadEnd(s, f, depth) ==
  IF ~DeadEnd(s.flags) THEN s
  ELSE [s EXCEPT !.deadAt = [g \in DOMAIN @ \cup {f} |->
          IF g # f THEN @[g]
          ELSE IF f \in DOMAIN @ /\ @[f] <= depth THEN @[f] ELSE depth]]

Reaches(trail, target) == IF trail = <<>> THEN target ELSE trail[1].caller
-----------------------------------------------------------------------------
(* find_call_chain's dfs.  trail is currentEdges reversed: the edges from    *)
(* the function reached down to the target.  q carries the query: edges,     *)
(* target, starts, maxDepth, maxPaths, maxFanIn, filter and the corridor.    *)
OnPath(q, trail) == {q.target} \cup {trail[i].caller : i \in DOMAIN trail}

(* Faulty variant: the budget left is counted from the function itself, not  *)
(* from its caller.                                                          *)
CorridorTooTight(q, e, depth) ==
  \/ e.caller \notin DOMAIN q.corridor
  \/ q.corridor[e.caller] + depth + 2 > q.maxDepth
OutsideCorridor(q, e, depth) ==
  \/ e.caller \notin DOMAIN q.corridor
  \/ q.corridor[e.caller] + depth + 1 > q.maxDepth

RECURSIVE ChainDfs(_, _, _)
ChainDfs(q, s, trail) ==
  LET node  == Reaches(trail, q.target)
      depth == Len(trail)
      Full(st) == Len(st.found) >= q.maxPaths
      Step(st, e) ==
        IF st.stop THEN st
        ELSE IF e.caller \in OnPath(q, trail) THEN [st EXCEPT !.flags = @ \cup {"blocked"}]
        ELSE IF ~Allows(q.filter, e) \/ OutsideCorridor(q, e, depth) THEN st
        ELSE LET r == ChainDfs(q, [st EXCEPT !.flags = {}], <<e>> \o trail)
             IN [r EXCEPT !.flags = @ \cup st.flags \cup IF Full(r) THEN {"blocked"} ELSE {},
                          !.stop = Full(r)]
      expanded ==
        IF node \in q.starts
        THEN [s EXCEPT !.found = Append(@, trail), !.flags = {"found"}]
        ELSE IF q.maxFanIn > 0 /\ depth > 0 /\ StoredInDegree(q.edges, node) > q.maxFanIn
        THEN [s EXCEPT !.hubs = @ \cup {node}]
        ELSE FoldLeft(Step, s, CallerRefsOf(q.edges, node))
  IN IF Full(s) THEN [s EXCEPT !.flags = {"blocked"}]
     ELSE IF depth > q.maxDepth \/ KnownDead(s, node, depth) THEN s
     ELSE [NoteDeadEnd(expanded, node, depth) EXCEPT !.stop = FALSE]

(* handleFindCallChain once its parameters are resolved.                     *)
FindCallChain(edges, target, starts, opt) ==
  LET allowed == SelectSeq(edges, LAMBDA e : Allows(opt.filter, e))
      q == [edges |-> edges, target |-> target, starts |-> starts,
            maxDepth |-> opt.maxDepth, maxPaths |-> opt.maxPaths,
            maxFanIn |-> opt.maxFanIn, filter |-> opt.filter,
            corridor |-> Corridor(allowed, starts, opt.maxDepth)]
      s == IF target \in DOMAIN q.corridor THEN ChainDfs(q, Begun, <<>>) ELSE Begun
  IN [paths |-> s.found, skippedHubs |-> s.hubs]
-----------------------------------------------------------------------------
(* lockReverseDfs: the path may return to a function, never to an edge; the  *)
(* budget counts functions; a start is recognised before the budget is.      *)
SameVisit(e, f) == e.caller = f.caller /\ e.callee = f.callee /\ e.site = f.site

Indirect == "<indirect>"

OutsideLockCorridor(q, e, size) ==
  \/ e.caller \notin DOMAIN q.corridor
  \/ size + 1 + q.corridor[e.caller] > q.maxDepth

RECURSIVE LockDfs(_, _, _)
LockDfs(q, s, trail) ==
  LET node == Reaches(trail, q.target)
      size == Len(trail) + 1
      Full(st) == Len(st.found) >= q.maxPaths
      Step(st, e) ==
        IF st.stop \/ e.caller = Indirect THEN st
        ELSE IF OutsideLockCorridor(q, e, size) THEN st
        ELSE IF \E i \in DOMAIN trail : SameVisit(e, trail[i])
        THEN [st EXCEPT !.flags = @ \cup {"blocked"}]
        ELSE LET r == LockDfs(q, [st EXCEPT !.flags = {}], <<e>> \o trail)
             IN [r EXCEPT !.flags = @ \cup st.flags \cup IF Full(r) THEN {"blocked"} ELSE {},
                          !.stop = Full(r)]
  IN IF Full(s) THEN [s EXCEPT !.flags = {"blocked"}]
     ELSE IF node \in q.starts
     THEN [s EXCEPT !.found = Append(@, trail), !.flags = {"found"}]
     ELSE IF size >= q.maxDepth \/ KnownDead(s, node, size) THEN s
     ELSE IF q.maxFanIn > 0 /\ size > 1 /\ StoredInDegree(q.edges, node) > q.maxFanIn
     THEN [s EXCEPT !.hubs = @ \cup {node}]
     ELSE [NoteDeadEnd(FoldLeft(Step, s, CallerRefsOf(q.edges, node)), node, size)
             EXCEPT !.stop = FALSE]

(* collectLocksHeld up to the locks.  truncated is set when the cap ends a   *)
(* loop over callers, even if nothing was left to find.                      *)
LockPaths(edges, target, entries, opt) ==
  LET q == [edges |-> edges, target |-> target, starts |-> entries,
            maxDepth |-> opt.maxDepth, maxPaths |-> opt.maxPaths,
            maxFanIn |-> opt.maxFanIn,
            corridor |-> Corridor(edges, entries, opt.maxDepth - 1)]
      s == IF target \in DOMAIN q.corridor THEN LockDfs(q, Begun, <<>>) ELSE Begun
  IN [paths |-> s.found, skippedHubs |-> s.hubs,
      truncated |-> Len(s.found) >= opt.maxPaths /\ target \notin entries]

(* collectLocksOnEdge along a path: the locks live at its call sites, each   *)
(* key once, read from the first context that has the site's spelling.       *)
ContextsAtSite(contexts, site) == SelectSeq(contexts, LAMBDA c : c.site = site)

LocksAt(contexts, site) ==
  LET at == ContextsAtSite(contexts, site)
  IN IF at = <<>> THEN {} ELSE at[1].locks
LocksAlong(contexts, trail) ==
  UNION {LocksAt(contexts, trail[i].site) : i \in DOMAIN trail}
=============================================================================
