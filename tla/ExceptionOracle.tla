--------------------------- MODULE ExceptionOracle ---------------------------
(***************************************************************************)
(* The exception queries (src/callgraph/ControlFlowOracle.cpp): which      *)
(* try/catch scopes lie between the entry points and a function.  The      *)
(* oracle speaks strings: a function is named by its usr or by its display *)
(* name, every hop of a path after the first is a display name, and the    *)
(* call sites of a hop are looked up by name.                              *)
(*                                                                         *)
(* An exception type stands for all its const and reference spellings,     *)
(* which isSubtypeOf strips.                                               *)
(***************************************************************************)
EXTENDS CallPaths

CONSTANTS
  display,   \* display[usr]: the qualified name of each registered function
  baseOf,    \* the table of standard exceptions: derived type -> its base
  MaxFrames  \* how far queryNearestCatches looks up

CatchAll == "..."

(* resolveUsrIds, usrsForName: a usr is itself; a display name is every      *)
(* function that has it; anything else is an endpoint without a node.        *)
UsrsForName(name) ==
  IF name \in DOMAIN display THEN {name}
  ELSE LET named == {f \in DOMAIN display : display[f] = name}
       IN IF named = {} THEN {name} ELSE named
DisplayFor(usr) == IF usr \in DOMAIN display THEN display[usr] ELSE usr

CallersOf(p, name) == SelectSeq(p.edges, LAMBDA e : e.callee \in UsrsForName(name))

(* contextsForCaller: by usr when some context has it, by display otherwise. *)
ContextsForCaller(p, name) ==
  LET byUsr == SelectSeq(p.contexts, LAMBDA c : c.caller = name)
  IN IF byUsr # <<>> THEN byUsr
     ELSE SelectSeq(p.contexts, LAMBDA c : DisplayFor(c.caller) = name)

(* The first context of a hop, as a sequence of at most one.                 *)
HopContext(p, caller, callee) ==
  LET all == SelectSeq(ContextsForCaller(p, caller),
                       LAMBDA c : DisplayFor(c.callee) = callee)
  IN IF all = <<>> THEN <<>> ELSE <<all[1]>>
-----------------------------------------------------------------------------
RECURSIVE IsSubtypeOf(_, _)
IsSubtypeOf(thrown, caught) ==
  \/ thrown = caught
  \/ thrown \in DOMAIN baseOf /\ IsSubtypeOf(baseOf[thrown], caught)

IsCaughtByScope(type, scope) ==
  \E i \in DOMAIN scope.handlers :
    scope.handlers[i] = CatchAll \/ IsSubtypeOf(type, scope.handlers[i])

(* findPathsToTarget: simple paths over names, each ended by the first entry *)
(* point it meets.                                                           *)
RECURSIVE PathDfs(_, _, _, _, _)
PathDfs(p, entries, maxPaths, out, path) ==
  LET Step(acc, e) ==
        IF DisplayFor(e.caller) \in ToSet(path) \/ Len(acc) >= maxPaths THEN acc
        ELSE PathDfs(p, entries, maxPaths, acc, <<DisplayFor(e.caller)>> \o path)
  IN IF Len(out) >= maxPaths THEN out
     ELSE IF path[1] \in entries THEN Append(out, path)
     ELSE FoldLeft(Step, out, CallersOf(p, path[1]))

FindPathsToTarget(p, target, entries, maxPaths) ==
  PathDfs(p, entries, maxPaths, <<>>, <<target>>)

(* The scopes met along a path, outermost call first; a path is caught when  *)
(* any of them catches the type.                                             *)
ScopesAlong(p, path) ==
  FlattenSeq([i \in 1 .. Len(path) - 1 |->
    LET c == HopContext(p, path[i], path[i + 1])
    IN IF c = <<>> THEN <<>> ELSE c[1].scopes])

IsCaughtOn(p, path, type) ==
  \E i \in DOMAIN ScopesAlong(p, path) : IsCaughtByScope(type, ScopesAlong(p, path)[i])

PathInfo(p, path, type) ==
  [callChain |-> path, isCaught |-> IsCaughtOn(p, path, type),
   tryCatchesOnPath |-> ScopesAlong(p, path)]

QueryExceptionProtection(p, f, type, entries, maxPaths) ==
  LET raw    == FindPathsToTarget(p, f, entries, maxPaths)
      paths  == [i \in DOMAIN raw |-> PathInfo(p, raw[i], type)]
      caught == {i \in DOMAIN paths : paths[i].isCaught}
  IN [paths |-> paths,
      protection |-> IF raw = <<>> THEN "unknown"
                     ELSE IF caught = DOMAIN paths THEN "always_caught"
                     ELSE IF caught = {} THEN "never_caught"
                     ELSE "sometimes_caught"]

(* queryAllPathContexts: the same paths, no verdict.                         *)
QueryAllPathContexts(p, f, entries, maxPaths) ==
  LET raw == FindPathsToTarget(p, f, entries, maxPaths)
  IN [i \in DOMAIN raw |-> [callChain |-> raw[i], tryCatchesOnPath |-> ScopesAlong(p, raw[i])]]

(* queryNearestCatches: a stack of callers still to look above.  A caller    *)
(* whose call is inside a try answers; any other is looked above, once.      *)
RECURSIVE NearestLoop(_, _, _, _)
NearestLoop(p, stack, visited, out) ==
  LET top == stack[Len(stack)]
      Step(acc, e) ==
        LET caller == DisplayFor(e.caller)
            c      == HopContext(p, caller, top[1])
        IN IF caller \in acc.visited THEN acc
           ELSE IF c # <<>> /\ c[1].scopes # <<>>
           THEN [acc EXCEPT !.out = Append(@, [pathSegment |-> <<caller>> \o top,
                                               scope |-> c[1].scopes[1],
                                               framesFromTarget |-> Len(top)])]
           ELSE [acc EXCEPT !.visited = @ \cup {caller},
                            !.stack = Append(@, <<caller>> \o top)]
      r == FoldLeft(Step, [stack |-> Front(stack), visited |-> visited, out |-> out],
                    CallersOf(p, top[1]))
  IN IF stack = <<>> THEN out
     ELSE IF Len(top) - 1 > MaxFrames THEN NearestLoop(p, Front(stack), visited, out)
     ELSE NearestLoop(p, r.stack, r.visited, r.out)

QueryNearestCatches(p, f) == NearestLoop(p, <<<<f>>>>, {f}, <<>>)
=============================================================================
