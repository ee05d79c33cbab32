----------------------------- MODULE QueryTools -----------------------------
(***************************************************************************)
(* The query tools (src/query/*.cpp): pure functions from a request and    *)
(* the baked indexes to a payload, called one at a time by an adapter      *)
(* (module MegascopeCli; the server's is module McpServer).  program holds *)
(* the indexes the adapter has in memory; answer is the payload in flight, *)
(* which the properties read.                                              *)
(***************************************************************************)
EXTENDS DeadCode

CONSTANTS
  Programs,      \* records [edges, contexts, channels]
  EntryPoints,   \* the configured entry points, as names
  Identities,    \* identity parameters: [usr, name, site, filter]
  Targets,       \* the ones the path tools are asked about
  ChainOpts,     \* [maxDepth, maxPaths, maxFanIn, filter, valid]
  LockOpts,      \* [maxDepth, maxPaths, maxFanIn]
  EntryArgs,     \* sequences of names given as entry_points; <<>> omits it
  Types,         \* exception types asked about
  Sites,         \* call sites asked about
  MaxPaths,      \* the oracle's cap on paths
  MaxBoundaryNodes

VARIABLES program, answer

vars == <<program, answer>>

Absent   == ""
NoFilter == [given |-> FALSE, matches |-> {}]
NoAnswer == [tool |-> "none", status |-> "none"]

Registered == DOMAIN display
(* Every string of the graph: usrs, display names, unregistered endpoints.   *)
Interned(p) == Registered \cup {display[f] : f \in Registered}
               \cup {e.caller : e \in ToSet(p.edges)} \cup {e.callee : e \in ToSet(p.edges)}
-----------------------------------------------------------------------------
(* resolveIdentity.  A usr is taken verbatim; a call site means what is      *)
(* called there, and must agree with a name given beside it; a name that     *)
(* several functions share is narrowed by the filter or refused.             *)
Resolved(f)        == [status |-> "ok", ident |-> f]
Ambiguous(options) == [status |-> "ambiguous", candidates |-> options]
Error              == [status |-> "error"]
(* The messages that begin "Missing", "Requires" or "Invalid".               *)
Usage              == [status |-> "usage"]

BySite(p, id) ==
  LET callees  == {c.callee : c \in ToSet(ContextsAtSite(p.contexts, id.site))}
      agreeing == IF id.name = Absent THEN callees
                  ELSE callees \cap (UsrsForName(id.name) \cup {id.name})
  IN IF agreeing = {} THEN Error
     ELSE IF Cardinality(agreeing) = 1 THEN Resolved(CHOOSE f \in agreeing : TRUE)
     ELSE Ambiguous(agreeing)

(* Faulty variant: a shared name is taken for the first function that has it.*)
ByNameFirst(p, id) == Resolved(CHOOSE f \in UsrsForName(id.name) : TRUE)
ByName(p, id) ==
  LET usrs == UsrsForName(id.name)
      kept == usrs \cap id.filter.matches
  IN IF Cardinality(usrs) = 1 THEN Resolved(CHOOSE f \in usrs : TRUE)
     ELSE IF id.filter.given /\ Cardinality(kept) = 1 THEN Resolved(CHOOSE f \in kept : TRUE)
     ELSE Ambiguous(IF id.filter.given /\ kept # {} THEN kept ELSE usrs)

NoIdentity(id) == id.usr = Absent /\ id.name = Absent /\ id.site = Absent

ResolveIdentity(p, id) ==
  IF id.usr # Absent THEN Resolved(id.usr)
  ELSE IF id.site # Absent THEN BySite(p, id)
  ELSE IF id.name # Absent THEN ByName(p, id)
  ELSE Usage

EntryPointsArg(given) == IF given = <<>> THEN EntryPoints ELSE given

(* A handler that needs one identity: what it says when the identity is not  *)
(* one function, else its payload.                                           *)
Answer(tool, id, Payload(_)) ==
  LET r == ResolveIdentity(program, id)
  IN answer' = IF r.status = "ok"
               THEN [tool |-> tool, status |-> "ok", id |-> id, ident |-> r.ident,
                     payload |-> Payload(r.ident)]
               ELSE [tool |-> tool, status |-> r.status, id |-> id]
-----------------------------------------------------------------------------
Idle == answer.status = "none" /\ UNCHANGED program

LookupFunction(id) ==
  /\ Idle
  /\ LET r == ResolveIdentity(program, id)
     IN answer' = IF r.status = "ok" /\ r.ident \in Registered
                  THEN [tool |-> "lookup_function", status |-> "ok", id |-> id,
                        ident |-> r.ident, payload |-> display[r.ident]]
                  ELSE [tool |-> "lookup_function", id |-> id,
                        status |-> IF r.status = "ok" THEN "error" ELSE r.status]

GetCallees(id, filter) ==
  /\ Idle
  /\ Answer("get_callees", id, LAMBDA f :
       SelectSeq(CalleesOf(program, f), LAMBDA e : Allows(filter, e)))

GetCallers(id, filter) ==
  /\ Idle
  /\ Answer("get_callers", id, LAMBDA f :
       SelectSeq(CallersOf(program, f), LAMBDA e : Allows(filter, e)))

(* handleFindCallChain: the target first, then the filter, then the start,   *)
(* which is the configured entry points when none is given.                  *)
FindChain(id, from, opt) ==
  /\ Idle
  /\ LET to   == ResolveIdentity(program, id)
         src  == ResolveIdentity(program, from)
         strs == IF NoIdentity(from) THEN ToSet(EntryPoints) ELSE {src.ident}
         starts == strs \cap Interned(program)
         bad  == CASE to.status # "ok" -> to.status
                   [] ~opt.valid -> "usage"
                   [] ~NoIdentity(from) /\ src.status # "ok" -> src.status
                   [] OTHER -> "ok"
     IN answer' = IF bad # "ok" THEN [tool |-> "find_call_chain", status |-> bad, id |-> id]
                  ELSE [tool |-> "find_call_chain", status |-> "ok", id |-> id,
                        ident |-> to.ident, from |-> from, starts |-> starts, opt |-> opt,
                        payload |-> IF to.ident \in Interned(program)
                                    THEN FindCallChain(program.edges, to.ident, starts, opt)
                                    ELSE [paths |-> <<>>, skippedHubs |-> {}]]

(* query_locks_held: entry points are looked up as they are spelled.         *)
LocksHeldFor(p, f, given, opt) ==
  LET entries == ToSet(EntryPointsArg(given)) \cap Interned(p)
      r == IF f \in Interned(p) THEN LockPaths(p.edges, f, entries, opt)
           ELSE [paths |-> <<>>, skippedHubs |-> {}, truncated |-> FALSE]
  IN [paths |-> [i \in DOMAIN r.paths |->
                   [edges |-> r.paths[i], locks |-> LocksAlong(p.contexts, r.paths[i])]],
      skippedHubs |-> r.skippedHubs, truncated |-> r.truncated, entries |-> entries, opt |-> opt]

QueryLocksHeld(id, given, opt) ==
  /\ Idle
  /\ Answer("query_locks_held", id, LAMBDA f : LocksHeldFor(program, f, given, opt))

LocksIn(r) == UNION {r.paths[i].locks : i \in DOMAIN r.paths}

(* query_same_lock: either identity ambiguous is answered first.             *)
QuerySameLock(a, b, given, opt) ==
  /\ Idle
  /\ LET ra == ResolveIdentity(program, a)
         rb == ResolveIdentity(program, b)
         bad == CASE ra.status \in {"ambiguous", "error"} -> ra.status
                  [] rb.status # "ok" -> rb.status
                  [] OTHER -> ra.status
         la == LocksHeldFor(program, ra.ident, given, opt)
         lb == LocksHeldFor(program, rb.ident, given, opt)
     IN answer' = IF bad # "ok" THEN [tool |-> "query_same_lock", status |-> bad, id |-> a]
                  ELSE [tool |-> "query_same_lock", status |-> "ok", id |-> a,
                        ident |-> ra.ident, other |-> rb.ident, entries |-> la.entries, opt |-> opt,
                        payload |-> [shared |-> LocksIn(la) \cap LocksIn(lb),
                                     aOnly |-> LocksIn(la) \ LocksIn(lb),
                                     bOnly |-> LocksIn(lb) \ LocksIn(la),
                                     truncated |-> la.truncated \/ lb.truncated,
                                     skippedHubs |-> la.skippedHubs \cup lb.skippedHubs]]

(* query_exception_safety and query_throw_propagation: the same verdict, the *)
(* second with its paths.                                                    *)
ProtectionOf(f, type, given) ==
  [type |-> type, entries |-> ToSet(EntryPointsArg(given)),
   result |-> QueryExceptionProtection(program, f, type, ToSet(EntryPointsArg(given)), MaxPaths)]

QueryExceptionSafety(id, type, given) ==
  /\ Idle
  /\ Answer("query_exception_safety", id, LAMBDA f : ProtectionOf(f, type, given))

ThrowPropagation(id, type, given) ==
  /\ Idle
  /\ Answer("query_throw_propagation", id, LAMBDA f : ProtectionOf(f, type, given))

AllPathContexts(id, given) ==
  /\ Idle
  /\ Answer("query_all_path_contexts", id, LAMBDA f :
       QueryAllPathContexts(program, f, ToSet(EntryPointsArg(given)), MaxPaths))

NearestCatches(id) ==
  /\ Idle
  /\ Answer("query_nearest_catches", id, LAMBDA f : QueryNearestCatches(program, f))

(* resolveCallSiteContext: a caller picks the context; without one several   *)
(* contexts on one spelling are refused.                                     *)
ResolveCallSiteContext(site, caller) ==
  LET at == ContextsAtSite(program.contexts, site)
      of == SelectSeq(at, LAMBDA c : caller \in {c.caller, DisplayFor(c.caller)})
      chosen == IF caller = Absent THEN at ELSE of
  IN CASE chosen = <<>> -> [status |-> "error"]
       [] caller = Absent /\ Len(at) >= 2 -> [status |-> "ambiguous"]
       [] OTHER -> [status |-> "ok", context |-> chosen[1]]

AtCallSite(tool, site, caller, Payload(_)) ==
  LET r == ResolveCallSiteContext(site, caller)
  IN answer' = IF r.status = "ok"
               THEN [tool |-> tool, status |-> "ok", site |-> site, caller |-> caller,
                     payload |-> Payload(r.context)]
               ELSE [tool |-> tool, status |-> r.status, site |-> site]

CallSiteContext(site, caller) ==
  /\ Idle
  /\ AtCallSite("query_call_site_context", site, caller, LAMBDA c : c)

(* query_raii_scopes_at_callsite: of the live locals, the kinds asked for;   *)
(* the model's locals are locks.                                             *)
RaiiScopesAtCallSite(site, caller, kinds) ==
  /\ Idle
  /\ AtCallSite("query_raii_scopes_at_callsite", site, caller, LAMBDA c :
       IF kinds = {} \/ "lock" \in kinds THEN c.locks ELSE {})

(* list_entry_points: a name with the function it finds, if any; findNode    *)
(* takes the first function of a shared name.                                *)
ListEntryPoints ==
  /\ Idle
  /\ answer' = [tool |-> "list_entry_points", status |-> "ok",
                payload |-> [i \in DOMAIN EntryPoints |->
                               [name |-> EntryPoints[i],
                                known |-> UsrsForName(EntryPoints[i]) \cap Registered # {}]]]

(* analyze_dead_code without its cache (module McpServer has it).            *)
AnalyzeDeadCode(given, optimistic) ==
  /\ Idle
  /\ answer' = [tool |-> "analyze_dead_code", status |-> "ok",
                entryPoints |-> EntryPointsArg(given), optimistic |-> optimistic,
                payload |-> LivenessOf(program, EntryPointsArg(given), optimistic)]

(* list_callback_sites and list_concurrency_entry_points: the edges of every *)
(* registered function that have the kinds asked for.                        *)
ListEdges(tool, kinds, execs) ==
  /\ Idle
  /\ answer' = [tool |-> tool, status |-> "ok",
                payload |-> {e \in ToSet(program.edges) :
                               /\ e.caller \in Registered
                               /\ e.kind \in kinds
                               /\ execs # {} => e.exec \in execs}]

(* findConcurrencyBoundaries: backwards over synchronous calls, by name,     *)
(* stopping at every call that starts another thread of control.  The list   *)
(* may repeat a boundary; the model keeps the set.                           *)
RECURSIVE BoundaryWalk(_, _, _, _)
BoundaryWalk(p, queue, qi, found) ==
  LET Step(acc, e) ==
        IF e.exec # "Synchronous" THEN [acc EXCEPT !.found = @ \cup {e}]
        ELSE IF DisplayFor(e.caller) \in ToSet(acc.queue) THEN acc
        ELSE [acc EXCEPT !.queue = Append(@, DisplayFor(e.caller))]
      r == FoldLeft(Step, [queue |-> queue, found |-> found], CallersOf(p, queue[qi]))
  IN IF qi > Len(queue) \/ Len(queue) >= MaxBoundaryNodes THEN found
     ELSE BoundaryWalk(p, r.queue, qi + 1, r.found)

FindConcurrencyBoundaries(p, f) == BoundaryWalk(p, <<f>>, 1, {})

(* explain_ordering for two channel sites; the first site with a spelling.   *)
ExplainOrdering(siteA, siteB) ==
  /\ Idle
  /\ LET At(s) == SelectSeq(program.channels, LAMBDA c : c.site = s)
     IN answer' = IF At(siteA) = <<>> \/ At(siteB) = <<>>
                  THEN [tool |-> "explain_ordering", status |-> "error"]
                  ELSE [tool |-> "explain_ordering", status |-> "ok",
                        fnA |-> At(siteA)[1].fn, fnB |-> At(siteB)[1].fn,
                        payload |-> [sameChannel |-> At(siteA)[1].channel = At(siteB)[1].channel,
                                     a |-> FindConcurrencyBoundaries(program, At(siteA)[1].fn),
                                     b |-> FindConcurrencyBoundaries(program, At(siteB)[1].fn)]]

(* list_channels and query_channel: the sites of each channel by direction.  *)
SitesOf(channel, op) == SelectSeq(program.channels, LAMBDA c : c.channel = channel /\ c.op = op)
ListChannels ==
  /\ Idle
  /\ answer' = [tool |-> "list_channels", status |-> "ok",
                payload |-> [ch \in {c.channel : c \in ToSet(program.channels)} |->
                               [producers |-> Len(SitesOf(ch, "produce")),
                                consumers |-> Len(SitesOf(ch, "consume"))]]]
QueryChannel(ch) ==
  /\ Idle
  /\ answer' = IF SitesOf(ch, "produce") = <<>> /\ SitesOf(ch, "consume") = <<>>
               THEN [tool |-> "query_channel", status |-> "error"]
               ELSE [tool |-> "query_channel", status |-> "ok",
                     payload |-> [producers |-> SitesOf(ch, "produce"),
                                  consumers |-> SitesOf(ch, "consume")]]
ChannelsForFunction(f) ==
  /\ Idle
  /\ answer' = [tool |-> "query_channels_for_function", status |-> "ok",
                payload |-> SelectSeq(program.channels,
                                      LAMBDA c : f \in {c.fn, DisplayFor(c.fn)})]

(* get_class_hierarchy: the direct subclasses, or all of them by a stack     *)
(* that visits a class once but lists it under each of its bases.            *)
DerivedClasses(cls) == SelectSeq(SetToSeq(Classes), LAMBDA c : cls \in ToSet(bases[c]))

RECURSIVE DerivedLoop(_, _, _)
DerivedLoop(stack, visited, result) ==
  LET top == Last(stack)
  IN IF stack = <<>> THEN result
     ELSE IF top \in visited THEN DerivedLoop(Front(stack), visited, result)
     ELSE DerivedLoop(Front(stack) \o DerivedClasses(top), visited \cup {top},
                      result \o DerivedClasses(top))

GetClassHierarchy(cls, transitive) ==
  /\ Idle
  /\ answer' = [tool |-> "get_class_hierarchy", status |-> "ok", cls |-> cls,
                transitive |-> transitive,
                payload |-> IF transitive THEN DerivedLoop(<<cls>>, {}, <<>>)
                            ELSE DerivedClasses(cls)]

NoId == [usr |-> Absent, name |-> Absent, site |-> Absent, filter |-> NoFilter]
-----------------------------------------------------------------------------
Answered(tool) == answer.tool = tool /\ answer.status = "ok"

(* All paths to the target that Extends allows, one edge longer at a time,   *)
(* each stopped at the first start it meets.                                 *)
PathsTo(edges, target, starts, maxEdges, Extends(_, _)) ==
  LET Longer(S) == {<<e>> \o c : <<e, c>> \in {x \in ToSet(edges) \X S :
                      /\ x[1].callee = Reaches(x[2], target)
                      /\ Reaches(x[2], target) \notin starts
                      /\ Extends(x[1], x[2])}}
      layer[n \in 0 .. maxEdges] == IF n = 0 THEN {<<>>} ELSE Longer(layer[n - 1])
  IN {c \in UNION {layer[n] : n \in 0 .. maxEdges} : Reaches(c, target) \in starts}

Chains(target, starts, opt) ==
  PathsTo(program.edges, target, starts, opt.maxDepth, LAMBDA e, c :
    /\ Allows(opt.filter, e)
    /\ e.caller \notin {target} \cup {c[i].caller : i \in DOMAIN c})

Trails(target, starts, opt) ==
  PathsTo(program.edges, target, starts, opt.maxDepth - 1, LAMBDA e, c :
    e.caller # Indirect /\ ~\E i \in DOMAIN c : SameVisit(e, c[i]))

Inner(c) == {c[i].caller : i \in 2 .. Len(c)}

(* What was found is a subset of what is there, without repetition; below    *)
(* the cap, what is missing goes through a hub that the answer names.        *)
Enumerates(found, hubs, all, maxPaths, maxFanIn) ==
  /\ ToSet(found) \subseteq all
  /\ Len(found) = Cardinality(ToSet(found))
  /\ Len(found) < maxPaths => \A c \in all \ ToSet(found) : Inner(c) \cap hubs # {}
  /\ \A f \in hubs : maxFanIn > 0 /\ StoredInDegree(program.edges, f) > maxFanIn

(* find_call_chain's pruning loses nothing: the corridor, the dead-end memo  *)
(* and the hub cutoff together still give every simple chain within the      *)
(* depth budget, up to the cap and to hubs the answer reports                *)
(* (GraphTools.cpp, the comment "Dead-end memo").                            *)
ChainsExact ==
  Answered("find_call_chain") =>
    Enumerates(answer.payload.paths, answer.payload.skippedHubs,
               Chains(answer.ident, answer.starts, answer.opt),
               answer.opt.maxPaths, answer.opt.maxFanIn)

OwnLocks(e) ==
  UNION {c.locks : c \in {x \in ToSet(program.contexts) :
                            x.site = e.site /\ x.caller = e.caller /\ x.callee = e.callee}}
SpelledOnce(e) == Len(ContextsAtSite(program.contexts, e.site)) <= 1

(* query_locks_held gives every route that uses no edge twice, with the      *)
(* locks of its own call sites wherever a spelling belongs to one call; and  *)
(* when it is not truncated and skips no hubs, query_same_lock finds a lock  *)
(* shared exactly when some route to each of the two functions holds it      *)
(* (LockTools.cpp).                                                          *)
LocksExact ==
  /\ Answered("query_locks_held") =>
       LET r == answer.payload
       IN /\ Enumerates([i \in DOMAIN r.paths |-> r.paths[i].edges], r.skippedHubs,
                        Trails(answer.ident, r.entries, r.opt), r.opt.maxPaths, r.opt.maxFanIn)
          /\ \A i \in DOMAIN r.paths :
               (\A n \in DOMAIN r.paths[i].edges : SpelledOnce(r.paths[i].edges[n])) =>
                 r.paths[i].locks =
                   UNION {OwnLocks(r.paths[i].edges[n]) : n \in DOMAIN r.paths[i].edges}
  /\ Answered("query_same_lock") =>
       LET held(f) == UNION {UNION {OwnLocks(c[i]) : i \in DOMAIN c} :
                               c \in Trails(f, answer.entries, answer.opt)}
       IN /\ ~answer.payload.truncated /\ answer.payload.skippedHubs = {}
          /\ \A e \in ToSet(program.edges) : SpelledOnce(e)
          =>
            answer.payload.shared = held(answer.ident) \cap held(answer.other)

(* The least fixed points the two worklist searches stand for.               *)
RECURSIVE AliveClosure(_, _)
AliveClosure(optimistic, S) ==
  LET E == {e \in ToSet(program.edges) : e.caller \in S}
      constructed == {EnclosingClass(e.callee) :
                        e \in {x \in E : x.kind = "ConstructorCall"}} \ {NoClass}
      T == S \cup {e.callee : e \in {x \in E : ShouldFollow(optimistic, constructed, x)}}
  IN IF T = S THEN S ELSE AliveClosure(optimistic, T)

RECURSIVE SyncCallers(_)
SyncCallers(N) ==
  LET M == N \cup UNION {{DisplayFor(e.caller) :
                           e \in {x \in ToSet(CallersOf(program, n)) : x.exec = "Synchronous"}}
                         : n \in N}
  IN IF M = N THEN N ELSE SyncCallers(M)

Verdict(n, seeds, optimistic) ==
  LET Among(S) == \E f \in S : f \in Registered /\ display[f] = n
  IN IF Among(AliveClosure(FALSE, seeds)) THEN "alive"
     ELSE IF optimistic /\ Among(AliveClosure(TRUE, seeds)) THEN "optimistically_alive"
     ELSE "dead"

(* The order in which a worklist meets edges does not show in the answer:    *)
(* analyze_dead_code's verdicts are those of the smallest closed set, though *)
(* a virtual call may wait for a constructor that is found later             *)
(* (DeadCodeAnalyzer.cpp, deferredVirtualEdges); explain_ordering reports    *)
(* exactly the thread boundaries that synchronous calls lead away from; the  *)
(* subclasses of a class are those it is above of.                           *)
ReachabilityExact ==
  /\ Answered("analyze_dead_code") =>
       LET seeds == UNION {UsrsForName(answer.entryPoints[i]) : i \in DOMAIN answer.entryPoints}
       IN \A n \in DOMAIN answer.payload :
            answer.payload[n] = Verdict(n, seeds, answer.optimistic)
  /\ Answered("get_class_hierarchy") /\ answer.transitive =>
       ToSet(answer.payload) = {c \in Classes : answer.cls \in ToSet(Tail(Upward(<<c>>, 1)))}
  /\ Answered("explain_ordering") =>
       /\ answer.payload.a = {e \in ToSet(program.edges) : e.exec # "Synchronous" /\
                               \E n \in SyncCallers({answer.fnA}) : e.callee \in UsrsForName(n)}
       /\ answer.fnA = answer.fnB => answer.payload.a = answer.payload.b

(* Each pair of names has one call: nothing for the oracle to choose from.   *)
OneCallPerPair ==
  \A c, d \in ToSet(program.contexts) :
    /\ DisplayFor(c.caller) = DisplayFor(d.caller)
    /\ DisplayFor(c.callee) = DisplayFor(d.callee)
    => c = d

ScopesOf(e) ==
  UNION {ToSet(c.scopes) : c \in {x \in ToSet(program.contexts) :
                                    x.site = e.site /\ x.caller = e.caller /\ x.callee = e.callee}}

(* The simple chains of calls from the entry points of a protection query to *)
(* the function it is about, and whether one of a chain's calls is inside a  *)
(* try that catches the type: by usr and from the contexts as they stand.    *)
AskedProtection == Answered("query_exception_safety") \/ Answered("query_throw_propagation")
ChainsAsked ==
  PathsTo(program.edges, answer.ident, UNION {UsrsForName(n) : n \in answer.payload.entries},
          Cardinality(Registered),
          LAMBDA e, x : e.caller \notin {answer.ident} \cup {x[i].caller : i \in DOMAIN x})
Protected(c) ==
  \E i \in DOMAIN c : \E s \in ScopesOf(c[i]) : IsCaughtByScope(answer.payload.type, s)

(* The contexts of the calls that hop k of a path segment may stand for.     *)
CallsAt(seg, k) ==
  {c \in ToSet(program.contexts) :
     DisplayFor(c.caller) = seg[k] /\ DisplayFor(c.callee) = DisplayFor(seg[k + 1])}

(* No two functions of a chain share a name.                                 *)
Distinguished(c) ==
  Cardinality({DisplayFor(c[i].caller) : i \in DOMAIN c} \cup {DisplayFor(answer.ident)}) = Len(c) + 1


(* A name several functions share is never answered for one of them, nor for *)
(* their union: an answer is about the one function that the parameters      *)
(* single out (docs: "never a silent union of the candidates").              *)
IdentityExact ==
  LET id == answer.id
      Fits(f) == CASE id.usr # Absent  -> f = id.usr
                   [] id.site # Absent -> /\ \E c \in ToSet(program.contexts) :
                                               c.site = id.site /\ c.callee = f
                                          /\ id.name # Absent => f \in UsrsForName(id.name)
                   [] OTHER            -> /\ f \in UsrsForName(id.name)
                                          /\ id.filter.given => f \in id.filter.matches
  IN "ident" \in DOMAIN answer =>
       /\ {f \in Interned(program) \cup {answer.ident} : Fits(f)} = {answer.ident}
       /\ Answered("get_callees") => \A e \in ToSet(answer.payload) : e.caller = answer.ident
       /\ Answered("get_callers") => \A e \in ToSet(answer.payload) : e.callee = answer.ident
=============================================================================
