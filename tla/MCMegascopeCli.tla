--------------------------- MODULE MCMegascopeCli ---------------------------
(* main calls into a knot of three functions above the target; two of them,  *)
(* b and c, share the display name "f".  Every set of the edges below with   *)
(* the first one is a call graph; the guarded programs vary what the call    *)
(* sites enclose.                                                            *)
EXTENDS MegascopeCli

mcDisplay == [u_main |-> "main", u_x |-> "x", u_b |-> "f", u_c |-> "f", u_t |-> "t",
              u_p |-> "p", u_d |-> "d"]
mcBaseOf  == [range |-> "logic", logic |-> "exception"]
mcEnclosingClass == [f \in DOMAIN mcDisplay |-> CASE f \in {"u_x", "u_t"} -> "A"
                                                  [] f = "u_c" -> "B" [] OTHER -> NoClass]
(* D inherits B twice, through A and through C, which runs its own body.     *)
mcBases    == [B |-> <<>>, A |-> <<"B">>, C |-> <<"B">>, D |-> <<"A", "C">>]
mcMethods  == [B |-> <<[usr |-> "u_c", name |-> "run", pure |-> FALSE]>>, A |-> <<>>,
               C |-> <<[usr |-> "u_d", name |-> "run", pure |-> FALSE]>>, D |-> <<>>]
mcAbstract == {"D"}

Edge(caller, callee, site, kind, conf, exec) ==
  [caller |-> caller, callee |-> callee, site |-> site, kind |-> kind, conf |-> conf,
   exec |-> exec, stored |-> TRUE]
Call(caller, callee, site) == Edge(caller, callee, site, "DirectCall", "Proven", "Synchronous")

AllEdges ==
  <<Call("u_main", "u_x", "s2"), Call("u_x", "u_t", "s1"),
    Edge("u_b", "u_x", "s3", "ConstructorCall", "Proven", "Synchronous"),
    Edge("u_x", "u_b", "s4", "FunctionPointer", "Plausible", "Synchronous"),
    Call("u_b", "u_c", "s5"), Call("u_c", "u_t", "s6"), Call("u_c", "u_x", "s7"),
    Call("u_main", "u_b", "s8"),
    Edge("u_main", "u_x", "s9", "ThreadEntry", "Proven", "ThreadSpawn"),
    Edge("u_main", "u_c", "s10", "VirtualDispatch", "Plausible", "Synchronous"),
    Call("u_t", "u_b", "s11")>>

(* Nested is a try that catches everything round one that does not catch     *)
(* the type.                                                                 *)
Nested == "nested"
Scopes(h) == CASE h = Absent -> <<>>
               [] h = Nested -> <<[handlers |-> <<"other">>], [handlers |-> <<CatchAll>>]>>
               [] OTHER      -> <<[handlers |-> <<h>>]>>
Context(e, handler, locks) ==
  [site |-> e.site, caller |-> e.caller, callee |-> e.callee, scopes |-> Scopes(handler),
   noexcept |-> FALSE, locks |-> locks]

Plain(edges) == [i \in DOMAIN edges |->
                   Context(edges[i], Absent, IF edges[i].site \in {"s2", "s6"} THEN {"m"} ELSE {})]
Channels == <<[site |-> "s1", fn |-> "u_x", channel |-> "q", op |-> "produce"],
              [site |-> "s6", fn |-> "u_c", channel |-> "q", op |-> "consume"]>>

(* The sets of edges that have the first one.                                *)
Subgraphs(edges) == {SelectSeq(edges, LAMBDA e : e = edges[1] \/ e.site \in S) :
                       S \in SUBSET {edges[i].site : i \in 2 .. Len(edges)}}
PlainPrograms(graphs) ==
  {[edges |-> g, contexts |-> Plain(g), channels |-> Channels] : g \in graphs}

(* A cycle that makes a route fail on an edge it has used, above a function  *)
(* that another route of the same length can still go through.               *)
LockKnot ==
  <<Call("u_x", "u_t", "s1"), Call("u_p", "u_x", "s12"), Call("u_b", "u_p", "s14"),
    Call("u_main", "u_p", "s13"), Call("u_x", "u_b", "s4"), Call("u_c", "u_t", "s6"),
    Call("u_d", "u_c", "s15"), Call("u_b", "u_d", "s16")>>

(* Main, x and the two functions named "f" above the target, each call site  *)
(* in no try, in one that catches by base or something else, or in two (the  *)
(* lower ones in none or one);                                               *)
(* s1 and s6 may share a spelling, as the two calls of one macro do.         *)
GuardedEdges ==
  <<Call("u_x", "u_t", "s1"), Call("u_main", "u_x", "s2"), Call("u_b", "u_x", "s3"),
    Call("u_main", "u_b", "s8"), Call("u_c", "u_t", "s6"), Call("u_main", "u_c", "s10")>>
Handlers == {Absent, "logic", Nested, "other"}
GuardedProgram(edges, h) ==
  [edges |-> edges, channels |-> Channels,
   contexts |-> [i \in DOMAIN edges |->
                   Context(edges[i],
                           IF edges[i].site \in DOMAIN h THEN h[edges[i].site] ELSE Absent, {})]]
Arrangements ==
  {h \in [{"s1", "s2", "s3", "s8"} -> Handlers] : {h["s1"], h["s3"]} \subseteq {Absent, "logic"}}
GuardedPrograms == {GuardedProgram(g, h) : g \in Subgraphs(GuardedEdges), h \in Arrangements}
SharedSpelling ==
  {[edges |-> <<Call("u_x", "u_t", "s1"), Call("u_c", "u_b", "s1"), Call("u_main", "u_x", "s2")>>,
    contexts |-> <<Context(Call("u_x", "u_t", "s1"), Absent, {"m"}),
                   Context(Call("u_c", "u_b", "s1"), "logic", {})>>,
    channels |-> <<>>]}

mcPrograms == PlainPrograms(Subgraphs(AllEdges) \cup Subgraphs(LockKnot))
              \cup GuardedPrograms \cup SharedSpelling

Usr(f)  == [usr |-> f, name |-> Absent, site |-> Absent, filter |-> NoFilter]
Named(n) == [usr |-> Absent, name |-> n, site |-> Absent, filter |-> NoFilter]
mcIdentities ==
  {Usr("u_c"), Named("t"), Named("f"), Named("unknown"), NoId,
   [Named("f") EXCEPT !.filter = [given |-> TRUE, matches |-> {"u_b"}]],
   [Named("f") EXCEPT !.filter = [given |-> TRUE, matches |-> {}]],
   [NoId EXCEPT !.site = "s1"], [Named("f") EXCEPT !.site = "s1"]}
mcTargets == {Named("t"), Named("main")}

Chain(depth, paths, fanIn, filter) ==
  [maxDepth |-> depth, maxPaths |-> paths, maxFanIn |-> fanIn, filter |-> filter, valid |-> TRUE]
mcChainOpts ==
  {Chain(3, 10, 0, AllowAll), Chain(4, 10, 1, AllowAll), Chain(4, 2, 0, AllowAll),
   Chain(4, 10, 0, [AllowAll EXCEPT !.minConf = "Proven"]),
   [Chain(4, 10, 0, AllowAll) EXCEPT !.valid = FALSE]}
mcLockOpts ==
  {[maxDepth |-> 4, maxPaths |-> 20, maxFanIn |-> 0],
   [maxDepth |-> 7, maxPaths |-> 20, maxFanIn |-> 0],
   [maxDepth |-> 5, maxPaths |-> 2, maxFanIn |-> 1]}
mcEntryPoints == <<"main">>
mcEntryArgs   == {<<>>, <<"u_main">>}
mcTypes       == {"range"}
mcSites       == {"s1", "s6"}

(* Commands: a sound one for every tool and verb, and one for each refusal.  *)
Command(verb, tool) ==
  [verb |-> verb, tool |-> tool, flagsOK |-> TRUE, help |-> FALSE, argsOK |-> TRUE,
   ephemeral |-> FALSE, indexGiven |-> FALSE, buildPath |-> TRUE, listIsStdin |-> FALSE,
   database |-> "good", strayBakeFlag |-> FALSE, file |-> "good"]
Tools ==
  {"lookup_function", "get_callees", "get_callers", "find_call_chain", "query_locks_held",
   "query_same_lock", "query_exception_safety", "query_throw_propagation",
   "query_all_path_contexts", "query_nearest_catches", "query_call_site_context",
   "query_raii_scopes_at_callsite", "analyze_dead_code", "list_callback_sites",
   "list_concurrency_entry_points", "list_entry_points", "get_class_hierarchy",
   "list_channels", "query_channel", "query_channels_for_function", "explain_ordering"}
Lookup == Command("call", "lookup_function")
Ephemeral == [Lookup EXCEPT !.ephemeral = TRUE]
mcCommands ==
  {Command("call", t) : t \in Tools}
  \cup {Command(v, Absent) : v \in {"info", "dump", "batch", "tools", "help", "call"}}
  \cup {Command("call", "reindex_tu"), Command("call", "unknown"),
        [Command("none", Absent) EXCEPT !.flagsOK = FALSE],
        [Lookup EXCEPT !.flagsOK = FALSE], [Lookup EXCEPT !.help = TRUE],
        [Lookup EXCEPT !.argsOK = FALSE], [Lookup EXCEPT !.strayBakeFlag = TRUE],
        [Lookup EXCEPT !.file = "unreadable"],
        Ephemeral, [Ephemeral EXCEPT !.indexGiven = TRUE],
        [Ephemeral EXCEPT !.buildPath = FALSE], [Ephemeral EXCEPT !.verb = "info", !.tool = Absent],
        [Ephemeral EXCEPT !.verb = "batch", !.tool = Absent, !.listIsStdin = TRUE]}
  \cup {[Ephemeral EXCEPT !.database = d] : d \in {"missing", "bad selection", "no file"}}
=============================================================================
