---------------------------- MODULE MegascopeCli ----------------------------
(***************************************************************************)
(* The query verbs of the command line (src/cli/MegascopeCli.cpp) over the *)
(* registered tools (src/query/Registry.cpp).  A process checks its        *)
(* command, loads of the index only the sections its verb reads, answers   *)
(* and exits with a code; batch loads everything and answers one request   *)
(* per line.                                                               *)
(*                                                                         *)
(* program is what the process decoded, index what the file holds.  Every  *)
(* request is answered from both, so that the two answers can be compared. *)
(***************************************************************************)
EXTENDS QueryTools

CONSTANT Commands   \* what the command lines amount to

VARIABLES index, served, cmd, exit

Whole == INSTANCE QueryTools WITH program <- index, answer <- served

cliVars == <<program, answer, index, served, cmd, exit>>

Results       == 0
Empty         == 1
UsageError    == 2
IndexError    == 3
AmbiguousName == 4
Running == -1

NoCommand == [verb |-> "none"]
NotLoaded == [edges |-> <<>>, contexts |-> <<>>, channels |-> <<>>]
-----------------------------------------------------------------------------
(* kExtraNeeds and kRecordsKeys: the sections a tool reads besides the       *)
(* graph.                                                                    *)
(* Faulty variant: the lock tools are taken to read the graph only.          *)
NeedsNoLocks(tool) ==
  CASE tool \in {"query_exception_safety", "query_call_site_context",
                 "query_raii_scopes_at_callsite", "query_throw_propagation",
                 "query_all_path_contexts", "query_nearest_catches"} -> {"graph", "contexts"}
    [] tool \in {"list_channels", "query_channel", "query_channels_for_function",
                 "explain_ordering"} -> {"graph", "channels"}
    [] OTHER -> {"graph"}
Needs(tool) ==
  CASE tool \in {"query_exception_safety", "query_call_site_context",
                 "query_raii_scopes_at_callsite", "query_throw_propagation",
                 "query_all_path_contexts", "query_nearest_catches",
                 "query_locks_held", "query_same_lock"} -> {"graph", "contexts"}
    [] tool \in {"list_channels", "query_channel", "query_channels_for_function",
                 "explain_ordering"} -> {"graph", "channels"}
    [] OTHER -> {"graph"}

NeedsOf(c) ==
  CASE c.verb = "info"  -> {}
    [] c.verb = "dump"  -> {"contexts", "channels"}
    [] c.verb = "batch" -> {"graph", "contexts", "channels"}
    [] OTHER            -> Needs(c.tool)

Decode(p, sections) ==
  [edges    |-> IF "graph" \in sections THEN p.edges ELSE <<>>,
   contexts |-> IF "contexts" \in sections THEN p.contexts ELSE <<>>,
   channels |-> IF "channels" \in sections THEN p.channels ELSE <<>>]
-----------------------------------------------------------------------------
(* The checks before anything is loaded, in their order.  A command is what  *)
(* its text amounts to: tool is a registered tool, "unknown", or Absent when *)
(* the verb is one of the verb runner's own (or call without a name).        *)
CommandExit(c) ==
  CASE c.verb = "none"                        -> UsageError
    [] c.verb = "help"                        -> Results
    [] c.verb = "call" /\ c.tool = Absent     -> UsageError
    [] c.tool \in {"unknown", "reindex_tu"}   -> UsageError
    [] ~c.flagsOK                             -> UsageError
    [] c.help                                 -> Results
    [] c.verb = "tools" /\ c.argsOK           -> Results
    [] ~c.argsOK                              -> UsageError
    [] OTHER                                  -> Running

(* bakeEphemeral's refusals; what is left bakes the selected TUs in memory.  *)
EphemeralExit(c) ==
  CASE c.indexGiven                           -> UsageError
    [] ~c.buildPath                           -> UsageError
    [] c.verb = "info"                        -> UsageError
    [] c.verb = "batch" /\ c.listIsStdin      -> UsageError
    [] c.database = "missing"                 -> IndexError
    [] c.database = "bad selection"           -> UsageError
    [] c.database = "no file"                 -> IndexError
    [] OTHER                                  -> Running

SavedExit(c) ==
  CASE c.strayBakeFlag                        -> UsageError
    [] c.file # "good"                        -> IndexError
    [] OTHER                                  -> Running

(* runMegascopeQueryVerb up to the point where the tool can run; info and    *)
(* dump answer here.                                                         *)
StartProcess(c) ==
  LET early == CommandExit(c)
      load  == IF c.ephemeral THEN EphemeralExit(c) ELSE SavedExit(c)
      stop  == IF early # Running THEN early ELSE load
      have  == IF c.ephemeral THEN index ELSE Decode(index, NeedsOf(c))
  IN /\ cmd = NoCommand
     /\ cmd' = c
     /\ program' = IF stop # Running THEN NotLoaded ELSE have
     /\ exit' = CASE stop # Running -> stop
                  [] c.verb = "info" -> Results
                  [] c.verb = "dump" ->
                       IF Len(have.contexts) + Len(have.channels) > 0 THEN Results ELSE Empty
                  [] OTHER -> Running
     /\ UNCHANGED <<index, served, answer>>
-----------------------------------------------------------------------------
(* exitCodeFor: recordsOf is the list-shaped member of the payload; a tool   *)
(* without one answers with a scalar and is never empty.                     *)
HasNoRecords(a) ==
  CASE a.tool \in {"find_call_chain", "query_locks_held"} -> a.payload.paths = <<>>
    [] a.tool = "query_throw_propagation"                 -> a.payload.result.paths = <<>>
    [] a.tool = "query_same_lock"                         -> a.payload.shared = {}
    [] a.tool = "analyze_dead_code"  -> ~\E n \in DOMAIN a.payload : a.payload[n] = "dead"
    [] a.tool \in {"get_callees", "get_callers", "get_class_hierarchy", "list_entry_points",
                   "query_all_path_contexts", "query_nearest_catches",
                   "query_channels_for_function"}         -> a.payload = <<>>
    [] a.tool \in {"list_callback_sites", "list_concurrency_entry_points",
                   "query_raii_scopes_at_callsite"}       -> a.payload = {}
    [] a.tool = "list_channels"                           -> DOMAIN a.payload = {}
    [] OTHER                                              -> FALSE

ExitCodeFor(a) ==
  CASE a.status = "usage"     -> UsageError
    [] a.status = "error"     -> Empty
    [] a.status = "ambiguous" -> AmbiguousName
    [] OTHER                  -> IF HasNoRecords(a) THEN Empty ELSE Results

(* One call of a handler: by the tool verb, or for a line of a batch.        *)
Asked(tool) == cmd.verb = "batch" \/ cmd.tool = tool

AboutOneFunction ==
  \E id \in Identities :
    \/ Asked("lookup_function") /\ LookupFunction(id) /\ Whole!LookupFunction(id)
    \/ \E o \in ChainOpts :
         \/ Asked("get_callees") /\ GetCallees(id, o.filter) /\ Whole!GetCallees(id, o.filter)
         \/ Asked("get_callers") /\ GetCallers(id, o.filter) /\ Whole!GetCallers(id, o.filter)

AboutPaths ==
  \E id \in Targets :
    \/ \E o \in ChainOpts, from \in Targets \cup {NoId} :
         Asked("find_call_chain") /\ FindChain(id, from, o) /\ Whole!FindChain(id, from, o)
    \/ \E g \in EntryArgs, o \in LockOpts :
         \/ Asked("query_locks_held") /\ QueryLocksHeld(id, g, o) /\ Whole!QueryLocksHeld(id, g, o)
         \/ \E b \in Targets :
              Asked("query_same_lock") /\ QuerySameLock(id, b, g, o) /\ Whole!QuerySameLock(id, b, g, o)
    \/ \E t \in Types, g \in EntryArgs :
         \/ /\ Asked("query_exception_safety")
            /\ QueryExceptionSafety(id, t, g) /\ Whole!QueryExceptionSafety(id, t, g)
         \/ /\ Asked("query_throw_propagation")
            /\ ThrowPropagation(id, t, g) /\ Whole!ThrowPropagation(id, t, g)
    \/ \E g \in EntryArgs :
         Asked("query_all_path_contexts") /\ AllPathContexts(id, g) /\ Whole!AllPathContexts(id, g)
    \/ Asked("query_nearest_catches") /\ NearestCatches(id) /\ Whole!NearestCatches(id)
    \/ /\ Asked("query_channels_for_function")
       /\ ChannelsForFunction(id.name) /\ Whole!ChannelsForFunction(id.name)

AboutSites ==
  \/ \E s \in Sites, c \in Registered \cup {Absent} :
       \/ Asked("query_call_site_context") /\ CallSiteContext(s, c) /\ Whole!CallSiteContext(s, c)
       \/ \E k \in SUBSET {"lock", "smart_ptr"} :
            /\ Asked("query_raii_scopes_at_callsite")
            /\ RaiiScopesAtCallSite(s, c, k) /\ Whole!RaiiScopesAtCallSite(s, c, k)
  \/ \E a, b \in Sites :
       Asked("explain_ordering") /\ ExplainOrdering(a, b) /\ Whole!ExplainOrdering(a, b)
  \/ Asked("list_channels") /\ ListChannels /\ Whole!ListChannels
  \/ \E c \in {x.channel : x \in ToSet(index.channels)} \cup {"no channel"} :
       Asked("query_channel") /\ QueryChannel(c) /\ Whole!QueryChannel(c)

AboutTheGraph ==
  \/ Asked("list_entry_points") /\ ListEntryPoints /\ Whole!ListEntryPoints
  \/ \E g \in EntryArgs, o \in BOOLEAN :
       Asked("analyze_dead_code") /\ AnalyzeDeadCode(g, o) /\ Whole!AnalyzeDeadCode(g, o)
  \/ /\ Asked("list_callback_sites")
     /\ ListEdges("list_callback_sites", {"FunctionPointer", "LambdaCall"}, {})
     /\ Whole!ListEdges("list_callback_sites", {"FunctionPointer", "LambdaCall"}, {})
  \/ \E x \in SUBSET {"Synchronous", "ThreadSpawn"} :
       /\ Asked("list_concurrency_entry_points")
       /\ ListEdges("list_concurrency_entry_points", {"ThreadEntry"}, x)
       /\ Whole!ListEdges("list_concurrency_entry_points", {"ThreadEntry"}, x)
  \/ \E cls \in Classes, all \in BOOLEAN :
       /\ Asked("get_class_hierarchy")
       /\ GetClassHierarchy(cls, all) /\ Whole!GetClassHierarchy(cls, all)

(* The tool verb answers once and exits with the payload's code; a batch     *)
(* writes the code into the answer and goes on.                              *)
CallHandler ==
  /\ cmd # NoCommand /\ exit = Running
  /\ AboutOneFunction \/ AboutPaths \/ AboutSites \/ AboutTheGraph
  /\ exit' = IF cmd.verb = "batch" THEN exit ELSE ExitCodeFor(answer')
  /\ UNCHANGED cmd

BatchNextLine ==
  /\ cmd.verb = "batch" /\ exit = Running /\ answer.status # "none"
  /\ answer' = NoAnswer /\ served' = NoAnswer
  /\ UNCHANGED <<program, index, cmd, exit>>

(* A line that is no request, or names no tool, is answered as a usage error.*)
BatchBadLine ==
  /\ cmd.verb = "batch" /\ exit = Running /\ answer.status = "none"
  /\ answer' = [tool |-> "unknown", status |-> "usage"]
  /\ served' = [tool |-> "unknown", status |-> "usage"]
  /\ UNCHANGED <<program, index, cmd, exit>>

BatchEnd ==
  /\ cmd.verb = "batch" /\ exit = Running /\ answer.status = "none"
  /\ exit' = Results
  /\ UNCHANGED <<program, answer, index, served, cmd>>

(* The shell takes the exit code; the next command is a new process.         *)
Reap ==
  /\ cmd # NoCommand /\ exit # Running
  /\ cmd' = NoCommand /\ exit' = Running /\ program' = NotLoaded
  /\ answer' = NoAnswer /\ served' = NoAnswer
  /\ UNCHANGED index
-----------------------------------------------------------------------------
Init ==
  /\ index \in Programs /\ program = NotLoaded
  /\ answer = NoAnswer /\ served = NoAnswer
  /\ cmd = NoCommand /\ exit = Running

Next ==
  \/ \E c \in Commands : StartProcess(c)
  \/ CallHandler
  \/ BatchNextLine
  \/ BatchBadLine
  \/ BatchEnd
  \/ Reap

Spec == Init /\ [][Next]_cliVars
-----------------------------------------------------------------------------
NamesCallSite == "id" \in DOMAIN answer /\ answer.id.site # Absent

(* A verb that decodes only the sections it needs answers what serve and     *)
(* batch answer from the whole index, and so gives the same exit code, for   *)
(* every request but one that names its function by a call site              *)
(* (Registry.cpp, kExtraNeeds; docs/mcp-usage.md: "exit carries the same     *)
(* code the one-shot verb would have returned").                             *)
OneShotAgrees == ~NamesCallSite => answer = served

(* The same for every request.                                               *)
SameExitAsBatch == answer.status # "none" => ExitCodeFor(answer) = ExitCodeFor(served)
=============================================================================
