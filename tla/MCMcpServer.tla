---------------------------- MODULE MCMcpServer ----------------------------
(* One TU is enough: a stale answer is about one.  operator| has a bar in    *)
(* its name, the character that joins the parts of a key.                    *)
EXTENDS McpServer

CONSTANT a

Plain == [entryPoints |-> <<<<"main">>>>, optimistic |-> TRUE, system |-> FALSE,
          name |-> <<"">>, file |-> <<"">>, limit |-> "500", offset |-> "0"]
Req(method) == [id |-> 1, method |-> method, tool |-> "", file |-> NoFile, query |-> "", dead |-> Plain]
Call(tool)  == [Req("tools/call") EXCEPT !.tool = tool]

Bar == <<"operator", "">>
mcDead == {Plain, [Plain EXCEPT !.optimistic = FALSE],
           [Plain EXCEPT !.entryPoints = <<Bar>>], [Plain EXCEPT !.name = Bar]}
mcMessages ==
  {Unreadable, Req("initialize"), Req("unknown"), [Req("") EXCEPT !.id = NoId],
   [Req("notifications/initialized") EXCEPT !.id = NoId],
   Call("unknown"), Call("reindex_tu"), [Call("reindex_tu") EXCEPT !.file = a],
   Call("graph_summary"), [Call("search_functions") EXCEPT !.query = "f"]}
  \cup {[Call("analyze_dead_code") EXCEPT !.dead = d] : d \in mcDead}

(* Both framings where the response differs in kind, one for the rest.       *)
mcFramings(m) ==
  IF m = Unreadable \/ m.method = "initialize"
  THEN {"newline", "content-length"} ELSE {"newline"}
=============================================================================
