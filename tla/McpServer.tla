----------------------------- MODULE McpServer -----------------------------
(***************************************************************************)
(* The long-lived query server (src/mcp/McpServer.cpp) and its transport   *)
(* (src/mcp/McpProtocol.cpp).  It reads JSON-RPC messages from a stream,   *)
(* each either one line or a block with a Content-Length header, answers   *)
(* them one at a time, keeps whole-graph results in a cache and re-parses  *)
(* a translation unit on request.                                          *)
(*                                                                         *)
(* The stream is a sequence of chunks: a line that starts with '{', any    *)
(* other text, a Content-Length line, a blank line.  A length names the    *)
(* one chunk that follows the blank line.  Strings that go into a cache    *)
(* key are sequences of the parts between their '|' characters, so that    *)
(* joining strings with '|' is concatenation.                              *)
(***************************************************************************)
EXTENDS Naturals, Sequences, SequencesExt

CONSTANTS
  TUs,           \* translation units
  Messages,      \* what a client says: [id, method, tool, file, query, dead] or Unreadable
  Framings(_),   \* how it may frame each of them
  BareText,      \* whether a client also sends lines that are no object
  HasDatabase,   \* whether the server was started with a compilation database
  MaxMessages,   \* bound: messages of one session
  MaxEdits       \* bound: edits of a source file

VARIABLES
  disk,          \* the version of each source file
  graph,         \* what the indexes hold of each TU
  cache,         \* queryCache_
  input, closed, \* the bytes not read yet; whether the client has closed the stream
  framing,       \* g_framing
  initialized,
  up,            \* run() has not returned
  reply,         \* the last response written, with the request and the indexes it met
  answered,      \* every response: whom it answers and how it is framed
  said, owed     \* how many messages the client sent; the answers they want

vars == <<disk, graph, cache, input, closed, framing, initialized, up, reply, answered, said, owed>>

NoId  == 0
NoFile == "no file"
Unreadable == [kind |-> "garbled"]
NoReply == [kind |-> "none"]
EmptyCache == [byKey |-> <<>>, objects |-> <<>>]

(* A message that can be read: its method and the arguments of its tool, as  *)
(* far as a tool looks at them.                                              *)
DeadArgs ==
  [entryPoints : Seq(Seq(STRING)), optimistic : BOOLEAN, system : BOOLEAN,
   name : Seq(STRING), file : Seq(STRING), limit : STRING, offset : STRING]
Requests ==
  [id : Nat, method : STRING, tool : STRING, file : TUs \cup {NoFile}, query : STRING,
   dead : DeadArgs]

ASSUME MessagesAssumption == Messages \subseteq Requests \cup {Unreadable}
ASSUME FramingsAssumption ==
  \A m \in Messages \cup {Unreadable} : Framings(m) \subseteq {"newline", "content-length"}
-----------------------------------------------------------------------------
(* readMessageBody: blanks are skipped; a '{' starts a line; anything else   *)
(* starts a header block that ends at a blank line.                          *)
Blank     == [kind |-> "blank"]
LengthIs  == [kind |-> "length"]
Text      == [kind |-> "text", msg |-> Unreadable]
Object(m) == [kind |-> "object", msg |-> m]

FirstFrom(s, i, kinds) ==
  LET at == {k \in i .. Len(s) : s[k].kind \in kinds}
  IN IF at = {} THEN Len(s) + 1 ELSE CHOOSE k \in at : \A l \in at : k <= l

Wait == IF closed THEN [outcome |-> "end"] ELSE [outcome |-> "wait"]

ReadMessageBody(s) ==
  LET i == FirstFrom(s, 1, {"length", "text", "object"})
      j == FirstFrom(s, i, {"blank"})
      Body(n, f) == [outcome |-> "body", body |-> s[n], framing |-> f,
                     rest |-> SubSeq(s, n + 1, Len(s))]
  IN CASE i > Len(s) -> Wait
       [] i <= Len(s) /\ s[i].kind = "object" -> Body(i, "newline")
       [] i <= Len(s) /\ s[i].kind # "object" /\ j > Len(s) -> Wait
       [] OTHER -> IF ~\E k \in i .. j - 1 : s[k].kind = "length" THEN [outcome |-> "end"]
                   ELSE IF j = Len(s) THEN Wait ELSE Body(j + 1, "content-length")

(* Faulty variant: the framing of the first message is kept for the session. *)
FramingIsSticky(r) == IF answered = <<>> THEN r.framing ELSE framing
FramingOf(r) == r.framing
-----------------------------------------------------------------------------
(* What the indexes hold of a TU: the version parsed, and how many of the    *)
(* three visitors came to an end (a crash stops them, and what they put in   *)
(* stays).                                                                   *)
Contribution == [version : 0 .. MaxEdits, visitors : 0 .. 3]
Nodes(g)    == [t \in {x \in TUs : g[x].visitors >= 1} |-> g[t].version]
Edges(g)    == [t \in {x \in TUs : g[x].visitors >= 2} |-> g[t].version]
Contexts(g) == [t \in {x \in TUs : g[x].visitors >= 3} |-> g[t].version]

(* The tools that use the cache, as functions of the indexes.                *)
Summary(g)     == [nodes |-> Nodes(g), edges |-> Edges(g), callSites |-> Contexts(g)]
SearchIndex(g) == Nodes(g)
Liveness(g, a) == [nodes |-> Nodes(g), edges |-> Edges(g), entries |-> a.entryPoints,
                   optimistic |-> a.optimistic]
DeadList(liveness, g, a) ==
  [liveness |-> liveness, nodes |-> Nodes(g), system |-> a.system, name |-> a.name,
   file |-> a.file, limit |-> a.limit, offset |-> a.offset]

Compute(m, g) ==
  CASE m.tool = "graph_summary"     -> Summary(g)
    [] m.tool = "search_functions"  -> [query |-> m.query, index |-> SearchIndex(g)]
    [] m.tool = "analyze_dead_code" -> DeadList(Liveness(g, m.dead), g, m.dead)
    [] OTHER                        -> [tool |-> m.tool, nodes |-> Nodes(g), edges |-> Edges(g)]

(* Keys.                                                                     *)
Flag(b) == IF b THEN "1" ELSE "0"
LivenessKey(a) == <<"dead_code", Flag(a.optimistic)>> \o FlattenSeq(a.entryPoints)
DeadListKey(a) ==
  <<"dead_code_json", Flag(a.optimistic), Flag(a.system)>> \o a.name \o a.file
    \o <<a.limit, a.offset>> \o FlattenSeq(a.entryPoints)

Recall(map, key, value) == IF key \in DOMAIN map THEN map[key] ELSE value
Keep(map, key, value)   ==
  [k \in DOMAIN map \cup {key} |-> IF k = key THEN value ELSE map[k]]

(* A handler's payload and the cache it leaves.                              *)
Handle(m, g, c) ==
  CASE m.tool = "graph_summary" ->
         LET v == Recall(c.byKey, <<"graph_summary">>, Summary(g))
         IN [value |-> v, cache |-> [c EXCEPT !.byKey = Keep(@, <<"graph_summary">>, v)]]
    [] m.tool = "search_functions" ->
         LET v == Recall(c.objects, <<"search_index">>, SearchIndex(g))
         IN [value |-> [query |-> m.query, index |-> v],
             cache |-> [c EXCEPT !.objects = Keep(@, <<"search_index">>, v)]]
    [] m.tool = "analyze_dead_code" ->
         IF DeadListKey(m.dead) \in DOMAIN c.byKey
         THEN [value |-> c.byKey[DeadListKey(m.dead)], cache |-> c]
         ELSE LET l == Recall(c.objects, LivenessKey(m.dead), Liveness(g, m.dead))
                  v == DeadList(l, g, m.dead)
              IN [value |-> v,
                  cache |-> [byKey   |-> Keep(c.byKey, DeadListKey(m.dead), v),
                             objects |-> Keep(c.objects, LivenessKey(m.dead), l)]]
    [] OTHER -> [value |-> Compute(m, g), cache |-> c]
-----------------------------------------------------------------------------
(* writeResult, writeError: a response goes out in the framing of the        *)
(* message read last.                                                        *)
Write(r, kind, id) ==
  /\ framing' = FramingOf(r)
  /\ answered' = Append(answered, [id |-> id, framing |-> FramingOf(r)])
  /\ reply' = [kind |-> kind]

Written(r, rec) ==
  /\ framing' = FramingOf(r)
  /\ answered' = Append(answered, [id |-> rec.msg.id, framing |-> FramingOf(r)])
  /\ reply' = rec

Silent(r) == framing' = FramingOf(r) /\ UNCHANGED <<answered, reply>>

Msg(r) == r.body.msg
Read(r) == up /\ r.outcome = "body" /\ input' = r.rest

(* readRequest answers what is no request and reads on.                      *)
RefuseBody ==
  LET r == ReadMessageBody(input)
  IN /\ Read(r)
     /\ \/ Msg(r) = Unreadable /\ Write(r, "error", NoId)
        \/ Msg(r) # Unreadable /\ Msg(r).method = "" /\ Write(r, "error", Msg(r).id)
     /\ UNCHANGED <<disk, graph, cache, closed, initialized, up, said, owed>>

IsRequest(r) == Msg(r) # Unreadable /\ Msg(r).method # ""

Notification ==
  LET r == ReadMessageBody(input)
  IN /\ Read(r) /\ IsRequest(r)
     /\ Msg(r).id = NoId
     /\ initialized' = (initialized \/ Msg(r).method = "notifications/initialized")
     /\ Silent(r)
     /\ UNCHANGED <<disk, graph, cache, closed, up, said, owed>>

(* dispatch, all but tools/call: initialize and tools/list are answered      *)
(* without looking at any state, an unknown method with an error.            *)
Dispatch ==
  LET r == ReadMessageBody(input)
  IN /\ Read(r) /\ IsRequest(r)
     /\ Msg(r).id # NoId /\ Msg(r).method # "tools/call"
     /\ Write(r, IF Msg(r).method \in {"initialize", "tools/list"} THEN "result" ELSE "error",
              Msg(r).id)
     /\ UNCHANGED <<disk, graph, cache, closed, initialized, up, said, owed>>

IsCall(r) == IsRequest(r) /\ Msg(r).id # NoId /\ Msg(r).method = "tools/call"

(* handleToolsCall: no name, an unknown name, or a reindex_tu that cannot be *)
(* done, answers with an error text.                                         *)
Impossible(m) ==
  \/ m.tool \in {"", "unknown"}
  \/ m.tool = "reindex_tu" /\ (m.file = NoFile \/ ~HasDatabase)

RefuseCall ==
  LET r == ReadMessageBody(input)
  IN /\ Read(r) /\ IsCall(r) /\ Impossible(Msg(r))
     /\ Write(r, "tool error", Msg(r).id)
     /\ UNCHANGED <<disk, graph, cache, closed, initialized, up, said, owed>>

CallTool ==
  LET r == ReadMessageBody(input)
      h == Handle(Msg(r), graph, cache)
  IN /\ Read(r) /\ IsCall(r) /\ ~Impossible(Msg(r)) /\ Msg(r).tool # "reindex_tu"
     /\ cache' = h.cache
     /\ Written(r, [kind |-> "tool result", msg |-> Msg(r), value |-> h.value, met |-> graph])
     /\ UNCHANGED <<disk, graph, closed, initialized, up, said, owed>>

(* reindexTU: the cache is dropped, the TU removed from every index and      *)
(* parsed again; the parse may crash and is then left where it was.          *)
(* Faulty variant: the typed results survive.                                *)
ClearOnlyJson(c) == [c EXCEPT !.byKey = <<>>]
Clear(c) == EmptyCache

ReindexTU ==
  LET r == ReadMessageBody(input)
  IN /\ Read(r) /\ IsCall(r) /\ ~Impossible(Msg(r)) /\ Msg(r).tool = "reindex_tu"
     /\ cache' = Clear(cache)
     /\ \E n \in 0 .. 3 :
          graph' = [graph EXCEPT ![Msg(r).file] = [version |-> disk[Msg(r).file], visitors |-> n]]
     /\ Written(r, [kind |-> "reindexed", msg |-> Msg(r)])
     /\ UNCHANGED <<disk, closed, initialized, up, said, owed>>

(* End of the stream, or a header block without a length: run returns.       *)
Shutdown ==
  /\ up /\ ReadMessageBody(input).outcome = "end"
  /\ up' = FALSE
  /\ UNCHANGED <<disk, graph, cache, input, closed, framing, initialized, reply, answered, said, owed>>
-----------------------------------------------------------------------------
(* The client: it numbers what wants an answer, and frames as it likes.      *)
Number(m) == IF m # Unreadable /\ m.id # NoId THEN [m EXCEPT !.id = said + 1] ELSE m

WantsAnswer(m) == m = Unreadable \/ m.id # NoId \/ m.method = ""
Owes(m, f) == [id |-> IF m = Unreadable THEN NoId ELSE m.id, framing |-> f]

Say(m, f) ==
  /\ ~closed /\ said < MaxMessages /\ said' = said + 1
  /\ owed' = IF WantsAnswer(m) THEN Append(owed, Owes(m, f)) ELSE owed
  /\ UNCHANGED <<disk, graph, cache, closed, framing, initialized, up, reply, answered>>

Send(m, f) ==
  /\ input' = input \o IF f = "newline" THEN <<Object(Number(m))>>
                       ELSE <<LengthIs, Blank, Object(Number(m))>>
  /\ Say(Number(m), f)

(* A body or, if BareText, a line that is JSON but no object, or no JSON.    *)
SendText(f) ==
  /\ f = "newline" => BareText
  /\ input' = input \o IF f = "newline" THEN <<Text>> ELSE <<LengthIs, Blank, Text>>
  /\ Say(Unreadable, f)

SendBlank ==
  /\ ~closed /\ input = <<>> /\ input' = <<Blank>>
  /\ UNCHANGED <<disk, graph, cache, closed, framing, initialized, up, reply, answered, said, owed>>

Close ==
  /\ ~closed /\ closed' = TRUE
  /\ UNCHANGED <<disk, graph, cache, input, framing, initialized, up, reply, answered, said, owed>>

Edit(t) ==
  /\ disk[t] < MaxEdits
  /\ disk' = [disk EXCEPT ![t] = @ + 1]
  /\ UNCHANGED <<graph, cache, input, closed, framing, initialized, up, reply, answered, said, owed>>
-----------------------------------------------------------------------------
Init ==
  /\ disk = [t \in TUs |-> 0]
  /\ graph = [t \in TUs |-> [version |-> 0, visitors |-> 3]]
  /\ cache = EmptyCache
  /\ input = <<>> /\ closed = FALSE /\ framing = "newline"
  /\ initialized = FALSE /\ up = TRUE
  /\ reply = NoReply /\ answered = <<>> /\ said = 0 /\ owed = <<>>

Serve == RefuseBody \/ Notification \/ Dispatch \/ RefuseCall \/ CallTool \/ ReindexTU \/ Shutdown

Next ==
  \/ RefuseBody
  \/ Notification
  \/ Dispatch
  \/ RefuseCall
  \/ CallTool
  \/ ReindexTU
  \/ Shutdown
  \/ \E m \in Messages : \E f \in Framings(m) : Send(m, f)
  \/ \E f \in Framings(Unreadable) : SendText(f)
  \/ SendBlank
  \/ Close
  \/ \E t \in TUs : Edit(t)

(* The server's loop reads as long as there is something to read.            *)
Spec == Init /\ [][Next]_vars /\ WF_vars(Serve)
-----------------------------------------------------------------------------
(* The answer to a whole-graph query is what a computation on the indexes as *)
(* they are would give, whatever was asked and re-parsed before: the cache   *)
(* is invisible (Tools.h: "a cached value is always consistent with the      *)
(* graph it was computed from").                                             *)
CacheIsInvisible ==
  reply.kind = "tool result" => reply.value = Compute(reply.msg, reply.met)

(* Every message that wants an answer gets one, once, in the order sent and  *)
(* in its own framing, however requests are batched up; a message that       *)
(* cannot be read is answered too and nothing after it is lost               *)
(* (McpProtocol.cpp: "a single garbled request must not take the server      *)
(* down"; docs/mcp-usage.md on framing).                                     *)
AnsweredInTurn ==
  /\ []IsPrefix(answered, owed)
  /\ <>[](answered = owed)
=============================================================================
