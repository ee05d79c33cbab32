-------------------------- MODULE McpServerProofs --------------------------
(***************************************************************************)
(* Two promises of the query server, for sessions of any length: the cache *)
(* cannot be told from computing every answer anew, and responses answer   *)
(* the requests in turn.                                                   *)
(***************************************************************************)
EXTENDS McpServer, SequenceTheorems, WellFoundedInduction, TLAPS

(* The stream.                                                               *)

\* A message as it is sent: one of the client's, with a number of its own.
Sent == {m \in Requests : \E n \in Messages \cap Requests :
           \A x \in DOMAIN n \ {"id"} : m[x] = n[x]}

\* What the stream is made of.
Chunks == {Blank, LengthIs} \cup {Object(m) : m \in Sent} \cup {Object(Unreadable), Text}

\* The chunks that are messages, or would be.
HasMsg(c) == c.kind \in {"text", "object"}

\* Where the client's messages can end: a length is followed by a blank line and
\* its body, and nothing else puts a blank line behind another chunk.
WellFramed(s) ==
  /\ s \in Seq(Chunks)
  /\ \A k \in 1 .. Len(s) :
       s[k].kind = "length" => /\ k + 2 <= Len(s)
                               /\ s[k + 1].kind = "blank"
                               /\ HasMsg(s[k + 2])
  /\ \A k \in 2 .. Len(s) : s[k].kind = "blank" => s[k - 1].kind = "length"

\* Text that is no object comes as the body of a length only.
NoBareText(s) ==
  \A k \in 1 .. Len(s) : s[k].kind = "text" => k > 2 /\ s[k - 2].kind = "length"

\* How the message at position n is framed.
FramingAt(s, n) ==
  IF n > 2 /\ s[n - 2].kind = "length" THEN "content-length" ELSE "newline"

-----------------------------------------------------------------------------
(* The cache.                                                                *)

\* Requests for dead code whose arguments say the same.
SameAnalysis(a, b) == a.optimistic = b.optimistic /\ a.entryPoints = b.entryPoints

\* Requests whose lists are the same.
SameList(a, b) ==
  /\ SameAnalysis(a, b)
  /\ a.system = b.system /\ a.name = b.name /\ a.file = b.file
  /\ a.limit = b.limit /\ a.offset = b.offset

\* The arguments of the client's analyze_dead_code calls.
DeadRequests == {m.dead : m \in {n \in Messages \cap Requests : n.tool = "analyze_dead_code"}}

\* The keys tell the client's requests apart.
KeysTellApart ==
  \A a, b \in DeadRequests :
    /\ DeadListKey(a) = DeadListKey(b) => SameList(a, b)
    /\ LivenessKey(a) = LivenessKey(b) => SameAnalysis(a, b)
    /\ DeadListKey(a) # <<"graph_summary">> /\ LivenessKey(a) # <<"search_index">>

\* What the cache holds is what a computation on the indexes would give.
Truthful(c, g) ==
  /\ c = [byKey |-> c.byKey, objects |-> c.objects]
  /\ \A key \in DOMAIN c.byKey :
       \/ key = <<"graph_summary">> /\ c.byKey[key] = Summary(g)
       \/ \E a \in DeadRequests : /\ key = DeadListKey(a)
                                  /\ c.byKey[key] = DeadList(Liveness(g, a), g, a)
  /\ \A key \in DOMAIN c.objects :
       \/ key = <<"search_index">> /\ c.objects[key] = SearchIndex(g)
       \/ \E a \in DeadRequests : key = LivenessKey(a) /\ c.objects[key] = Liveness(g, a)

\* What was answered last, and what the next answer may come from.
CacheInv == CacheIsInvisible /\ Truthful(cache, graph) /\ WellFramed(input) /\ said \in Nat

-----------------------------------------------------------------------------
(* The answers.                                                              *)

\* A message that wants an answer.
Awaits(c) == HasMsg(c) /\ WantsAnswer(c.msg)

\* The answers still owed are those the messages in the stream want, in turn:
\* pos[k] is where the one for the k-th of them stands.
InStream(s, n, o, pos) ==
  /\ pos \in [1 .. Len(o) - n -> 1 .. Len(s)]
  /\ \A k, l \in 1 .. Len(o) - n : k < l => pos[k] < pos[l]
  /\ \A k \in 1 .. Len(o) - n : /\ Awaits(s[pos[k]])
                                /\ o[n + k] = Owes(s[pos[k]].msg, FramingAt(s, pos[k]))
  /\ \A i \in 1 .. Len(s) : Awaits(s[i]) => \E k \in 1 .. Len(o) - n : pos[k] = i

\* Answers given or owed.
Answers == [id : Nat, framing : {"newline", "content-length"}]

\* The answers given are the first of those owed; the others' messages are still
\* in the stream.
TurnInv ==
  /\ WellFramed(input) /\ NoBareText(input) /\ said \in Nat
  /\ answered \in Seq(Answers) /\ owed \in Seq(Answers)
  /\ Len(answered) <= Len(owed)
  /\ \A k \in 1 .. Len(answered) : answered[k] = owed[k]
  /\ \E pos \in [1 .. Len(owed) - Len(answered) -> 1 .. Len(input)] :
       InStream(input, Len(answered), owed, pos)

-----------------------------------------------------------------------------
(* Reading.                                                                  *)

\* A nonempty set of natural numbers has a least element.
LEMMA LeastOf ==
  ASSUME NEW S, S \subseteq Nat, S # {}
  PROVE  \E k \in S : \A l \in S : k <= l
<1> DEFINE R == {ss \in Nat \X Nat : ss[1] < ss[2]}
<1>1. R = OpToRel(<, Nat)
  BY Zenon DEF OpToRel
<1>2. IsWellFoundedOn(R, Nat)
  BY <1>1, NatLessThanWellFounded, Zenon
<1>3. PICK x \in S : \A y \in S : ~(<<y, x>> \in R)
  <2> HIDE DEF R
  <2> QED BY <1>2, WFMin, Zenon
<1>4. ASSUME NEW y \in S
      PROVE  ~(y < x)
  <2> DEFINE z == <<y, x>>
  <2>1. z \in Nat \X Nat /\ z[1] = y /\ z[2] = x
    BY SMT
  <2>2. z \notin R
    BY <1>3, Zenon
  <2> HIDE DEF z
  <2> QED BY <2>1, <2>2, SMT
<1> QED BY <1>4, SMT

\* FirstFrom finds the first chunk of the kinds it is given, or the end.
LEMMA FirstFromFinds ==
  ASSUME NEW s \in Seq(Chunks), NEW i \in Nat \ {0}, NEW kinds, i <= Len(s) + 1,
         NEW n, n = FirstFrom(s, i, kinds)
  PROVE  /\ n \in i .. Len(s) + 1
         /\ n <= Len(s) => s[n].kind \in kinds
         /\ \A k \in i .. n - 1 : s[k].kind \notin kinds
<1> DEFINE at == {k \in i .. Len(s) : s[k].kind \in kinds}
<1>1. CASE at = {}
  <2>1. n = Len(s) + 1
    BY <1>1 DEF FirstFrom
  <2> QED BY <1>1, <2>1
<1>2. CASE at # {}
  <2>1. at \subseteq Nat
    OBVIOUS
  <2>2. PICK m \in at : \A l \in at : m <= l
    BY <1>2, <2>1, LeastOf
  <2>3. n \in at /\ \A l \in at : n <= l
    BY <1>2, <2>2 DEF FirstFrom
  <2>4. \A k \in i .. n - 1 : k \notin at
    BY <2>3
  <2> QED BY <2>3, <2>4
<1> QED BY <1>1, <1>2

\* The kinds of chunks.
LEMMA ChunkKinds ==
  ASSUME NEW c \in Chunks
  PROVE  /\ c.kind \in {"blank", "length", "text", "object"}
         /\ HasMsg(c) => c.msg \in Sent \cup {Unreadable}
         /\ c.kind = "text" => c.msg = Unreadable
BY DEF Chunks, Blank, LengthIs, Object, Text, HasMsg

\* A body is a message of the client; if no bare text comes, it is the first
\* one in the stream, and its framing is the one it was sent in.
LEMMA ReadsMessage ==
  ASSUME NEW s, WellFramed(s), NEW r, r = ReadMessageBody(s), r.outcome = "body"
  PROVE  \E n \in 1 .. Len(s) :
           /\ HasMsg(s[n]) /\ r.body = s[n] /\ r.rest = SubSeq(s, n + 1, Len(s))
           /\ r.framing \in {"newline", "content-length"}
           /\ NoBareText(s) => /\ r.framing = FramingAt(s, n)
                               /\ \A k \in 1 .. n - 1 : ~HasMsg(s[k])
<1>1. s \in Seq(Chunks) /\ Len(s) \in Nat
  BY DEF WellFramed
<1>2. PICK i : i = FirstFrom(s, 1, {"length", "text", "object"})
  OBVIOUS
<1>3. /\ i \in 1 .. Len(s) + 1
      /\ i <= Len(s) => s[i].kind \in {"length", "text", "object"}
      /\ \A k \in 1 .. i - 1 : s[k].kind \notin {"length", "text", "object"}
  BY <1>1, <1>2, FirstFromFinds
<1>4. \A k \in 1 .. Len(s) : s[k] \in Chunks
  BY <1>1
<1>5. \A k \in 1 .. i - 1 : s[k].kind = "blank"
  BY <1>1, <1>3, <1>4, ChunkKinds
<1>6. \A k \in 1 .. i - 1 : ~HasMsg(s[k])
  BY <1>5 DEF HasMsg
<1>7. PICK j : j = FirstFrom(s, i, {"blank"})
  OBVIOUS
<1>8. /\ j \in i .. Len(s) + 1
      /\ j <= Len(s) => s[j].kind = "blank"
      /\ \A k \in i .. j - 1 : s[k].kind # "blank"
  BY <1>1, <1>3, <1>7, FirstFromFinds
<1>9. CASE i <= Len(s) /\ s[i].kind = "object"
  <2>1. r = [outcome |-> "body", body |-> s[i], framing |-> "newline", rest |-> SubSeq(s, i + 1, Len(s))]
    BY <1>1, <1>2, <1>3, <1>9 DEF ReadMessageBody
  <2>2. FramingAt(s, i) = "newline"
    BY <1>3, <1>5, <1>9 DEF FramingAt
  <2> QED BY <1>3, <1>6, <1>9, <2>1, <2>2 DEF HasMsg
<1>10. CASE ~(i <= Len(s) /\ s[i].kind = "object")
  <2>1. i <= Len(s) /\ j < Len(s) /\ \E k \in i .. j - 1 : s[k].kind = "length"
    BY <1>1, <1>2, <1>3, <1>7, <1>8, <1>10 DEF ReadMessageBody, Wait
  <2>2. r = [outcome |-> "body", body |-> s[j + 1], framing |-> "content-length",
             rest |-> SubSeq(s, j + 1 + 1, Len(s))]
    BY <1>1, <1>2, <1>3, <1>7, <1>8, <1>10, <2>1 DEF ReadMessageBody, Wait
  <2>3. j > 1 /\ s[j].kind = "blank" /\ j \in 2 .. Len(s)
    BY <1>1, <1>3, <1>8, <2>1
  <2>4. s[j - 1].kind = "length"
    BY <2>3 DEF WellFramed
  <2>5. HasMsg(s[j + 1])
    <3>1. j - 1 \in 1 .. Len(s) /\ (j - 1) + 2 = j + 1
      BY <1>1, <2>3
    <3> QED BY <2>4, <3>1 DEF WellFramed
  <2>6. ASSUME NoBareText(s)
        PROVE  /\ FramingAt(s, j + 1) = "content-length"
               /\ \A k \in 1 .. j : ~HasMsg(s[k])
    <3>1. FramingAt(s, j + 1) = "content-length"
      BY <1>1, <2>3, <2>4 DEF FramingAt
    <3>2. s[i].kind = "length"
      <4>1. s[i].kind # "text"
        <5> SUFFICES ASSUME s[i].kind = "text" PROVE FALSE
          OBVIOUS
        <5>1. i > 2 /\ s[i - 2].kind = "length"
          BY <1>3, <2>1, <2>6 DEF NoBareText
        <5> QED BY <1>1, <1>3, <1>5, <5>1
      <4> QED BY <1>3, <1>10, <2>1, <4>1
    <3>3. s[i + 1].kind = "blank"
      BY <1>3, <2>1, <3>2 DEF WellFramed
    <3>4. j = i + 1
      BY <1>1, <1>3, <1>8, <2>1, <3>2, <3>3
    <3>5. ~HasMsg(s[i]) /\ ~HasMsg(s[i + 1])
      BY <3>2, <3>3 DEF HasMsg
    <3> QED BY <1>1, <1>3, <1>6, <3>1, <3>4, <3>5
  <2>7. j + 1 \in 1 .. Len(s)
    BY <1>1, <2>1, <2>3
  <2> QED BY <1>8, <2>2, <2>5, <2>6, <2>7
<1> QED BY <1>9, <1>10

\* u is what s holds behind its position n.
Behind(s, n, u) ==
  /\ Len(u) = Len(s) - n
  /\ \A k \in 1 .. Len(u) : u[k] = s[n + k] /\ FramingAt(u, k) = FramingAt(s, n + k)

\* What is left behind a message is well framed, and frames what it holds as before.
LEMMA RestFramed ==
  ASSUME NEW s, WellFramed(s), NEW n \in 1 .. Len(s), HasMsg(s[n]),
         NEW u, u = SubSeq(s, n + 1, Len(s))
  PROVE  WellFramed(u) /\ Behind(s, n, u) /\ (NoBareText(s) => NoBareText(u))
<1>1. s \in Seq(Chunks) /\ Len(s) \in Nat
  BY DEF WellFramed
<1>2. /\ u \in Seq(Chunks) /\ Len(u) = Len(s) - n
      /\ \A k \in 1 .. Len(s) - n : u[k] = s[n + k]
  BY <1>1
<1>3. s[n].kind # "length" /\ s[n].kind # "blank"
  BY DEF HasMsg
<1>4. n >= 2 /\ s[n - 1].kind = "length" => s[n].kind = "blank"
  <2> SUFFICES ASSUME n >= 2, s[n - 1].kind = "length" PROVE s[n].kind = "blank"
    OBVIOUS
  <2>1. n - 1 \in 1 .. Len(s) /\ (n - 1) + 1 = n
    BY <1>1
  <2> QED BY <2>1 DEF WellFramed
<1>5. \A k \in 1 .. Len(u) : FramingAt(u, k) = FramingAt(s, n + k)
  <2> SUFFICES ASSUME NEW k \in 1 .. Len(u) PROVE FramingAt(u, k) = FramingAt(s, n + k)
    OBVIOUS
  <2>1. CASE k > 2
    BY <1>1, <1>2, <2>1 DEF FramingAt
  <2>2. CASE k = 2
    BY <1>1, <1>2, <1>3, <2>2 DEF FramingAt
  <2>3. CASE k = 1
    <3>1. n + k > 2 => s[n + k - 2].kind # "length"
      BY <1>1, <1>3, <1>4, <2>3
    <3> QED BY <1>1, <2>3, <3>1 DEF FramingAt
  <2> QED BY <1>1, <1>2, <2>1, <2>2, <2>3
<1>6. ASSUME NEW k \in 1 .. Len(u), u[k].kind = "length"
      PROVE  k + 2 <= Len(u) /\ u[k + 1].kind = "blank" /\ HasMsg(u[k + 2])
  <2>1. n + k \in 1 .. Len(s) /\ s[n + k].kind = "length"
    BY <1>1, <1>2, <1>6
  <2>2. n + k + 2 <= Len(s) /\ s[n + k + 1].kind = "blank" /\ HasMsg(s[n + k + 2])
    BY <2>1 DEF WellFramed
  <2>3. u[k + 1] = s[n + (k + 1)] /\ u[k + 2] = s[n + (k + 2)] /\ k + 2 <= Len(u)
    BY <1>1, <1>2, <2>2
  <2>4. n + (k + 1) = n + k + 1 /\ n + (k + 2) = n + k + 2
    BY <1>1, <1>2
  <2> QED BY <2>2, <2>3, <2>4
<1>7. ASSUME NEW k \in 2 .. Len(u), u[k].kind = "blank"
      PROVE  u[k - 1].kind = "length"
  <2>1. n + k \in 2 .. Len(s) /\ s[n + k].kind = "blank"
    BY <1>1, <1>2, <1>7
  <2>2. s[n + k - 1].kind = "length"
    BY <2>1 DEF WellFramed
  <2>3. u[k - 1] = s[n + (k - 1)] /\ n + (k - 1) = n + k - 1
    BY <1>1, <1>2
  <2> QED BY <2>2, <2>3
<1>8. ASSUME NoBareText(s), NEW k \in 1 .. Len(u), u[k].kind = "text"
      PROVE  k > 2 /\ u[k - 2].kind = "length"
  <2>0. PICK m : m = n + k
    OBVIOUS
  <2>01. m \in 1 .. Len(s) /\ u[k] = s[m]
    BY <1>1, <1>2, <2>0
  <2>02. m > 2 /\ s[m - 2].kind = "length"
    BY <1>8, <2>01 DEF NoBareText
  <2>1. n + k > 2 /\ s[n + k - 2].kind = "length"
    BY <2>0, <2>02
  <2>2. k # 1 /\ k # 2
    BY <1>1, <1>2, <1>3, <1>4, <2>1
  <2>3. PICK l : l = k - 2
    OBVIOUS
  <2>4. l \in 1 .. Len(s) - n /\ n + k - 2 = n + l
    BY <1>1, <1>2, <2>2, <2>3
  <2>5. u[l] = s[n + l]
    BY <1>2, <2>4
  <2>6. u[k - 2].kind = "length"
    BY <2>1, <2>3, <2>4, <2>5
  <2> QED BY <1>1, <1>2, <2>2, <2>6
<1>9. WellFramed(u)
  BY <1>2, <1>6, <1>7 DEF WellFramed
<1>10. NoBareText(s) => NoBareText(u)
  BY <1>8 DEF NoBareText
<1> QED BY <1>2, <1>5, <1>9, <1>10 DEF Behind

\* What a client sends in one piece: a line, or a length and its body.
Piece(c, f) == IF f = "newline" THEN <<c>> ELSE <<LengthIs, Blank, c>>

\* u is s with c at its end, framed as f says, and at most a length before it.
Extends(u, s, c, f) ==
  \E n \in {Len(s) + 1, Len(s) + 3} :
    /\ Len(u) = n /\ u[n] = c
    /\ \A k \in 1 .. Len(s) : u[k] = s[k] /\ FramingAt(u, k) = FramingAt(s, k)
    /\ \A k \in Len(s) + 1 .. n - 1 : ~HasMsg(u[k])
    /\ FramingAt(u, n) = IF f = "newline" THEN "newline" ELSE "content-length"

\* A message sent behind others is framed as it was sent, and so are they.
LEMMA PieceFramed ==
  ASSUME NEW s, WellFramed(s), NEW c \in Chunks, HasMsg(c), NEW f,
         NEW u, u = s \o Piece(c, f)
  PROVE  /\ WellFramed(u) /\ Extends(u, s, c, f)
         /\ NoBareText(s) /\ (c.kind = "text" => f # "newline") => NoBareText(u)
<1>1. s \in Seq(Chunks) /\ Len(s) \in Nat
  BY DEF WellFramed
<1>2. LengthIs \in Chunks /\ Blank \in Chunks /\ LengthIs.kind = "length" /\ Blank.kind = "blank"
  BY DEF Chunks, LengthIs, Blank
<1>3. c.kind \in {"text", "object"}
  BY DEF HasMsg
<1>4. \A k \in 1 .. Len(s) : s[k].kind = "length" => k + 2 <= Len(s)
  BY DEF WellFramed
<1>5. CASE f = "newline"
  <2>1. /\ u \in Seq(Chunks) /\ Len(u) = Len(s) + 1 /\ u[Len(s) + 1] = c
        /\ \A k \in 1 .. Len(s) : u[k] = s[k]
    BY <1>1, <1>5 DEF Piece
  <2>2. \A k \in 1 .. Len(s) : FramingAt(u, k) = FramingAt(s, k)
    BY <1>1, <2>1 DEF FramingAt
  <2>3. FramingAt(u, Len(s) + 1) = "newline"
    BY <1>1, <1>4, <2>1 DEF FramingAt
  <2>4. WellFramed(u)
    <3>1. ASSUME NEW k \in 1 .. Len(u), u[k].kind = "length"
          PROVE  k + 2 <= Len(u) /\ u[k + 1].kind = "blank" /\ HasMsg(u[k + 2])
      <4>1. k \in 1 .. Len(s) /\ s[k].kind = "length"
        BY <1>1, <1>3, <2>1, <3>1
      <4>2. k + 2 <= Len(s) /\ s[k + 1].kind = "blank" /\ HasMsg(s[k + 2])
        BY <4>1 DEF WellFramed
      <4> QED BY <1>1, <2>1, <4>1, <4>2
    <3>2. ASSUME NEW k \in 2 .. Len(u), u[k].kind = "blank"
          PROVE  u[k - 1].kind = "length"
      <4>1. k \in 2 .. Len(s) /\ s[k].kind = "blank"
        BY <1>1, <1>3, <2>1, <3>2
      <4>2. s[k - 1].kind = "length"
        BY <4>1 DEF WellFramed
      <4> QED BY <1>1, <2>1, <4>1, <4>2
    <3> QED BY <2>1, <3>1, <3>2 DEF WellFramed
  <2>5. NoBareText(s) /\ c.kind # "text" => NoBareText(u)
    BY <1>1, <2>1 DEF NoBareText
  <2>6. Extends(u, s, c, f)
    BY <1>1, <1>5, <2>1, <2>2, <2>3 DEF Extends
  <2> QED BY <1>5, <2>4, <2>5, <2>6
<1>6. CASE f # "newline"
  <2>1. /\ u \in Seq(Chunks) /\ Len(u) = Len(s) + 3
        /\ u[Len(s) + 1] = LengthIs /\ u[Len(s) + 2] = Blank /\ u[Len(s) + 3] = c
        /\ \A k \in 1 .. Len(s) : u[k] = s[k]
    BY <1>1, <1>2, <1>6 DEF Piece
  <2>2. \A k \in 1 .. Len(s) : FramingAt(u, k) = FramingAt(s, k)
    BY <1>1, <2>1 DEF FramingAt
  <2>3. FramingAt(u, Len(s) + 3) = "content-length"
    BY <1>1, <1>2, <2>1 DEF FramingAt
  <2>4. WellFramed(u)
    <3>1. ASSUME NEW k \in 1 .. Len(u), u[k].kind = "length"
          PROVE  k + 2 <= Len(u) /\ u[k + 1].kind = "blank" /\ HasMsg(u[k + 2])
      <4>1. CASE k \in 1 .. Len(s)
        <5>1. k + 2 <= Len(s) /\ s[k + 1].kind = "blank" /\ HasMsg(s[k + 2])
          BY <2>1, <3>1, <4>1 DEF WellFramed
        <5> QED BY <1>1, <2>1, <4>1, <5>1
      <4>2. CASE k = Len(s) + 1
        BY <1>1, <1>2, <2>1, <4>2
      <4> QED BY <1>1, <1>2, <1>3, <2>1, <3>1, <4>1, <4>2
    <3>2. ASSUME NEW k \in 2 .. Len(u), u[k].kind = "blank"
          PROVE  u[k - 1].kind = "length"
      <4>1. CASE k \in 2 .. Len(s)
        <5>1. s[k - 1].kind = "length"
          BY <2>1, <3>2, <4>1 DEF WellFramed
        <5> QED BY <1>1, <2>1, <4>1, <5>1
      <4>2. CASE k = Len(s) + 2
        BY <1>1, <1>2, <2>1, <4>2
      <4> QED BY <1>1, <1>2, <1>3, <2>1, <3>2, <4>1, <4>2
    <3> QED BY <2>1, <3>1, <3>2 DEF WellFramed
  <2>5. NoBareText(s) => NoBareText(u)
    BY <1>1, <1>2, <2>1 DEF NoBareText
  <2>7. PICK n : n = Len(s) + 3
    OBVIOUS
  <2>8. \A k \in Len(s) + 1 .. n - 1 : ~HasMsg(u[k])
    <3>1. \A k \in Len(s) + 1 .. n - 1 : k = Len(s) + 1 \/ k = Len(s) + 2
      BY <1>1, <2>7
    <3> QED BY <1>2, <2>1, <3>1 DEF HasMsg
  <2>9. Len(u) = n /\ u[n] = c /\ FramingAt(u, n) = "content-length"
    BY <2>1, <2>3, <2>7
  <2>10. Extends(u, s, c, f)
    BY <1>6, <2>1, <2>2, <2>7, <2>8, <2>9 DEF Extends
  <2> QED BY <2>4, <2>5, <2>10
<1> QED BY <1>5, <1>6

\* A message of the client goes into the stream as a chunk.
LEMMA NumberSent ==
  ASSUME NEW m \in Messages, said \in Nat
  PROVE  Object(Number(m)) \in Chunks /\ Number(m) \in Sent \cup {Unreadable}
<1>1. CASE m = Unreadable
  BY <1>1 DEF Number, Chunks
<1>2. CASE m # Unreadable
  <2>1. m \in Requests
    BY <1>2, MessagesAssumption
  <2>2. Number(m) \in Requests /\ \A x \in DOMAIN m \ {"id"} : Number(m)[x] = m[x]
    BY <2>1 DEF Requests, Number
  <2> QED BY <2>1, <2>2 DEF Sent, Chunks
<1> QED BY <1>1, <1>2

-----------------------------------------------------------------------------
(* Answering from the cache.                                                 *)

\* Whatever number a request for dead code has, its arguments are the client's.
LEMMA DeadIsRequested ==
  ASSUME NEW m \in Sent, m.tool = "analyze_dead_code"
  PROVE  m.dead \in DeadRequests
<1>1. PICK n \in Messages \cap Requests : \A x \in DOMAIN n \ {"id"} : m[x] = n[x]
  BY DEF Sent
<1>2. m.tool = n.tool /\ m.dead = n.dead
  BY <1>1 DEF Requests
<1> QED BY <1>2 DEF DeadRequests

\* Analyses of the same arguments give the same.
LEMMA SameAnswers ==
  ASSUME NEW a, NEW b, NEW g
  PROVE  /\ SameAnalysis(a, b) => Liveness(g, a) = Liveness(g, b)
         /\ SameList(a, b) => DeadList(Liveness(g, a), g, a) = DeadList(Liveness(g, b), g, b)
BY DEF SameAnalysis, SameList, Liveness, DeadList

\* An entry that is right, under a key of its own, leaves the cache right.
LEMMA KeepTruthful ==
  ASSUME NEW c, NEW g, Truthful(c, g), NEW key, NEW v, NEW k, NEW w,
         \/ key = <<"graph_summary">> /\ v = Summary(g)
         \/ \E a \in DeadRequests : key = DeadListKey(a) /\ v = DeadList(Liveness(g, a), g, a),
         \/ k = <<"search_index">> /\ w = SearchIndex(g)
         \/ \E a \in DeadRequests : k = LivenessKey(a) /\ w = Liveness(g, a)
  PROVE  /\ Truthful([c EXCEPT !.byKey = Keep(@, key, v)], g)
         /\ Truthful([c EXCEPT !.objects = Keep(@, k, w)], g)
         /\ Truthful([byKey |-> Keep(c.byKey, key, v), objects |-> Keep(c.objects, k, w)], g)
<1> DEFINE B == Keep(c.byKey, key, v)
           O == Keep(c.objects, k, w)
<1>1. \A x \in DOMAIN B : IF x = key THEN B[x] = v ELSE x \in DOMAIN c.byKey /\ B[x] = c.byKey[x]
  BY DEF Keep
<1>2. \A x \in DOMAIN O : IF x = k THEN O[x] = w ELSE x \in DOMAIN c.objects /\ O[x] = c.objects[x]
  BY DEF Keep
<1>3. /\ [c EXCEPT !.byKey = B] = [byKey |-> B, objects |-> c.objects]
      /\ [c EXCEPT !.objects = O] = [byKey |-> c.byKey, objects |-> O]
  BY DEF Truthful
<1> HIDE DEF B, O
<1>4. ASSUME NEW x \in DOMAIN B
      PROVE  \/ x = <<"graph_summary">> /\ B[x] = Summary(g)
             \/ \E a \in DeadRequests : /\ x = DeadListKey(a)
                                        /\ B[x] = DeadList(Liveness(g, a), g, a)
  <2>1. CASE x = key
    BY <1>1, <2>1
  <2>2. CASE x # key
    <3>1. x \in DOMAIN c.byKey /\ B[x] = c.byKey[x]
      BY <1>1, <2>2
    <3> QED BY <3>1 DEF Truthful
  <2> QED BY <2>1, <2>2
<1>5. ASSUME NEW x \in DOMAIN O
      PROVE  \/ x = <<"search_index">> /\ O[x] = SearchIndex(g)
             \/ \E a \in DeadRequests : x = LivenessKey(a) /\ O[x] = Liveness(g, a)
  <2>1. CASE x = k
    BY <1>2, <2>1
  <2>2. CASE x # k
    <3>1. x \in DOMAIN c.objects /\ O[x] = c.objects[x]
      BY <1>2, <2>2
    <3> QED BY <3>1 DEF Truthful
  <2> QED BY <2>1, <2>2
<1>6. Truthful([byKey |-> B, objects |-> c.objects], g)
  BY <1>4 DEF Truthful
<1>7. Truthful([byKey |-> c.byKey, objects |-> O], g)
  BY <1>5 DEF Truthful
<1>8. Truthful([byKey |-> B, objects |-> O], g)
  BY <1>4, <1>5 DEF Truthful
<1> QED BY <1>3, <1>6, <1>7, <1>8 DEF B, O

\* A tool answers as if there were no cache, and leaves a cache that is right.
LEMMA HandleTruthful ==
  ASSUME KeysTellApart, NEW c, NEW g, Truthful(c, g), NEW m \in Sent
  PROVE  Handle(m, g, c).value = Compute(m, g) /\ Truthful(Handle(m, g, c).cache, g)
<1>1. CASE m.tool = "graph_summary"
  <2> DEFINE v == Recall(c.byKey, <<"graph_summary">>, Summary(g))
  <2>1. v = Summary(g)
    <3>1. CASE <<"graph_summary">> \in DOMAIN c.byKey
      BY <3>1 DEF Truthful, KeysTellApart, Recall
    <3>2. CASE <<"graph_summary">> \notin DOMAIN c.byKey
      BY <3>2 DEF Recall
    <3> QED BY <3>1, <3>2
  <2>2. Handle(m, g, c) = [value |-> v, cache |-> [c EXCEPT !.byKey = Keep(@, <<"graph_summary">>, v)]]
    BY <1>1 DEF Handle
  <2>3. Compute(m, g) = Summary(g)
    BY <1>1 DEF Compute
  <2> HIDE DEF v
  <2>4. Truthful([c EXCEPT !.byKey = Keep(@, <<"graph_summary">>, v)], g)
    BY <2>1, KeepTruthful
  <2> QED BY <2>1, <2>2, <2>3, <2>4
<1>2. CASE m.tool = "search_functions"
  <2> DEFINE v == Recall(c.objects, <<"search_index">>, SearchIndex(g))
  <2>1. v = SearchIndex(g)
    <3>1. CASE <<"search_index">> \in DOMAIN c.objects
      BY <3>1 DEF Truthful, KeysTellApart, Recall
    <3>2. CASE <<"search_index">> \notin DOMAIN c.objects
      BY <3>2 DEF Recall
    <3> QED BY <3>1, <3>2
  <2>2. Handle(m, g, c) = [value |-> [query |-> m.query, index |-> v],
                           cache |-> [c EXCEPT !.objects = Keep(@, <<"search_index">>, v)]]
    BY <1>2 DEF Handle
  <2>3. Compute(m, g) = [query |-> m.query, index |-> SearchIndex(g)]
    BY <1>2 DEF Compute
  <2> HIDE DEF v
  <2>4. Truthful([c EXCEPT !.objects = Keep(@, <<"search_index">>, v)], g)
    BY <2>1, KeepTruthful
  <2> QED BY <2>1, <2>2, <2>3, <2>4
<1>3. CASE m.tool = "analyze_dead_code"
  <2>1. PICK a \in DeadRequests : a = m.dead
    BY <1>3, DeadIsRequested
  <2>2. Compute(m, g) = DeadList(Liveness(g, a), g, a)
    BY <1>3, <2>1 DEF Compute
  <2>3. CASE DeadListKey(a) \in DOMAIN c.byKey
    <3>1. Handle(m, g, c) = [value |-> c.byKey[DeadListKey(a)], cache |-> c]
      BY <1>3, <2>1, <2>3 DEF Handle
    <3>2. PICK b \in DeadRequests : /\ DeadListKey(a) = DeadListKey(b)
                                    /\ c.byKey[DeadListKey(a)] = DeadList(Liveness(g, b), g, b)
      BY <2>3 DEF Truthful, KeysTellApart
    <3>3. DeadList(Liveness(g, b), g, b) = DeadList(Liveness(g, a), g, a)
      BY <3>2, SameAnswers DEF KeysTellApart
    <3> QED BY <2>2, <3>1, <3>2, <3>3
  <2>4. CASE DeadListKey(a) \notin DOMAIN c.byKey
    <3> DEFINE l == Recall(c.objects, LivenessKey(a), Liveness(g, a))
               v == DeadList(l, g, a)
    <3>1. l = Liveness(g, a)
      <4>1. CASE LivenessKey(a) \in DOMAIN c.objects
        <5>1. PICK b \in DeadRequests : /\ LivenessKey(a) = LivenessKey(b)
                                        /\ c.objects[LivenessKey(a)] = Liveness(g, b)
          BY <4>1 DEF Truthful, KeysTellApart
        <5>2. Liveness(g, b) = Liveness(g, a)
          BY <5>1, SameAnswers DEF KeysTellApart
        <5> QED BY <4>1, <5>1, <5>2 DEF Recall
      <4>2. CASE LivenessKey(a) \notin DOMAIN c.objects
        BY <4>2 DEF Recall
      <4> QED BY <4>1, <4>2
    <3>2. Handle(m, g, c) = [value |-> v,
                             cache |-> [byKey   |-> Keep(c.byKey, DeadListKey(a), v),
                                        objects |-> Keep(c.objects, LivenessKey(a), l)]]
      BY <1>3, <2>1, <2>4 DEF Handle
    <3>3. v = DeadList(Liveness(g, a), g, a)
      BY <3>1
    <3> HIDE DEF l, v
    <3>4. Truthful([byKey |-> Keep(c.byKey, DeadListKey(a), v),
                    objects |-> Keep(c.objects, LivenessKey(a), l)], g)
      BY <3>1, <3>3, KeepTruthful
    <3> QED BY <2>2, <3>2, <3>3, <3>4
  <2> QED BY <2>3, <2>4
<1>4. CASE m.tool \notin {"graph_summary", "search_functions", "analyze_dead_code"}
  BY <1>4 DEF Handle
<1> QED BY <1>1, <1>2, <1>3, <1>4

\* What the server reads is a message of the client, and the rest is well framed.
LEMMA ServesMessage ==
  ASSUME WellFramed(input), NEW r, r = ReadMessageBody(input), r.outcome = "body"
  PROVE  Msg(r) \in Sent \cup {Unreadable} /\ WellFramed(r.rest)
<1>1. PICK n \in 1 .. Len(input) :
        HasMsg(input[n]) /\ r.body = input[n] /\ r.rest = SubSeq(input, n + 1, Len(input))
  BY ReadsMessage
<1>2. input[n] \in Chunks
  BY DEF WellFramed
<1> QED BY <1>1, <1>2, ChunkKinds, RestFramed DEF Msg

\* The client extends the stream by a message of its own.
LEMMA ClientWellFramed ==
  ASSUME WellFramed(input), said \in Nat
  PROVE  /\ \A m \in Messages : \A f : Send(m, f) => WellFramed(input') /\ said' \in Nat
         /\ \A f : SendText(f) => WellFramed(input') /\ said' \in Nat
         /\ SendBlank => WellFramed(input')
<1>1. ASSUME NEW m \in Messages, NEW f, Send(m, f)
      PROVE  WellFramed(input') /\ said' \in Nat
  <2>1. input' = input \o Piece(Object(Number(m)), f)
    BY <1>1 DEF Send, Piece
  <2>2. Object(Number(m)) \in Chunks /\ HasMsg(Object(Number(m)))
    BY NumberSent DEF HasMsg, Object
  <2>3. said' \in Nat
    BY <1>1 DEF Send, Say
  <2>4. PICK c : c = Object(Number(m))
    OBVIOUS
  <2>5. WellFramed(input')
    BY <2>1, <2>2, <2>4, PieceFramed
  <2> QED BY <2>3, <2>5
<1>2. ASSUME NEW f, SendText(f)
      PROVE  WellFramed(input') /\ said' \in Nat
  <2>1. input' = input \o Piece(Text, f)
    BY <1>2 DEF SendText, Piece
  <2>2. Text \in Chunks /\ HasMsg(Text)
    BY DEF HasMsg, Text, Chunks
  <2>3. said' \in Nat
    BY <1>2 DEF SendText, Say
  <2>4. WellFramed(input')
    BY <2>1, <2>2, PieceFramed
  <2> QED BY <2>3, <2>4
<1>3. ASSUME SendBlank
      PROVE  WellFramed(input')
  <2>1. input' = <<Blank>>
    BY <1>3 DEF SendBlank
  <2>2. Blank \in Chunks /\ Blank.kind = "blank"
    BY DEF Blank, Chunks
  <2> QED BY <2>1, <2>2 DEF WellFramed
<1> QED BY <1>1, <1>2, <1>3

\* Every step keeps the cache right, and answers from it as it should.
LEMMA CacheStep ==
  ASSUME KeysTellApart, CacheInv, [Next]_vars
  PROVE  CacheInv'
<1> USE DEF CacheInv
<1>1. ASSUME RefuseBody \/ Notification \/ Dispatch \/ RefuseCall
      PROVE  CacheInv'
  <2>1. PICK r : r = ReadMessageBody(input)
    OBVIOUS
  <2>2. r.outcome = "body" /\ input' = r.rest /\ UNCHANGED <<graph, cache, said>>
    BY <1>1, <2>1 DEF RefuseBody, Notification, Dispatch, RefuseCall, Read
  <2>3. reply' = reply \/ \E kind \in {"error", "result", "tool error"} : reply' = [kind |-> kind]
    BY <1>1, <2>1 DEF RefuseBody, Notification, Dispatch, RefuseCall, Write, Silent
  <2>4. CacheIsInvisible'
    <3>1. CASE reply' = reply
      BY <3>1 DEF CacheIsInvisible
    <3>2. CASE reply'.kind \in {"error", "result", "tool error"}
      BY <3>2 DEF CacheIsInvisible
    <3>3. ASSUME NEW k \in {"error", "result", "tool error"}, reply' = [kind |-> k]
          PROVE  CacheIsInvisible'
      <4>1. reply'.kind = k
        BY <3>3
      <4> QED BY <3>2, <4>1
    <3> QED BY <2>3, <3>1, <3>3
  <2>5. WellFramed(input')
    BY <2>1, <2>2, ServesMessage
  <2> QED BY <2>2, <2>4, <2>5
<1>2. ASSUME CallTool
      PROVE  CacheInv'
  <2>1. PICK r : r = ReadMessageBody(input)
    OBVIOUS
  <2>2. PICK m : m = Msg(r)
    OBVIOUS
  <2>3. PICK h : h = Handle(m, graph, cache)
    OBVIOUS
  <2>4. /\ r.outcome = "body" /\ input' = r.rest /\ m # Unreadable
        /\ cache' = h.cache /\ UNCHANGED <<graph, said>>
        /\ reply' = [kind |-> "tool result", msg |-> m, value |-> h.value, met |-> graph]
    BY <1>2, <2>1, <2>2, <2>3 DEF CallTool, Read, Written, IsCall, IsRequest
  <2>5. m \in Sent /\ WellFramed(input')
    BY <2>1, <2>2, <2>4, ServesMessage
  <2>6. h.value = Compute(m, graph) /\ Truthful(h.cache, graph)
    BY <2>3, <2>5, HandleTruthful
  <2>7. CacheIsInvisible'
    BY <2>4, <2>6 DEF CacheIsInvisible
  <2> QED BY <2>4, <2>5, <2>6, <2>7
<1>3. ASSUME ReindexTU
      PROVE  CacheInv'
  <2>1. PICK r : r = ReadMessageBody(input)
    OBVIOUS
  <2>2. /\ r.outcome = "body" /\ input' = r.rest
        /\ cache' = EmptyCache /\ UNCHANGED said
        /\ reply'.kind = "reindexed"
    BY <1>3, <2>1 DEF ReindexTU, Read, Written, Clear
  <2>3. Truthful(cache', graph')
    BY <2>2 DEF Truthful, EmptyCache
  <2>4. CacheIsInvisible'
    BY <2>2 DEF CacheIsInvisible
  <2>5. WellFramed(input')
    BY <2>1, <2>2, ServesMessage
  <2> QED BY <2>2, <2>3, <2>4, <2>5
<1>4. ASSUME \/ \E m \in Messages : \E f \in Framings(m) : Send(m, f)
             \/ \E f \in Framings(Unreadable) : SendText(f)
             \/ SendBlank
      PROVE  CacheInv'
  <2>1. WellFramed(input') /\ said' \in Nat
    BY <1>4, ClientWellFramed DEF SendBlank
  <2>2. UNCHANGED <<reply, cache, graph>>
    BY <1>4 DEF Send, SendText, SendBlank, Say
  <2> QED BY <2>1, <2>2 DEF CacheIsInvisible
<1>5. ASSUME Shutdown \/ Close \/ (\E t \in TUs : Edit(t)) \/ UNCHANGED vars
      PROVE  CacheInv'
  <2>1. UNCHANGED <<reply, cache, graph, input, said>>
    BY <1>5 DEF Shutdown, Close, Edit, vars
  <2> QED BY <2>1 DEF CacheIsInvisible
<1> QED BY <1>1, <1>2, <1>3, <1>4, <1>5 DEF Next

\* A client whose requests have keys of their own cannot tell the cache from
\* computing every answer anew, whatever it asks and re-parses, in whatever
\* framing, and however the source files are edited.
THEOREM CacheCorrect ==
  ASSUME KeysTellApart
  PROVE  Spec => []CacheIsInvisible
<1>1. Init => CacheInv
  BY DEF Init, CacheInv, CacheIsInvisible, NoReply, Truthful, EmptyCache, WellFramed
<1>2. CacheInv /\ [Next]_vars => CacheInv'
  BY CacheStep
<1>3. CacheInv => CacheIsInvisible
  BY DEF CacheInv
<1> QED BY <1>1, <1>2, <1>3, PTL DEF Spec

-----------------------------------------------------------------------------
(* When keys tell requests apart.                                            *)

\* No '|' in a name or a file, and entry points told apart by their join.
PlainRequests ==
  /\ \A a \in DeadRequests : /\ Len(a.name) = 1 /\ Len(a.file) = 1
                             /\ FlattenSeq(a.entryPoints) \in Seq(STRING)
  /\ \A a, b \in DeadRequests :
       FlattenSeq(a.entryPoints) = FlattenSeq(b.entryPoints) => a.entryPoints = b.entryPoints

\* Parts of keys.
Parts == STRING \cup {"dead_code", "dead_code_json", "0", "1"}

\* The parts of the keys of a request.
H(a) == <<"dead_code_json", Flag(a.optimistic), Flag(a.system)>>
L(a) == <<"dead_code", Flag(a.optimistic)>>
T(a) == <<a.limit, a.offset>>
F(a) == FlattenSeq(a.entryPoints)
H1(a) == H(a) \o a.name
H2(a) == H1(a) \o a.file
H3(a) == H2(a) \o T(a)

\* What two joins of equal length begin with is told from what they end in.
LEMMA SplitJoin ==
  ASSUME NEW x \in Seq(Parts), NEW y \in Seq(Parts), NEW s \in Seq(Parts), NEW t \in Seq(Parts),
         Len(x) = Len(y), x \o s = y \o t
  PROVE  x = y /\ s = t
<1>1. \A i \in 1 .. Len(x) : x[i] = (x \o s)[i] /\ y[i] = (y \o t)[i]
  OBVIOUS
<1>2. x = y
  BY <1>1, SeqEqual
<1>3. Len(s) = Len(t)
  OBVIOUS
<1>4. ASSUME NEW i \in 1 .. Len(s)
      PROVE  s[i] = t[i]
  <2>1. s[i] = (x \o s)[Len(x) + i] /\ t[i] = (y \o t)[Len(y) + i]
    BY <1>3
  <2> QED BY <2>1
<1> QED BY <1>2, <1>3, <1>4, SeqEqual

\* The length of a join.
LEMMA JoinLength ==
  ASSUME NEW x \in Seq(Parts), NEW y \in Seq(Parts)
  PROVE  x \o y \in Seq(Parts) /\ Len(x \o y) = Len(x) + Len(y)
OBVIOUS

\* Requests whose names and files hold no '|' have keys of their own: the keys
\* of analyze_dead_code leave no argument out (DeadCodeTools.cpp:104-126).
THEOREM PlainKeys == PlainRequests => KeysTellApart
<1> SUFFICES ASSUME PlainRequests PROVE KeysTellApart
  OBVIOUS
<1>1. ASSUME NEW a \in DeadRequests
      PROVE  /\ a.optimistic \in BOOLEAN /\ a.system \in BOOLEAN
             /\ F(a) \in Seq(Parts)
             /\ a.name \in Seq(Parts) /\ Len(a.name) = 1
             /\ a.file \in Seq(Parts) /\ Len(a.file) = 1
             /\ a.limit \in Parts /\ a.offset \in Parts
  <2>1. a \in DeadArgs
    BY DEF DeadRequests, Requests
  <2>2. /\ a.optimistic \in BOOLEAN /\ a.system \in BOOLEAN
        /\ a.name \in Seq(STRING) /\ a.file \in Seq(STRING)
        /\ a.limit \in STRING /\ a.offset \in STRING
    BY <2>1 DEF DeadArgs
  <2>3. F(a) \in Seq(STRING) /\ Len(a.name) = 1 /\ Len(a.file) = 1
    BY DEF PlainRequests, F
  <2>4. \A q \in Seq(STRING) : q \in Seq(Parts)
    BY SeqMonotonic DEF Parts
  <2> QED BY <2>2, <2>3, <2>4 DEF Parts
<1>2. \A x, y \in BOOLEAN : Flag(x) \in Parts /\ (Flag(x) = Flag(y) => x = y)
  BY DEF Flag, Parts
<1>3. ASSUME NEW a \in DeadRequests
      PROVE  /\ H(a) \in Seq(Parts) /\ Len(H(a)) = 3
             /\ L(a) \in Seq(Parts) /\ Len(L(a)) = 2
             /\ T(a) \in Seq(Parts) /\ Len(T(a)) = 2
  BY <1>1, <1>2 DEF Parts, H, L, T
<1>4. ASSUME NEW a \in DeadRequests, NEW b \in DeadRequests
      PROVE  /\ H(a) = H(b) => a.optimistic = b.optimistic /\ a.system = b.system
             /\ L(a) = L(b) => a.optimistic = b.optimistic
             /\ T(a) = T(b) => a.limit = b.limit /\ a.offset = b.offset
             /\ F(a) = F(b) => a.entryPoints = b.entryPoints
  <2>1. H(a) = H(b) => Flag(a.optimistic) = Flag(b.optimistic) /\ Flag(a.system) = Flag(b.system)
    BY DEF H
  <2>2. L(a) = L(b) => Flag(a.optimistic) = Flag(b.optimistic)
    BY DEF L
  <2>3. T(a) = T(b) => a.limit = b.limit /\ a.offset = b.offset
    BY DEF T
  <2>4. F(a) = F(b) => a.entryPoints = b.entryPoints
    BY DEF PlainRequests, F
  <2>5. /\ a.optimistic \in BOOLEAN /\ a.system \in BOOLEAN
        /\ b.optimistic \in BOOLEAN /\ b.system \in BOOLEAN
    BY <1>1
  <2> QED BY <1>2, <2>1, <2>2, <2>3, <2>4, <2>5
<1>5. ASSUME NEW a \in DeadRequests
      PROVE  /\ H1(a) \in Seq(Parts) /\ Len(H1(a)) = 4
             /\ H2(a) \in Seq(Parts) /\ Len(H2(a)) = 5
             /\ H3(a) \in Seq(Parts) /\ Len(H3(a)) = 7
  <2>1. H1(a) \in Seq(Parts) /\ Len(H1(a)) = Len(H(a)) + Len(a.name)
    BY <1>1, <1>3, JoinLength, Zenon DEF H1
  <2>2. H2(a) \in Seq(Parts) /\ Len(H2(a)) = Len(H1(a)) + Len(a.file)
    BY <1>1, <2>1, JoinLength, Zenon DEF H2
  <2>3. H3(a) \in Seq(Parts) /\ Len(H3(a)) = Len(H2(a)) + Len(T(a))
    BY <1>3, <2>2, JoinLength, Zenon DEF H3
  <2>4. Len(H(a)) = 3 /\ Len(a.name) = 1 /\ Len(a.file) = 1 /\ Len(T(a)) = 2
    BY <1>1, <1>3
  <2>5. Len(H1(a)) = 4
    BY <2>1, <2>4
  <2>6. Len(H2(a)) = 5
    BY <2>2, <2>4, <2>5
  <2>7. Len(H3(a)) = 7
    BY <2>3, <2>4, <2>6
  <2> QED BY <2>1, <2>2, <2>3, <2>5, <2>6, <2>7
<1>6. \A a : DeadListKey(a) = H3(a) \o F(a) /\ LivenessKey(a) = L(a) \o F(a)
  BY DEF DeadListKey, LivenessKey, H, H1, H2, H3, L, T, F
<1>7. ASSUME NEW a \in DeadRequests, NEW b \in DeadRequests, DeadListKey(a) = DeadListKey(b)
      PROVE  SameList(a, b)
  <2>1. /\ H3(a) \in Seq(Parts) /\ H3(b) \in Seq(Parts) /\ Len(H3(a)) = Len(H3(b))
        /\ F(a) \in Seq(Parts) /\ F(b) \in Seq(Parts)
    BY <1>1, <1>3, <1>5
  <2>2. H3(a) \o F(a) = H3(b) \o F(b)
    BY <1>6, <1>7
  <2>3. H3(a) = H3(b) /\ F(a) = F(b)
    BY <2>1, <2>2, SplitJoin, Zenon
  <2>4. /\ H2(a) \in Seq(Parts) /\ H2(b) \in Seq(Parts) /\ Len(H2(a)) = Len(H2(b))
        /\ T(a) \in Seq(Parts) /\ T(b) \in Seq(Parts)
    BY <1>1, <1>3, <1>5
  <2>5. H2(a) \o T(a) = H2(b) \o T(b)
    BY <2>3 DEF H3
  <2>6. H2(a) = H2(b) /\ T(a) = T(b)
    BY <2>4, <2>5, SplitJoin, Zenon
  <2>7. /\ H1(a) \in Seq(Parts) /\ H1(b) \in Seq(Parts) /\ Len(H1(a)) = Len(H1(b))
        /\ a.file \in Seq(Parts) /\ b.file \in Seq(Parts)
    BY <1>1, <1>3, <1>5
  <2>8. H1(a) \o a.file = H1(b) \o b.file
    BY <2>6 DEF H2
  <2>9. H1(a) = H1(b) /\ a.file = b.file
    BY <2>7, <2>8, SplitJoin, Zenon
  <2>10. /\ H(a) \in Seq(Parts) /\ H(b) \in Seq(Parts) /\ Len(H(a)) = Len(H(b))
        /\ a.name \in Seq(Parts) /\ b.name \in Seq(Parts)
    BY <1>1, <1>3, <1>5
  <2>11. H(a) \o a.name = H(b) \o b.name
    BY <2>9 DEF H1
  <2>12. H(a) = H(b) /\ a.name = b.name
    BY <2>10, <2>11, SplitJoin, Zenon
  <2> QED BY <1>4, <2>3, <2>6, <2>9, <2>12 DEF SameList, SameAnalysis
<1>8. ASSUME NEW a \in DeadRequests, NEW b \in DeadRequests, LivenessKey(a) = LivenessKey(b)
      PROVE  SameAnalysis(a, b)
  <2>1. /\ F(a) \in Seq(Parts) /\ F(b) \in Seq(Parts)
        /\ L(a) \in Seq(Parts) /\ L(b) \in Seq(Parts) /\ Len(L(a)) = Len(L(b))
    BY <1>1, <1>3
  <2>2. L(a) \o F(a) = L(b) \o F(b)
    BY <1>6, <1>8
  <2>3. L(a) = L(b) /\ F(a) = F(b)
    BY <2>1, <2>2, SplitJoin, Zenon
  <2> QED BY <1>4, <2>3 DEF SameAnalysis
<1>9. ASSUME NEW a \in DeadRequests
      PROVE  DeadListKey(a) # <<"graph_summary">> /\ LivenessKey(a) # <<"search_index">>
  <2>1. Len(H3(a) \o F(a)) = Len(H3(a)) + Len(F(a)) /\ Len(L(a) \o F(a)) = Len(L(a)) + Len(F(a))
    <3>1. F(a) \in Seq(Parts) /\ H3(a) \in Seq(Parts) /\ L(a) \in Seq(Parts)
      BY <1>1, <1>3, <1>5
    <3> QED BY <3>1, JoinLength, Zenon
  <2>2. Len(F(a)) \in Nat /\ Len(H3(a)) = 7 /\ Len(L(a)) = 2
    BY <1>1, <1>3, <1>5
  <2>3. Len(<<"graph_summary">>) = 1 /\ Len(<<"search_index">>) = 1
    OBVIOUS
  <2>4. Len(DeadListKey(a)) # 1 /\ Len(LivenessKey(a)) # 1
    BY <1>6, <2>1, <2>2
  <2> QED BY <2>3, <2>4
<1> QED BY <1>7, <1>8, <1>9 DEF KeysTellApart

-----------------------------------------------------------------------------
(* Answers in turn.                                                          *)

\* The first message in the stream is the one the next answer is due to, if it
\* wants one; the answers due to the rest are in the rest.
LEMMA FirstIsNext ==
  ASSUME NEW s, WellFramed(s), NEW o \in Seq(Answers), NEW n \in Nat, n <= Len(o),
         NEW pos, InStream(s, n, o, pos),
         NEW i \in 1 .. Len(s), HasMsg(s[i]), \A k \in 1 .. i - 1 : ~HasMsg(s[k]),
         NEW u, u = SubSeq(s, i + 1, Len(s))
  PROVE  /\ Awaits(s[i]) => /\ n < Len(o) /\ o[n + 1] = Owes(s[i].msg, FramingAt(s, i))
                            /\ \E q : InStream(u, n + 1, o, q)
         /\ ~Awaits(s[i]) => \E q : InStream(u, n, o, q)
<1>1. Len(s) \in Nat /\ Len(o) \in Nat
  BY DEF WellFramed
<1>2. /\ WellFramed(u) /\ Len(u) = Len(s) - i
      /\ \A k \in 1 .. Len(u) : u[k] = s[i + k] /\ FramingAt(u, k) = FramingAt(s, i + k)
  <2>1. WellFramed(u) /\ Behind(s, i, u)
    BY RestFramed, Zenon
  <2> QED BY <2>1 DEF Behind
<1>3. \A k \in 1 .. Len(o) - n : pos[k] \in 1 .. Len(s) /\ pos[k] >= i
  <2> SUFFICES ASSUME NEW k \in 1 .. Len(o) - n PROVE pos[k] \in 1 .. Len(s) /\ pos[k] >= i
    OBVIOUS
  <2>1. pos[k] \in 1 .. Len(s) /\ Awaits(s[pos[k]])
    BY DEF InStream
  <2>2. pos[k] \notin 1 .. i - 1
    BY <2>1 DEF Awaits
  <2> QED BY <1>1, <2>1, <2>2
<1>4. ASSUME Awaits(s[i])
      PROVE  /\ n < Len(o) /\ o[n + 1] = Owes(s[i].msg, FramingAt(s, i))
             /\ \E q : InStream(u, n + 1, o, q)
  <2>1. PICK j \in 1 .. Len(o) - n : pos[j] = i
    BY <1>4 DEF InStream
  <2>2. 1 \in 1 .. Len(o) - n /\ n < Len(o)
    BY <1>1, <2>1
  <2>3. j = 1
    <3> SUFFICES ASSUME 1 < j PROVE FALSE
      BY <1>1, <2>1
    <3>1. pos[1] < pos[j]
      BY <2>1, <2>2 DEF InStream
    <3> QED BY <1>1, <1>3, <2>1, <2>2, <3>1
  <2>4. pos[1] = i
    BY <2>1, <2>3
  <2>5. o[n + 1] = Owes(s[i].msg, FramingAt(s, i))
    BY <2>2, <2>4 DEF InStream
  <2> DEFINE q == [k \in 1 .. Len(o) - (n + 1) |-> pos[k + 1] - i]
  <2>6. \A k \in 1 .. Len(o) - (n + 1) :
          /\ k + 1 \in 1 .. Len(o) - n
          /\ q[k] = pos[k + 1] - i /\ q[k] \in 1 .. Len(u)
    <3> SUFFICES ASSUME NEW k \in 1 .. Len(o) - (n + 1)
                 PROVE  /\ k + 1 \in 1 .. Len(o) - n
                        /\ q[k] = pos[k + 1] - i /\ q[k] \in 1 .. Len(u)
      OBVIOUS
    <3>1. k + 1 \in 1 .. Len(o) - n /\ 1 < k + 1
      BY <1>1
    <3>2. pos[1] < pos[k + 1] /\ pos[k + 1] \in 1 .. Len(s)
      BY <1>3, <2>2, <3>1 DEF InStream
    <3> QED BY <1>1, <1>2, <2>4, <3>1, <3>2
  <2>7. q \in [1 .. Len(o) - (n + 1) -> 1 .. Len(u)]
    BY <2>6
  <2> HIDE DEF q
  <2>8. ASSUME NEW k \in 1 .. Len(o) - (n + 1), NEW l \in 1 .. Len(o) - (n + 1), k < l
        PROVE  q[k] < q[l]
    <3>1. k + 1 \in 1 .. Len(o) - n /\ l + 1 \in 1 .. Len(o) - n /\ k + 1 < l + 1
      BY <1>1, <2>8
    <3>2. pos[k + 1] < pos[l + 1] /\ pos[k + 1] \in 1 .. Len(s) /\ pos[l + 1] \in 1 .. Len(s)
      BY <1>3, <3>1 DEF InStream
    <3> QED BY <1>1, <2>6, <3>2
  <2>9. ASSUME NEW k \in 1 .. Len(o) - (n + 1)
        PROVE  Awaits(u[q[k]]) /\ o[(n + 1) + k] = Owes(u[q[k]].msg, FramingAt(u, q[k]))
    <3>1. PICK l \in 1 .. Len(o) - n : l = k + 1
      BY <2>6
    <3>2. Awaits(s[pos[l]]) /\ o[n + l] = Owes(s[pos[l]].msg, FramingAt(s, pos[l]))
      BY DEF InStream
    <3>3. u[q[k]] = s[pos[l]] /\ FramingAt(u, q[k]) = FramingAt(s, pos[l])
      <4>1. q[k] \in 1 .. Len(u) /\ i + q[k] = pos[l]
        BY <1>1, <1>3, <2>6, <3>1
      <4> QED BY <1>2, <4>1
    <3>4. (n + 1) + k = n + l
      BY <1>1, <3>1
    <3> QED BY <3>2, <3>3, <3>4
  <2>10. ASSUME NEW x \in 1 .. Len(u), Awaits(u[x])
         PROVE  \E k \in 1 .. Len(o) - (n + 1) : q[k] = x
    <3>1. i + x \in 1 .. Len(s) /\ Awaits(s[i + x])
      BY <1>1, <1>2, <2>10
    <3>2. PICK l \in 1 .. Len(o) - n : pos[l] = i + x
      BY <3>1 DEF InStream
    <3>3. l # 1
      BY <1>1, <1>2, <2>4, <3>2
    <3>4. PICK k \in 1 .. Len(o) - (n + 1) : l = k + 1
      <4>1. l - 1 \in 1 .. Len(o) - (n + 1) /\ l = (l - 1) + 1
        BY <1>1, <3>3
      <4> QED BY <4>1
    <3>5. q[k] = x
      BY <1>1, <1>2, <2>6, <3>2, <3>4
    <3> QED BY <3>5
  <2>11. InStream(u, n + 1, o, q)
    BY <2>7, <2>8, <2>9, <2>10 DEF InStream
  <2> QED BY <2>2, <2>5, <2>11
<1>5. ASSUME ~Awaits(s[i])
      PROVE  \E q : InStream(u, n, o, q)
  <2> DEFINE q == [k \in 1 .. Len(o) - n |-> pos[k] - i]
  <2>1. \A k \in 1 .. Len(o) - n : q[k] = pos[k] - i /\ q[k] \in 1 .. Len(u) /\ pos[k] = i + q[k]
    <3> SUFFICES ASSUME NEW k \in 1 .. Len(o) - n
                 PROVE  q[k] = pos[k] - i /\ q[k] \in 1 .. Len(u) /\ pos[k] = i + q[k]
      OBVIOUS
    <3>1. pos[k] # i
      BY <1>5 DEF InStream
    <3> QED BY <1>1, <1>2, <1>3, <3>1
  <2>2. q \in [1 .. Len(o) - n -> 1 .. Len(u)]
    BY <2>1
  <2> HIDE DEF q
  <2>3. ASSUME NEW k \in 1 .. Len(o) - n, NEW l \in 1 .. Len(o) - n, k < l
        PROVE  q[k] < q[l]
    <3>1. pos[k] < pos[l]
      BY <2>3 DEF InStream
    <3> QED BY <1>1, <1>3, <2>1, <3>1
  <2>4. ASSUME NEW k \in 1 .. Len(o) - n
        PROVE  Awaits(u[q[k]]) /\ o[n + k] = Owes(u[q[k]].msg, FramingAt(u, q[k]))
    <3>1. Awaits(s[pos[k]]) /\ o[n + k] = Owes(s[pos[k]].msg, FramingAt(s, pos[k]))
      BY DEF InStream
    <3>2. u[q[k]] = s[pos[k]] /\ FramingAt(u, q[k]) = FramingAt(s, pos[k])
      BY <1>2, <2>1
    <3> QED BY <3>1, <3>2
  <2>5. ASSUME NEW x \in 1 .. Len(u), Awaits(u[x])
        PROVE  \E k \in 1 .. Len(o) - n : q[k] = x
    <3>1. i + x \in 1 .. Len(s) /\ Awaits(s[i + x])
      BY <1>1, <1>2, <2>5
    <3>2. PICK k \in 1 .. Len(o) - n : pos[k] = i + x
      BY <3>1 DEF InStream
    <3>3. q[k] = x
      BY <1>1, <1>2, <2>1, <3>2
    <3> QED BY <3>3
  <2>6. InStream(u, n, o, q)
    BY <2>2, <2>3, <2>4, <2>5 DEF InStream
  <2> QED BY <2>6
<1> QED BY <1>4, <1>5

\* What a client says is due an answer behind all others, if it wants one.
LEMMA LastIsDue ==
  ASSUME NEW s, WellFramed(s), NEW o \in Seq(Answers), NEW n \in Nat, n <= Len(o),
         NEW pos, InStream(s, n, o, pos),
         NEW c \in Chunks, HasMsg(c), NEW f, NEW u, u = s \o Piece(c, f),
         NEW g, g = IF f = "newline" THEN "newline" ELSE "content-length",
         NEW e, e = Owes(c.msg, g), e \in Answers
  PROVE  /\ Awaits(c) => \E q : InStream(u, n, Append(o, e), q)
         /\ ~Awaits(c) => \E q : InStream(u, n, o, q)
<1>1. Len(s) \in Nat /\ Len(o) \in Nat
  BY DEF WellFramed
<1>2. PICK z \in {Len(s) + 1, Len(s) + 3} :
        /\ Len(u) = z /\ u[z] = c
        /\ \A k \in 1 .. Len(s) : u[k] = s[k] /\ FramingAt(u, k) = FramingAt(s, k)
        /\ \A k \in Len(s) + 1 .. z - 1 : ~HasMsg(u[k])
        /\ FramingAt(u, z) = g
  <2>1. Extends(u, s, c, f)
    BY PieceFramed, Zenon
  <2> QED BY <2>1 DEF Extends
<1>3. z \in Nat /\ z > Len(s)
  BY <1>1, <1>2
<1>4. \A x \in 1 .. Len(u) : Awaits(u[x]) => x \in 1 .. Len(s) \/ x = z
  <2> SUFFICES ASSUME NEW x \in 1 .. Len(u), Awaits(u[x]), x \notin 1 .. Len(s), x # z PROVE FALSE
    OBVIOUS
  <2>1. x \in Len(s) + 1 .. z - 1
    BY <1>1, <1>2, <1>3
  <2> QED BY <1>2, <2>1 DEF Awaits
<1>5. ASSUME Awaits(c)
      PROVE  \E q : InStream(u, n, Append(o, e), q)
  <2>1. PICK w : w = Append(o, e)
    OBVIOUS
  <2>2. /\ Len(w) = Len(o) + 1 /\ w[Len(o) + 1] = e
        /\ \A k \in 1 .. Len(o) : w[k] = o[k]
    BY <2>1
  <2> DEFINE m == Len(o) - n
             q == [k \in 1 .. Len(w) - n |-> IF k <= m THEN pos[k] ELSE z]
  <2>3. m \in Nat /\ Len(w) - n = m + 1 /\ n + (m + 1) = Len(o) + 1
    BY <1>1, <2>2
  <2>4. /\ \A k \in 1 .. m : q[k] = pos[k] /\ q[k] \in 1 .. Len(s)
        /\ q[m + 1] = z
    <3>1. \A k \in 1 .. m : pos[k] \in 1 .. Len(s)
      BY DEF InStream
    <3>2. \A k \in 1 .. m : k \in 1 .. Len(w) - n /\ k <= m
      BY <2>3
    <3>3. m + 1 \in 1 .. Len(w) - n /\ ~(m + 1 <= m)
      BY <2>3
    <3> HIDE DEF m
    <3> QED BY <3>1, <3>2, <3>3
  <2>5. q \in [1 .. Len(w) - n -> 1 .. Len(u)]
    <3>1. \A k \in 1 .. Len(w) - n : q[k] \in 1 .. Len(u)
      <4>1. \A k \in 1 .. Len(w) - n : k \in 1 .. m \/ k = m + 1
        BY <2>3
      <4>2. \A x \in 1 .. Len(s) : x \in 1 .. Len(u)
        BY <1>1, <1>2, <1>3
      <4>3. z \in 1 .. Len(u)
        BY <1>1, <1>2, <1>3
      <4> HIDE DEF q, m
      <4> QED BY <2>4, <4>1, <4>2, <4>3
    <3> QED BY <3>1
  <2>6. \A k \in 1 .. Len(w) - n : k \in 1 .. m \/ k = m + 1
    BY <2>3
  <2> HIDE DEF q
  <2>7. ASSUME NEW k \in 1 .. Len(w) - n, NEW l \in 1 .. Len(w) - n, k < l
        PROVE  q[k] < q[l]
    <3>1. k \in 1 .. m
      BY <2>3, <2>7
    <3>2. CASE l \in 1 .. m
      <4>1. pos[k] < pos[l]
        BY <2>7, <3>1, <3>2 DEF InStream
      <4> QED BY <2>4, <3>1, <3>2, <4>1
    <3>3. CASE l = m + 1
      BY <1>1, <1>3, <2>4, <3>1, <3>3
    <3> QED BY <2>6, <3>2, <3>3
  <2>8. ASSUME NEW k \in 1 .. Len(w) - n
        PROVE  Awaits(u[q[k]]) /\ w[n + k] = Owes(u[q[k]].msg, FramingAt(u, q[k]))
    <3>1. CASE k \in 1 .. m
      <4>1. Awaits(s[pos[k]]) /\ o[n + k] = Owes(s[pos[k]].msg, FramingAt(s, pos[k]))
        BY <3>1 DEF InStream
      <4>2. u[q[k]] = s[pos[k]] /\ FramingAt(u, q[k]) = FramingAt(s, pos[k])
        BY <1>2, <2>4, <3>1
      <4>3. w[n + k] = o[n + k]
        <5>1. n + k \in 1 .. Len(o)
          BY <1>1, <3>1
        <5> QED BY <2>2, <5>1
      <4> QED BY <4>1, <4>2, <4>3
    <3>2. CASE k = m + 1
      <4>1. u[q[k]] = c /\ FramingAt(u, q[k]) = g
        BY <1>2, <2>4, <3>2
      <4>2. w[n + k] = e
        BY <2>2, <2>3, <3>2
      <4> QED BY <1>5, <4>1, <4>2
    <3> QED BY <2>6, <3>1, <3>2
  <2>9. ASSUME NEW x \in 1 .. Len(u), Awaits(u[x])
        PROVE  \E k \in 1 .. Len(w) - n : q[k] = x
    <3>1. CASE x \in 1 .. Len(s)
      <4>1. PICK k \in 1 .. m : pos[k] = x
        BY <1>2, <2>9, <3>1 DEF InStream
      <4>2. k \in 1 .. Len(w) - n
        BY <2>3
      <4> QED BY <2>4, <4>1, <4>2
    <3>2. CASE x = z
      BY <2>3, <2>4, <3>2
    <3> QED BY <1>4, <2>9, <3>1, <3>2
  <2>10. InStream(u, n, w, q)
    BY <2>5, <2>7, <2>8, <2>9 DEF InStream
  <2> QED BY <2>1, <2>10
<1>6. ASSUME ~Awaits(c)
      PROVE  \E q : InStream(u, n, o, q)
  <2>1. \A k \in 1 .. Len(o) - n : /\ pos[k] \in 1 .. Len(s) /\ pos[k] \in 1 .. Len(u)
                                   /\ u[pos[k]] = s[pos[k]]
                                   /\ FramingAt(u, pos[k]) = FramingAt(s, pos[k])
    <3>1. \A k \in 1 .. Len(o) - n : pos[k] \in 1 .. Len(s)
      BY DEF InStream
    <3>2. \A x \in 1 .. Len(s) : x \in 1 .. Len(u)
      BY <1>1, <1>2, <1>3
    <3> QED BY <1>2, <3>1, <3>2
  <2>2. pos \in [1 .. Len(o) - n -> 1 .. Len(u)]
    BY <2>1 DEF InStream
  <2>3. \A x \in 1 .. Len(u) : Awaits(u[x]) => x \in 1 .. Len(s) /\ Awaits(s[x])
    BY <1>2, <1>4, <1>6
  <2>4. \A x \in 1 .. Len(u) : Awaits(u[x]) => \E k \in 1 .. Len(o) - n : pos[k] = x
    BY <2>3 DEF InStream
  <2>5. InStream(u, n, o, pos)
    BY <2>1, <2>2, <2>4 DEF InStream
  <2> QED BY <2>5
<1> QED BY <1>5, <1>6

\* The answers are those the stream wants, stated without their places' range.
LEMMA TurnMeans ==
  TurnInv <=> /\ WellFramed(input) /\ NoBareText(input) /\ said \in Nat
              /\ answered \in Seq(Answers) /\ owed \in Seq(Answers)
              /\ Len(answered) <= Len(owed)
              /\ \A k \in 1 .. Len(answered) : answered[k] = owed[k]
              /\ \E pos : InStream(input, Len(answered), owed, pos)
BY DEF TurnInv, InStream

\* An answer owed to a message of the client.
LEMMA OwesType ==
  ASSUME NEW m \in Sent \cup {Unreadable}, NEW f \in {"newline", "content-length"}
  PROVE  Owes(m, f) \in Answers
<1>1. m # Unreadable => m.id \in Nat
  BY DEF Sent, Requests
<1> QED BY <1>1 DEF Owes, Answers, NoId

\* The server answers what it has read if and only if that wants an answer.
LEMMA AnswersWhatItReads ==
  ASSUME RefuseBody \/ Notification \/ Dispatch \/ RefuseCall \/ CallTool \/ ReindexTU,
         NEW r, r = ReadMessageBody(input)
  PROVE  /\ r.outcome = "body" /\ input' = r.rest /\ UNCHANGED <<said, owed>>
         /\ WantsAnswer(Msg(r)) => answered' = Append(answered, Owes(Msg(r), r.framing))
         /\ ~WantsAnswer(Msg(r)) => UNCHANGED answered
<1>1. CASE RefuseBody
  <2>1. r.outcome = "body" /\ input' = r.rest /\ UNCHANGED <<said, owed>>
    BY <1>1 DEF RefuseBody, Read
  <2>2. \/ Msg(r) = Unreadable /\ Write(r, "error", NoId)
        \/ Msg(r) # Unreadable /\ Msg(r).method = "" /\ Write(r, "error", Msg(r).id)
    BY <1>1 DEF RefuseBody
  <2> QED BY <2>1, <2>2 DEF Write, FramingOf, WantsAnswer, Owes
<1>2. CASE Notification
  BY <1>2 DEF Notification, Read, IsRequest, Silent, WantsAnswer
<1>3. CASE Dispatch
  BY <1>3 DEF Dispatch, Read, IsRequest, Write, FramingOf, WantsAnswer, Owes
<1>4. CASE RefuseCall
  BY <1>4 DEF RefuseCall, Read, IsCall, IsRequest, Write, FramingOf, WantsAnswer, Owes
<1>5. CASE CallTool
  BY <1>5 DEF CallTool, Read, IsCall, IsRequest, Written, FramingOf, WantsAnswer, Owes
<1>6. CASE ReindexTU
  BY <1>6 DEF ReindexTU, Read, IsCall, IsRequest, Written, FramingOf, WantsAnswer, Owes
<1> QED BY <1>1, <1>2, <1>3, <1>4, <1>5, <1>6

\* Each message is consumed whole and answered in its turn, in its framing.
LEMMA ServeStep ==
  ASSUME TurnInv, RefuseBody \/ Notification \/ Dispatch \/ RefuseCall \/ CallTool \/ ReindexTU
  PROVE  TurnInv'
<1>1. PICK r : r = ReadMessageBody(input)
  OBVIOUS
<1>2. /\ r.outcome = "body" /\ input' = r.rest /\ UNCHANGED <<said, owed>>
      /\ WantsAnswer(Msg(r)) => answered' = Append(answered, Owes(Msg(r), r.framing))
      /\ ~WantsAnswer(Msg(r)) => UNCHANGED answered
  BY <1>1, AnswersWhatItReads
<1>3. /\ WellFramed(input) /\ NoBareText(input) /\ said \in Nat
      /\ answered \in Seq(Answers) /\ owed \in Seq(Answers)
      /\ Len(answered) <= Len(owed)
      /\ \A k \in 1 .. Len(answered) : answered[k] = owed[k]
  BY DEF TurnInv
<1>4. PICK pos : InStream(input, Len(answered), owed, pos)
  BY TurnMeans
<1>5. PICK i \in 1 .. Len(input) :
        /\ HasMsg(input[i]) /\ r.body = input[i] /\ r.rest = SubSeq(input, i + 1, Len(input))
        /\ r.framing = FramingAt(input, i)
        /\ \A k \in 1 .. i - 1 : ~HasMsg(input[k])
  BY <1>1, <1>2, <1>3, ReadsMessage
<1>6. WellFramed(input') /\ NoBareText(input')
  BY <1>2, <1>3, <1>5, RestFramed
<1>7. PICK n \in Nat : n = Len(answered) /\ n <= Len(owed)
  BY <1>3
<1>8. /\ Awaits(input[i]) => /\ n < Len(owed) /\ owed[n + 1] = Owes(input[i].msg, FramingAt(input, i))
                             /\ \E q : InStream(input', n + 1, owed, q)
      /\ ~Awaits(input[i]) => \E q : InStream(input', n, owed, q)
  <2>1. PICK s, o, u : s = input /\ o = owed /\ u = input'
    OBVIOUS
  <2>2. /\ WellFramed(s) /\ o \in Seq(Answers) /\ n <= Len(o) /\ InStream(s, n, o, pos)
        /\ i \in 1 .. Len(s) /\ HasMsg(s[i]) /\ \A k \in 1 .. i - 1 : ~HasMsg(s[k])
        /\ u = SubSeq(s, i + 1, Len(s))
    BY <1>2, <1>3, <1>4, <1>5, <1>7, <2>1
  <2>3. /\ Awaits(s[i]) => /\ n < Len(o) /\ o[n + 1] = Owes(s[i].msg, FramingAt(s, i))
                           /\ \E q : InStream(u, n + 1, o, q)
        /\ ~Awaits(s[i]) => \E q : InStream(u, n, o, q)
    BY <2>2, FirstIsNext, Zenon
  <2> QED BY <2>1, <2>3
<1>9. Msg(r) = input[i].msg /\ (Awaits(input[i]) <=> WantsAnswer(Msg(r)))
  BY <1>5 DEF Msg, Awaits
<1>10. CASE WantsAnswer(Msg(r))
  <2>1. PICK e : e = Owes(Msg(r), r.framing)
    OBVIOUS
  <2>2. n < Len(owed) /\ owed[n + 1] = e /\ \E q : InStream(input', n + 1, owed, q)
    BY <1>5, <1>8, <1>9, <1>10, <2>1
  <2>3. e \in Answers
    BY <1>3, <1>7, <2>2
  <2>4. answered' = Append(answered, e)
    BY <1>2, <1>10, <2>1
  <2>5. /\ answered' \in Seq(Answers) /\ Len(answered') = n + 1
        /\ \A k \in 1 .. n + 1 : answered'[k] = owed[k]
    BY <1>3, <1>7, <2>2, <2>3, <2>4
  <2>6. Len(answered') <= Len(owed)
    BY <1>3, <1>7, <2>2, <2>5
  <2>7. PICK q : InStream(input', n + 1, owed, q)
    BY <2>2
  <2>8. q \in [1 .. Len(owed) - (n + 1) -> 1 .. Len(input')]
    BY <2>7 DEF InStream
  <2>9. \E x \in [1 .. Len(owed') - Len(answered') -> 1 .. Len(input')] :
          InStream(input', Len(answered'), owed', x)
    BY <1>2, <2>5, <2>7, <2>8
  <2>10. \A k \in 1 .. Len(answered') : answered'[k] = owed'[k]
    BY <1>2, <2>5
  <2> QED BY <1>2, <1>3, <1>6, <2>5, <2>6, <2>9, <2>10 DEF TurnInv
<1>11. CASE ~WantsAnswer(Msg(r))
  <2>1. PICK q : InStream(input', n, owed, q)
    BY <1>8, <1>9, <1>11
  <2>2. UNCHANGED <<answered, owed, said>>
    BY <1>2, <1>11
  <2>3. InStream(input', Len(answered'), owed', q)
    BY <1>7, <2>1, <2>2
  <2>4. q \in [1 .. Len(owed') - Len(answered') -> 1 .. Len(input')]
    BY <2>3 DEF InStream
  <2>5. \E x \in [1 .. Len(owed') - Len(answered') -> 1 .. Len(input')] :
          InStream(input', Len(answered'), owed', x)
    BY <2>3, <2>4
  <2> QED BY <1>3, <1>6, <2>2, <2>5 DEF TurnInv
<1> QED BY <1>10, <1>11

\* What a client says is added to the stream and to what it is owed.
LEMMA SayStep ==
  ASSUME TurnInv, NEW c \in Chunks, HasMsg(c), NEW f \in {"newline", "content-length"},
         c.kind = "text" => f # "newline",
         input' = input \o Piece(c, f), Say(c.msg, f)
  PROVE  TurnInv'
<1>1. /\ WellFramed(input) /\ NoBareText(input) /\ said \in Nat
      /\ answered \in Seq(Answers) /\ owed \in Seq(Answers)
      /\ Len(answered) <= Len(owed)
      /\ \A k \in 1 .. Len(answered) : answered[k] = owed[k]
  BY DEF TurnInv
<1>2. PICK pos : InStream(input, Len(answered), owed, pos)
  BY TurnMeans
<1>3. /\ said' \in Nat /\ answered' = answered
      /\ owed' = IF Awaits(c) THEN Append(owed, Owes(c.msg, f)) ELSE owed
  BY <1>1 DEF Say, Awaits
<1>4. WellFramed(input') /\ NoBareText(input')
  BY <1>1, PieceFramed
<1>5. PICK e : e = Owes(c.msg, f)
  OBVIOUS
<1>6. e \in Answers
  BY <1>5, ChunkKinds, OwesType
<1>7. PICK s, o, u, n : s = input /\ o = owed /\ u = input' /\ n = Len(answered)
  OBVIOUS
<1>8. /\ WellFramed(s) /\ o \in Seq(Answers) /\ n \in Nat /\ n <= Len(o) /\ InStream(s, n, o, pos)
      /\ u = s \o Piece(c, f) /\ f = IF f = "newline" THEN "newline" ELSE "content-length"
  BY <1>1, <1>2, <1>7
<1>9. /\ Awaits(c) => \E q : InStream(u, n, Append(o, e), q)
      /\ ~Awaits(c) => \E q : InStream(u, n, o, q)
  BY <1>5, <1>6, <1>8, LastIsDue, Zenon
<1>10. PICK q : InStream(u, n, owed', q)
  BY <1>3, <1>5, <1>7, <1>9
<1>11. q \in [1 .. Len(owed') - n -> 1 .. Len(u)]
  BY <1>10 DEF InStream
<1>12. /\ owed' \in Seq(Answers) /\ Len(owed) <= Len(owed')
       /\ \A k \in 1 .. Len(owed) : owed'[k] = owed[k]
  BY <1>1, <1>3, <1>5, <1>6
<1>13. Len(answered') <= Len(owed') /\ \A k \in 1 .. Len(answered') : answered'[k] = owed'[k]
  BY <1>1, <1>3, <1>12
<1>14. \E x \in [1 .. Len(owed') - Len(answered') -> 1 .. Len(input')] :
         InStream(input', Len(answered'), owed', x)
  BY <1>3, <1>7, <1>10, <1>11
<1> QED BY <1>1, <1>3, <1>4, <1>12, <1>13, <1>14 DEF TurnInv

\* Every step keeps answers and messages in step.
LEMMA TurnStep ==
  ASSUME ~BareText, TurnInv, [Next]_vars
  PROVE  TurnInv'
<1>1. ASSUME NEW m \in Messages, NEW f \in Framings(m), Send(m, f)
      PROVE  TurnInv'
  <2>1. PICK c : c = Object(Number(m))
    OBVIOUS
  <2>2. c \in Chunks /\ HasMsg(c) /\ c.kind # "text" /\ c.msg = Number(m)
    BY <2>1, NumberSent DEF HasMsg, Object, TurnInv
  <2>3. f \in {"newline", "content-length"}
    BY FramingsAssumption
  <2>4. input' = input \o Piece(c, f) /\ Say(c.msg, f)
    BY <1>1, <2>1, <2>2 DEF Send, Piece
  <2> QED BY <2>2, <2>3, <2>4, SayStep
<1>2. ASSUME NEW f \in Framings(Unreadable), SendText(f)
      PROVE  TurnInv'
  <2>1. PICK c : c = Text
    OBVIOUS
  <2>2. c \in Chunks /\ HasMsg(c) /\ c.msg = Unreadable
    BY <2>1 DEF Chunks, HasMsg, Text
  <2>3. f \in {"newline", "content-length"} /\ f # "newline"
    BY <1>2, FramingsAssumption DEF SendText
  <2>4. input' = input \o Piece(c, f) /\ Say(c.msg, f)
    BY <1>2, <2>1, <2>2 DEF SendText, Piece
  <2> QED BY <2>2, <2>3, <2>4, SayStep
<1>3. ASSUME SendBlank
      PROVE  TurnInv'
  <2>1. input = <<>> /\ input' = <<Blank>> /\ UNCHANGED <<said, owed, answered>>
    BY <1>3 DEF SendBlank
  <2>2. Blank \in Chunks /\ Blank.kind = "blank"
    BY DEF Blank, Chunks
  <2>3. PICK u : u = input' /\ u = <<Blank>>
    BY <2>1
  <2>31. u \in Seq(Chunks) /\ Len(u) = 1 /\ u[1] = Blank
    BY <2>2, <2>3
  <2>32. u[1].kind = "blank"
    BY <2>2, <2>31
  <2>4. WellFramed(u) /\ NoBareText(u)
    BY <2>31, <2>32 DEF WellFramed, NoBareText
  <2>5. Len(owed) - Len(answered) = 0 /\ Len(owed) \in Nat /\ Len(answered) \in Nat
    <3>1. PICK pos : InStream(input, Len(answered), owed, pos)
      BY TurnMeans
    <3>2. Len(input) = 0
      BY <2>1
    <3>3. \A k \in 1 .. Len(owed) - Len(answered) : FALSE
      <4>1. SUFFICES ASSUME NEW k \in 1 .. Len(owed) - Len(answered) PROVE FALSE
        OBVIOUS
      <4>2. pos[k] \in 1 .. Len(input)
        BY <3>1, <4>1 DEF InStream
      <4> QED BY <3>2, <4>2
    <3>4. Len(owed) \in Nat /\ Len(answered) \in Nat /\ Len(answered) <= Len(owed)
      BY DEF TurnInv
    <3> QED BY <3>3, <3>4
  <2>6. InStream(u, Len(answered), owed, <<>>)
    BY <2>31, <2>32, <2>5 DEF InStream, Awaits, HasMsg
  <2>7. \E x \in [1 .. Len(owed') - Len(answered') -> 1 .. Len(input')] :
          InStream(input', Len(answered'), owed', x)
    <3>1. InStream(input', Len(answered'), owed', <<>>)
      BY <2>1, <2>3, <2>6
    <3>2. <<>> \in [1 .. Len(owed') - Len(answered') -> 1 .. Len(input')]
      BY <3>1 DEF InStream
    <3> QED BY <3>1, <3>2
  <2> QED BY <2>1, <2>3, <2>31, <2>4, <2>7 DEF TurnInv
<1>4. ASSUME Shutdown \/ Close \/ (\E t \in TUs : Edit(t)) \/ UNCHANGED vars
      PROVE  TurnInv'
  <2>1. UNCHANGED <<input, said, answered, owed>>
    BY <1>4 DEF Shutdown, Close, Edit, vars
  <2> QED BY <2>1 DEF TurnInv
<1> QED BY <1>1, <1>2, <1>3, <1>4, ServeStep DEF Next

\* At first nothing is said and nothing owed.
LEMMA TurnInit == Init => TurnInv
<1> SUFFICES ASSUME Init PROVE TurnInv
  OBVIOUS
<1>1. input = <<>> /\ answered = <<>> /\ owed = <<>> /\ said = 0
  BY DEF Init
<1>2. InStream(input, Len(answered), owed, <<>>)
  BY <1>1 DEF InStream
<1> QED BY <1>1, <1>2, TurnMeans DEF WellFramed, NoBareText

\* The safety part of AnsweredInTurn: the responses written so far answer the
\* first messages that want one, in their order and their framing.
InTurn == IsPrefix(answered, owed)

\* However many messages a client pipelines, in whatever framings, readable or
\* not, the k-th response answers the k-th message that wants one, in its own
\* framing, as long as no line comes that is no object (McpProtocol.cpp:44-146).
THEOREM InTurnCorrect ==
  ASSUME ~BareText
  PROVE  Spec => []InTurn
<1>1. Init => TurnInv
  BY TurnInit
<1>2. TurnInv /\ [Next]_vars => TurnInv'
  BY TurnStep
<1>3. TurnInv => InTurn
  <2> SUFFICES ASSUME TurnInv PROVE InTurn
    OBVIOUS
  <2>1. /\ answered \in Seq(Answers) /\ owed \in Seq(Answers) /\ Len(answered) <= Len(owed)
        /\ \A k \in 1 .. Len(answered) : answered[k] = owed[k]
    BY DEF TurnInv
  <2>2. SubSeq(answered, 1, Len(answered)) = SubSeq(owed, 1, Len(answered))
    BY <2>1, SubSeqProperties, SeqEqual
  <2> QED BY <2>1, <2>2 DEF InTurn, IsPrefix
<1> QED BY <1>1, <1>2, <1>3, PTL DEF Spec
=============================================================================
