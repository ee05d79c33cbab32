-------------------------- MODULE TuVisitorsProofs --------------------------
(***************************************************************************)
(* Machine-checked proofs about TuVisitors: whatever program is walked, to *)
(* whatever depth, the visitors' stacks say what lies around the current   *)
(* node.                                                                   *)
(***************************************************************************)
EXTENDS TuVisitors, ListingProofs

-----------------------------------------------------------------------------
(* Sequences of locals, one for each open block.                             *)

\* A local that joins the innermost block comes last.
LEMMA FlattenInnermost ==
  ASSUME NEW S, NEW ss \in Seq(Seq(S)), NEW x \in S, ss # << >>
  PROVE  /\ AddToInnermost(ss, x) = Append(Front(ss), Append(Last(ss), x))
         /\ FlattenSeq(AddToInnermost(ss, x)) = Append(FlattenSeq(ss), x)
<1>1. /\ Front(ss) \in Seq(Seq(S)) /\ Last(ss) \in Seq(S)
      /\ ss = Append(Front(ss), Last(ss))
  BY FrontLast
<1>2. AddToInnermost(ss, x) = Append(Front(ss), Append(Last(ss), x))
  <2>1. Append(Last(ss), x) \in Seq(S)
    BY <1>1
  <2>2. [ss EXCEPT ![Len(ss)] = Append(Last(ss), x)] = Append(Front(ss), Append(Last(ss), x))
    <3> DEFINE T == Seq(S)
               y == Append(Last(ss), x)
    <3>1. ss \in Seq(T) /\ ss # << >> /\ y \in T
      BY <2>1
    <3> HIDE DEF T, y
    <3>2. [ss EXCEPT ![Len(ss)] = y] = Append(Front(ss), y)
      BY <3>1, ReplaceLast
    <3> QED BY <3>2 DEF y
  <2>3. ss[Len(ss)] = Last(ss)
    BY DEF Last
  <2> QED BY <2>2, <2>3 DEF AddToInnermost
<1>3. Append(Last(ss), x) \in Seq(S)
  BY <1>1
<1>4. FlattenSeq(AddToInnermost(ss, x)) = FlattenSeq(Front(ss)) \o Append(Last(ss), x)
  BY <1>1, <1>2, <1>3, FlattenAppend
<1>5. FlattenSeq(ss) = FlattenSeq(Front(ss)) \o Last(ss)
  BY <1>1, FlattenAppend
<1>6. FlattenSeq(Front(ss)) \in Seq(S)
  BY <1>1, FlattenType
<1>7. ASSUME NEW a \in Seq(S), NEW b \in Seq(S)
      PROVE  a \o Append(b, x) = Append(a \o b, x)
  BY <1>7
<1> QED BY <1>1, <1>2, <1>4, <1>5, <1>6, <1>7

-----------------------------------------------------------------------------
(* What a path says of the stacks.                                           *)

Kinds  == {"function", "conversion", "lambda", "block", "try", "handler", "cond", "then", "else"}
Frames == [kind : Kinds, at : Nat, more : Nat]
Scoped == {"block", "handler"}
Locals == [at : Nat, type : LocalTypes, depth : Nat \ {0}, block : {f \in Frames : f.kind \in Scoped}]

\* No condition among the first n frames of p; the frames of some kinds, and
\* those of them the control-flow visitor has walked into.
SeenTo(p, n)     == \A i \in DOMAIN p : i <= n => p[i].kind # "cond"
At(p, kinds)     == {i \in DOMAIN p : p[i].kind \in kinds}
SeenAt(p, kinds) == {i \in At(p, kinds) : SeenTo(p, i)}

FunEntries(l)    == [k \in DOMAIN l |-> [at |-> l[k].at, lambda |-> l[k].kind = "lambda"]]
TryEntries(l)    == [k \in DOMAIN l |-> [at |-> l[k].at, depth |-> k - 1]]
BranchEntries(l) == [k \in DOMAIN l |-> [at |-> l[k].at, true |-> l[k].kind = "then"]]
LocalEntries(l)  == [k \in DOMAIN l |-> [at |-> l[k].at, kind |-> ClassifyRaiiType(l[k].type)]]

Functions(p)     == FunEntries(Listed(p, At(p, {"function", "lambda"})))
SeenFunctions(p) == FunEntries(Listed(p, SeenAt(p, {"function"})))
SeenTries(p)     == TryEntries(Listed(p, SeenAt(p, {"try"})))
SeenBranches(p)  == BranchEntries(Listed(p, SeenAt(p, {"then", "else"})))

LEMMA EntriesAppend ==
  ASSUME NEW S, NEW l \in Seq(S), NEW x \in S
  PROVE  /\ FunEntries(Append(l, x)) = Append(FunEntries(l), [at |-> x.at, lambda |-> x.kind = "lambda"])
         /\ TryEntries(Append(l, x)) = Append(TryEntries(l), [at |-> x.at, depth |-> Len(l)])
         /\ BranchEntries(Append(l, x)) = Append(BranchEntries(l), [at |-> x.at, true |-> x.kind = "then"])
         /\ LocalEntries(Append(l, x)) =
              Append(LocalEntries(l), [at |-> x.at, kind |-> ClassifyRaiiType(x.type)])
<1>1. /\ DOMAIN l = 1..Len(l) /\ Len(l) \in Nat
      /\ DOMAIN Append(l, x) = 1..Len(l)+1
      /\ \A i \in 1..Len(l) : Append(l, x)[i] = l[i]
      /\ Append(l, x)[Len(l)+1] = x
  OBVIOUS
<1>2. ASSUME NEW g, NEW e
      PROVE  Append([k \in 1..Len(l) |-> g[k]], e) = [k \in 1..Len(l)+1 |-> IF k = Len(l)+1 THEN e ELSE g[k]]
  <2> DEFINE T == {g[k] : k \in 1..Len(l)} \cup {e}
             h == [k \in 1..Len(l) |-> g[k]]
  <2>1. h \in Seq(T) /\ Len(h) = Len(l) /\ e \in T
    BY <1>1
  <2> HIDE DEF T
  <2>2. Append(h, e) = [k \in 1..Len(l)+1 |-> IF k = Len(l)+1 THEN e ELSE h[k]]
    BY <2>1, <1>1
  <2> QED BY <2>2
<1> QED BY <1>1, <1>2 DEF FunEntries, TryEntries, BranchEntries, LocalEntries

\* A frame more on the path.
LEMMA ListedAtAppend ==
  ASSUME NEW p \in Seq(Frames), NEW f \in Frames, NEW K
  PROVE  Listed(Append(p, f), At(Append(p, f), K)) =
           IF f.kind \in K THEN Append(Listed(p, At(p, K)), f) ELSE Listed(p, At(p, K))
<1> DEFINE q == Append(p, f)
           I == At(q, K)
<1>1. /\ DOMAIN p = 1..Len(p) /\ Len(p) \in Nat
      /\ DOMAIN q = 1..Len(p)+1
      /\ \A i \in 1..Len(p) : q[i] = p[i]
      /\ q[Len(p)+1] = f
  OBVIOUS
<1>2. Len(p) + 1 \in I <=> f.kind \in K
  BY <1>1 DEF At
<1>3. \A m \in 1..Len(p) : m \in I <=> m \in At(p, K)
  BY <1>1 DEF At
<1> HIDE DEF I
<1>4. Listed(p, I) = Listed(p, At(p, K))
  BY <1>3, ListedSame
<1>5. Listed(q, I) = IF Len(p) + 1 \in I THEN Append(Listed(p, I), f) ELSE Listed(p, I)
  BY ListedAppend
<1> QED BY <1>2, <1>4, <1>5 DEF I

LEMMA SeenToAppend ==
  ASSUME NEW p \in Seq(Frames), NEW f \in Frames
  PROVE  /\ \A n \in 0..Len(p) : SeenTo(Append(p, f), n) <=> SeenTo(p, n)
         /\ SeenTo(Append(p, f), Len(p) + 1) <=> (SeenTo(p, Len(p)) /\ f.kind # "cond")
         /\ SeenTo(p, 0)
<1> DEFINE q == Append(p, f)
<1>1. /\ DOMAIN p = 1..Len(p) /\ Len(p) \in Nat
      /\ DOMAIN q = 1..Len(p)+1
      /\ \A i \in 1..Len(p) : q[i] = p[i]
      /\ q[Len(p)+1] = f
  OBVIOUS
<1> HIDE DEF q
<1> QED BY <1>1 DEF SeenTo, q

LEMMA ListedSeenAppend ==
  ASSUME NEW p \in Seq(Frames), NEW f \in Frames, NEW K
  PROVE  Listed(Append(p, f), SeenAt(Append(p, f), K)) =
           IF f.kind \in K /\ f.kind # "cond" /\ SeenTo(p, Len(p))
           THEN Append(Listed(p, SeenAt(p, K)), f) ELSE Listed(p, SeenAt(p, K))
<1> DEFINE q == Append(p, f)
           I == SeenAt(q, K)
<1>1. /\ DOMAIN p = 1..Len(p) /\ Len(p) \in Nat
      /\ DOMAIN q = 1..Len(p)+1
      /\ \A i \in 1..Len(p) : q[i] = p[i]
      /\ q[Len(p)+1] = f
  OBVIOUS
<1>0. /\ \A n \in 0..Len(p) : SeenTo(q, n) <=> SeenTo(p, n)
      /\ SeenTo(q, Len(p) + 1) <=> (SeenTo(p, Len(p)) /\ f.kind # "cond")
  BY SeenToAppend
<1>2. Len(p) + 1 \in I <=> f.kind \in K /\ f.kind # "cond" /\ SeenTo(p, Len(p))
  BY <1>1, <1>0 DEF SeenAt, At
<1>3. \A m \in 1..Len(p) : m \in I <=> m \in SeenAt(p, K)
  BY <1>1, <1>0 DEF SeenAt, At
<1> HIDE DEF I
<1>4. Listed(p, I) = Listed(p, SeenAt(p, K))
  BY <1>3, ListedSame
<1>5. Listed(q, I) = IF Len(p) + 1 \in I THEN Append(Listed(p, I), f) ELSE Listed(p, I)
  BY ListedAppend
<1> QED BY <1>2, <1>4, <1>5 DEF I

FunctionFrames == [at : Nat, lambda : BOOLEAN]
TryFrames      == [at : Nat, depth : Nat]
GuardFrames    == [at : Nat, true : BOOLEAN]

LEMMA EntriesType ==
  ASSUME NEW l \in Seq(Frames)
  PROVE  /\ FunEntries(l) \in Seq(FunctionFrames) /\ Len(FunEntries(l)) = Len(l)
         /\ TryEntries(l) \in Seq(TryFrames) /\ Len(TryEntries(l)) = Len(l)
         /\ BranchEntries(l) \in Seq(GuardFrames) /\ Len(BranchEntries(l)) = Len(l)
<1>1. /\ DOMAIN l = 1..Len(l) /\ Len(l) \in Nat
      /\ \A k \in 1..Len(l) : l[k] \in Frames
  OBVIOUS
<1>2. \A f \in Frames : [at |-> f.at, lambda |-> f.kind = "lambda"] \in FunctionFrames
  BY DEF Frames, FunctionFrames
<1>3. \A f \in Frames, k \in 1..Len(l) : [at |-> f.at, depth |-> k - 1] \in TryFrames
  BY <1>1 DEF Frames, TryFrames
<1>4. \A f \in Frames : [at |-> f.at, true |-> f.kind = "then"] \in GuardFrames
  BY DEF Frames, GuardFrames
<1>5. FunEntries(l) \in Seq(FunctionFrames) /\ Len(FunEntries(l)) = Len(l)
  BY <1>1, <1>2 DEF FunEntries
<1>6. TryEntries(l) \in Seq(TryFrames) /\ Len(TryEntries(l)) = Len(l)
  BY <1>1, <1>3 DEF TryEntries
<1>7. BranchEntries(l) \in Seq(GuardFrames) /\ Len(BranchEntries(l)) = Len(l)
  BY <1>1, <1>4 DEF BranchEntries
<1> QED BY <1>5, <1>6, <1>7

LEMMA NoFrames ==
  /\ Functions(<< >>) = << >> /\ SeenFunctions(<< >>) = << >>
  /\ SeenTries(<< >>) = << >> /\ SeenBranches(<< >>) = << >>
  BY ListedEmpty DEF Functions, SeenFunctions, SeenTries, SeenBranches,
                     FunEntries, TryEntries, BranchEntries

LEMMA StackTypes ==
  ASSUME NEW p \in Seq(Frames)
  PROVE  /\ Functions(p) \in Seq(FunctionFrames)
         /\ SeenFunctions(p) \in Seq(FunctionFrames)
         /\ SeenTries(p) \in Seq(TryFrames)
         /\ SeenBranches(p) \in Seq(GuardFrames)
<1>1. \A I : Listed(p, I) \in Seq(Frames)
  BY ListedType
<1> QED BY <1>1, EntriesType DEF Functions, SeenFunctions, SeenTries, SeenBranches

\* How the four stacks of a path grow with it.
LEMMA StackSteps ==
  ASSUME NEW p \in Seq(Frames), NEW f \in Frames
  PROVE  /\ Functions(Append(p, f)) =
              IF f.kind \in {"function", "lambda"}
              THEN Append(Functions(p), [at |-> f.at, lambda |-> f.kind = "lambda"])
              ELSE Functions(p)
         /\ SeenFunctions(Append(p, f)) =
              IF f.kind = "function" /\ SeenTo(p, Len(p))
              THEN Append(SeenFunctions(p), [at |-> f.at, lambda |-> FALSE])
              ELSE SeenFunctions(p)
         /\ SeenTries(Append(p, f)) =
              IF f.kind = "try" /\ SeenTo(p, Len(p))
              THEN Append(SeenTries(p), [at |-> f.at, depth |-> Len(SeenTries(p))])
              ELSE SeenTries(p)
         /\ SeenBranches(Append(p, f)) =
              IF f.kind \in {"then", "else"} /\ SeenTo(p, Len(p))
              THEN Append(SeenBranches(p), [at |-> f.at, true |-> f.kind = "then"])
              ELSE SeenBranches(p)
<1> DEFINE q == Append(p, f)
<1>1. ASSUME NEW K
      PROVE  /\ Listed(p, At(p, K)) \in Seq(Frames)
             /\ Listed(p, SeenAt(p, K)) \in Seq(Frames)
             /\ Listed(q, At(q, K)) = IF f.kind \in K THEN Append(Listed(p, At(p, K)), f)
                                      ELSE Listed(p, At(p, K))
             /\ Listed(q, SeenAt(q, K)) =
                  IF f.kind \in K /\ f.kind # "cond" /\ SeenTo(p, Len(p))
                  THEN Append(Listed(p, SeenAt(p, K)), f) ELSE Listed(p, SeenAt(p, K))
  BY ListedAtAppend, ListedSeenAppend, ListedType
<1> HIDE DEF q
<1>2. Functions(q) = IF f.kind \in {"function", "lambda"}
                     THEN Append(Functions(p), [at |-> f.at, lambda |-> f.kind = "lambda"])
                     ELSE Functions(p)
  <2> DEFINE l == Listed(p, At(p, {"function", "lambda"}))
             m == Listed(q, At(q, {"function", "lambda"}))
  <2>1. /\ l \in Seq(Frames)
        /\ m = IF f.kind \in {"function", "lambda"} THEN Append(l, f) ELSE l
    BY <1>1
  <2> HIDE DEF l, m
  <2>2. FunEntries(Append(l, f)) = Append(FunEntries(l), [at |-> f.at, lambda |-> f.kind = "lambda"])
    BY <2>1, EntriesAppend
  <2>3. FunEntries(m) = IF f.kind \in {"function", "lambda"} THEN Append(FunEntries(l), [at |-> f.at, lambda |-> f.kind = "lambda"]) ELSE FunEntries(l)
    BY <2>1, <2>2
  <2> QED BY <2>3 DEF Functions, l, m
<1>3. SeenFunctions(q) = IF f.kind = "function" /\ SeenTo(p, Len(p))
                         THEN Append(SeenFunctions(p), [at |-> f.at, lambda |-> FALSE])
                         ELSE SeenFunctions(p)
  <2> DEFINE l == Listed(p, SeenAt(p, {"function"}))
             m == Listed(q, SeenAt(q, {"function"}))
  <2>1. /\ l \in Seq(Frames)
        /\ m = IF f.kind = "function" /\ SeenTo(p, Len(p)) THEN Append(l, f) ELSE l
    BY <1>1
  <2> HIDE DEF l, m
  <2>2. FunEntries(Append(l, f)) = Append(FunEntries(l), [at |-> f.at, lambda |-> f.kind = "lambda"])
    BY <2>1, EntriesAppend
  <2>3. FunEntries(m) = IF f.kind = "function" /\ SeenTo(p, Len(p)) THEN Append(FunEntries(l), [at |-> f.at, lambda |-> f.kind = "lambda"]) ELSE FunEntries(l)
    BY <2>1, <2>2
  <2>4. f.kind = "function" => (f.kind = "lambda") = FALSE
    OBVIOUS
  <2> QED BY <2>3, <2>4 DEF SeenFunctions, l, m
<1>4. SeenTries(q) = IF f.kind = "try" /\ SeenTo(p, Len(p))
                     THEN Append(SeenTries(p), [at |-> f.at, depth |-> Len(SeenTries(p))])
                     ELSE SeenTries(p)
  <2> DEFINE l == Listed(p, SeenAt(p, {"try"}))
             m == Listed(q, SeenAt(q, {"try"}))
  <2>1. /\ l \in Seq(Frames)
        /\ m = IF f.kind = "try" /\ SeenTo(p, Len(p)) THEN Append(l, f) ELSE l
    BY <1>1
  <2> HIDE DEF l, m
  <2>2. TryEntries(Append(l, f)) = Append(TryEntries(l), [at |-> f.at, depth |-> Len(l)])
    BY <2>1, EntriesAppend
  <2>3. TryEntries(m) = IF f.kind = "try" /\ SeenTo(p, Len(p)) THEN Append(TryEntries(l), [at |-> f.at, depth |-> Len(l)]) ELSE TryEntries(l)
    BY <2>1, <2>2
  <2>4. Len(TryEntries(l)) = Len(l)
    BY <2>1, EntriesType
  <2> QED BY <2>3, <2>4 DEF SeenTries, l, m
<1>5. SeenBranches(q) = IF f.kind \in {"then", "else"} /\ SeenTo(p, Len(p))
                        THEN Append(SeenBranches(p), [at |-> f.at, true |-> f.kind = "then"])
                        ELSE SeenBranches(p)
  <2> DEFINE l == Listed(p, SeenAt(p, {"then", "else"}))
             m == Listed(q, SeenAt(q, {"then", "else"}))
  <2>1. /\ l \in Seq(Frames)
        /\ m = IF f.kind \in {"then", "else"} /\ SeenTo(p, Len(p)) THEN Append(l, f) ELSE l
    BY <1>1
  <2> HIDE DEF l, m
  <2>2. BranchEntries(Append(l, f)) = Append(BranchEntries(l), [at |-> f.at, true |-> f.kind = "then"])
    BY <2>1, EntriesAppend
  <2>3. BranchEntries(m) = IF f.kind \in {"then", "else"} /\ SeenTo(p, Len(p)) THEN Append(BranchEntries(l), [at |-> f.at, true |-> f.kind = "then"]) ELSE BranchEntries(l)
    BY <2>1, <2>2
  <2> QED BY <2>3 DEF SeenBranches, l, m
<1> QED BY <1>2, <1>3, <1>4, <1>5 DEF q

-----------------------------------------------------------------------------
(* Scopes and the locals in them.                                            *)

\* How many scopes the control-flow visitor has open after the first n frames,
\* the locals that the first n frames hold, and that those are what the first
\* scopes list, one scope after the other.
Depth(p, n)         == Len(InOrder(SeenAt(p, Scoped), n))
LiveTo(p, ds, n)    == {i \in DOMAIN ds : ds[i].depth <= n /\ p[ds[i].depth] = ds[i].block}
ScopesTo(p, ss, ds, n) ==
  FlattenSeq(SubSeq(ss, 1, Depth(p, n))) = LocalEntries(Listed(ds, LiveTo(p, ds, n)))
ScopesFollow(p, ss, ds) ==
  /\ Len(ss) = Depth(p, Len(p))
  /\ \A n \in 0..Len(p) : SeenTo(p, n) => ScopesTo(p, ss, ds, n)

\* f is not the frame some local was declared in, at depth n.
Fresh(f, ds, n) == \A i \in DOMAIN ds : ds[i].depth = n => ds[i].block # f

LEMMA DepthSteps ==
  ASSUME NEW p, NEW n \in Nat
  PROVE  /\ Depth(p, n) \in Nat
         /\ Depth(p, 0) = 0
         /\ Depth(p, n + 1) = IF n + 1 \in SeenAt(p, Scoped) THEN Depth(p, n) + 1 ELSE Depth(p, n)
<1> DEFINE I == SeenAt(p, Scoped)
<1> HIDE DEF I
<1>1. InOrder(I, n) \in Seq(Nat)
  BY InOrderType
<1>2. InOrder(I, 0) = << >>
  BY InOrderSteps
<1>3. InOrder(I, n + 1) = IF n + 1 \in I THEN Append(InOrder(I, n), n + 1) ELSE InOrder(I, n)
  BY InOrderSteps
<1>4. /\ Len(InOrder(I, n)) \in Nat
      /\ Len(InOrder(I, 0)) = 0
      /\ Len(InOrder(I, n + 1)) = IF n + 1 \in I THEN Len(InOrder(I, n)) + 1 ELSE Len(InOrder(I, n))
  <2> DEFINE a == InOrder(I, n)
             b == InOrder(I, n + 1)
  <2>1. a \in Seq(Nat) /\ b = IF n + 1 \in I THEN Append(a, n + 1) ELSE a
    BY <1>1, <1>3
  <2> HIDE DEF a, b
  <2>2. Len(a) \in Nat /\ Len(b) = IF n + 1 \in I THEN Len(a) + 1 ELSE Len(a)
    BY <2>1
  <2> QED BY <1>2, <2>2 DEF a, b
<1> QED BY <1>4 DEF Depth, I

LEMMA DepthGrows ==
  ASSUME NEW p
  PROVE  \A n, m \in Nat : n <= m => Depth(p, n) <= Depth(p, m)
<1> DEFINE T == {m \in Nat : \A n \in Nat : n <= m => Depth(p, n) <= Depth(p, m)}
<1>1. 0 \in T
  <2>1. Depth(p, 0) \in Nat
    BY DepthSteps
  <2> QED BY <2>1
<1>2. ASSUME NEW m \in Nat, m \in T PROVE m + 1 \in T
  <2>1. /\ Depth(p, m) \in Nat /\ Depth(p, m + 1) \in Nat
        /\ Depth(p, m) <= Depth(p, m + 1)
    <3>1. Depth(p, m) \in Nat
      BY DepthSteps
    <3>2. Depth(p, m + 1) = Depth(p, m) + 1 \/ Depth(p, m + 1) = Depth(p, m)
      BY DepthSteps
    <3> QED BY <3>1, <3>2
  <2>2. SUFFICES ASSUME NEW n \in Nat, n <= m + 1 PROVE Depth(p, n) <= Depth(p, m + 1)
    OBVIOUS
  <2>3. Depth(p, n) \in Nat
    BY DepthSteps
  <2>4. CASE n <= m
    <3>1. Depth(p, n) <= Depth(p, m)
      BY <1>2, <2>4
    <3> QED BY <3>1, <2>1, <2>3
  <2>5. CASE n = m + 1
    BY <2>5, <2>1
  <2> QED BY <2>2, <2>4, <2>5
<1>3. \A m \in Nat : m \in T
  <2> HIDE DEF T
  <2> QED BY <1>1, <1>2, SetInduction
<1> QED BY <1>3

LEMMA DepthAppend ==
  ASSUME NEW p \in Seq(Frames), NEW f \in Frames
  PROVE  /\ \A n \in 0..Len(p) : Depth(Append(p, f), n) = Depth(p, n)
         /\ Depth(Append(p, f), Len(p) + 1) =
              IF f.kind \in Scoped /\ SeenTo(p, Len(p)) THEN Depth(p, Len(p)) + 1
              ELSE Depth(p, Len(p))
<1> DEFINE q == Append(p, f)
<1>1. /\ DOMAIN p = 1..Len(p) /\ Len(p) \in Nat
      /\ DOMAIN q = 1..Len(p)+1
      /\ \A i \in 1..Len(p) : q[i] = p[i]
      /\ q[Len(p)+1] = f
  OBVIOUS
<1>2. /\ \A n \in 0..Len(p) : SeenTo(q, n) <=> SeenTo(p, n)
      /\ SeenTo(q, Len(p) + 1) <=> (SeenTo(p, Len(p)) /\ f.kind # "cond")
  BY SeenToAppend
<1> HIDE DEF q
<1>3. \A i \in 1..Len(p) : i \in SeenAt(q, Scoped) <=> i \in SeenAt(p, Scoped)
  BY <1>1, <1>2 DEF SeenAt, At
<1>4. Len(p) + 1 \in SeenAt(q, Scoped) <=> (f.kind \in Scoped /\ SeenTo(p, Len(p)))
  BY <1>1, <1>2 DEF SeenAt, At, Scoped
<1>5. ASSUME NEW n \in 0..Len(p)
      PROVE  Depth(q, n) = Depth(p, n)
  <2>1. n \in Nat /\ \A m \in 1..n : m \in 1..Len(p)
    BY <1>1
  <2> DEFINE I == SeenAt(q, Scoped)
             J == SeenAt(p, Scoped)
  <2>2. \A m \in 1..n : m \in I <=> m \in J
    BY <2>1, <1>3
  <2> HIDE DEF I, J
  <2>3. InOrder(I, n) = InOrder(J, n)
    BY <2>1, <2>2, InOrderSame
  <2> QED BY <2>3 DEF Depth, I, J
<1>6. Depth(q, Len(p) + 1) = IF Len(p) + 1 \in SeenAt(q, Scoped) THEN Depth(q, Len(p)) + 1
                             ELSE Depth(q, Len(p))
  BY <1>1, DepthSteps
<1>7. Depth(q, Len(p)) = Depth(p, Len(p))
  BY <1>1, <1>5
<1> QED BY <1>4, <1>5, <1>6, <1>7 DEF q

LEMMA PrefixSame ==
  ASSUME NEW S, NEW s \in Seq(S), NEW t \in Seq(S), NEW k \in Nat, k <= Len(s), k <= Len(t),
         \A i \in 1..k : s[i] = t[i]
  PROVE  SubSeq(s, 1, k) = SubSeq(t, 1, k)
<1>1. /\ k \in Int /\ 1 \in Int
      /\ k - 1 + 1 = k
      /\ \A i \in 1..k : s[i] \in S /\ t[i] \in S /\ 1 + i - 1 = i
  OBVIOUS
<1>2. /\ SubSeq(s, 1, k) \in Seq(S)
      /\ Len(SubSeq(s, 1, k)) = IF 1 <= k THEN k-1+1 ELSE 0
      /\ \A i \in 1..k-1+1 : SubSeq(s, 1, k)[i] = s[1+i-1]
  BY <1>1, SubSeqProperties
<1>3. /\ SubSeq(t, 1, k) \in Seq(S)
      /\ Len(SubSeq(t, 1, k)) = IF 1 <= k THEN k-1+1 ELSE 0
      /\ \A i \in 1..k-1+1 : SubSeq(t, 1, k)[i] = t[1+i-1]
  BY <1>1, SubSeqProperties
<1> DEFINE a == SubSeq(s, 1, k)
           b == SubSeq(t, 1, k)
<1>4. /\ a \in Seq(S) /\ b \in Seq(S) /\ Len(a) = k /\ Len(b) = k
      /\ \A i \in 1..k : a[i] = b[i]
  BY <1>1, <1>2, <1>3
<1> HIDE DEF a, b
<1>5. a = b
  BY <1>4, SeqEqual
<1> QED BY <1>5 DEF a, b

\* The locals of the first n frames are the same for two paths that begin with
\* these frames.
LEMMA LiveSame ==
  ASSUME NEW p, NEW q, NEW ds \in Seq(Locals), NEW n \in Nat,
         \A i \in 1..n : p[i] = q[i]
  PROVE  LiveTo(p, ds, n) = LiveTo(q, ds, n)
<1>1. \A i \in DOMAIN ds : ds[i].depth \in Nat /\ ds[i].depth # 0
  <2>1. \A d \in Locals : d.depth \in Nat /\ d.depth # 0
    BY DEF Locals
  <2>2. \A i \in DOMAIN ds : ds[i] \in Locals
    OBVIOUS
  <2> QED BY <2>1, <2>2
<1> QED BY <1>1 DEF LiveTo

LocalFrames == [at : Nat, kind : {"Lock", "SmartPtr", "Other", "none"}]

\* The first n frames and their scopes are all that counts for their locals.
LEMMA ScopesToSame ==
  ASSUME NEW p \in Seq(Frames), NEW f \in Frames, NEW ds \in Seq(Locals),
         NEW ss \in Seq(Seq(LocalFrames)), NEW tt \in Seq(Seq(LocalFrames)),
         Depth(p, Len(p)) <= Len(ss), Depth(p, Len(p)) <= Len(tt),
         \A i \in 1..Depth(p, Len(p)) : ss[i] = tt[i],
         NEW n \in 0..Len(p)
  PROVE  ScopesTo(Append(p, f), tt, ds, n) <=> ScopesTo(p, ss, ds, n)
<1> DEFINE q == Append(p, f)
           k == Depth(p, n)
<1>1. /\ Len(p) \in Nat /\ n \in Nat /\ n <= Len(p)
      /\ \A i \in 1..n : p[i] = q[i]
  OBVIOUS
<1>2. Depth(q, n) = k
  BY DepthAppend
<1>3. k \in Nat /\ k <= Depth(p, Len(p)) /\ Depth(p, Len(p)) \in Nat
  BY <1>1, DepthSteps, DepthGrows
<1> HIDE DEF k
<1>4. SubSeq(ss, 1, k) = SubSeq(tt, 1, k)
  <2> DEFINE S == Seq(LocalFrames)
  <2>1. ss \in Seq(S) /\ tt \in Seq(S)
    OBVIOUS
  <2>2. /\ k <= Len(ss) /\ k <= Len(tt)
        /\ \A i \in 1..k : ss[i] = tt[i]
    BY <1>3
  <2> HIDE DEF S
  <2> QED BY <1>3, <2>1, <2>2, PrefixSame
<1>5. LiveTo(p, ds, n) = LiveTo(q, ds, n)
  <2> HIDE DEF q
  <2> QED BY <1>1, LiveSame
<1> QED BY <1>2, <1>4, <1>5 DEF ScopesTo, k

LEMMA ScopeOpened ==
  ASSUME NEW p \in Seq(Frames), NEW f \in Frames, NEW ds \in Seq(Locals),
         NEW ss \in Seq(Seq(LocalFrames)),
         ScopesFollow(p, ss, ds), Fresh(f, ds, Len(p) + 1)
  PROVE  ScopesFollow(Append(p, f),
                      IF f.kind \in Scoped /\ SeenTo(p, Len(p)) THEN Append(ss, << >>) ELSE ss, ds)
<1> DEFINE q  == Append(p, f)
           tt == IF f.kind \in Scoped /\ SeenTo(p, Len(p)) THEN Append(ss, << >>) ELSE ss
<1>1. /\ Len(p) \in Nat /\ Len(q) = Len(p) + 1 /\ q \in Seq(Frames)
      /\ \A i \in 1..Len(p) : p[i] = q[i]
      /\ q[Len(p) + 1] = f
  OBVIOUS
<1>2. /\ tt \in Seq(Seq(LocalFrames))
      /\ Len(ss) \in Nat /\ Len(ss) <= Len(tt)
      /\ \A i \in 1..Len(ss) : ss[i] = tt[i]
      /\ Len(tt) = IF f.kind \in Scoped /\ SeenTo(p, Len(p)) THEN Len(ss) + 1 ELSE Len(ss)
  <2>1. << >> \in Seq(LocalFrames)
    OBVIOUS
  <2> DEFINE S == Seq(LocalFrames)
             e == << >>
  <2>2. ss \in Seq(S) /\ e \in S
    BY <2>1
  <2> HIDE DEF S, e
  <2>3. /\ Append(ss, e) \in Seq(S) /\ Len(Append(ss, e)) = Len(ss) + 1 /\ Len(ss) \in Nat
        /\ \A i \in 1..Len(ss) : ss[i] = Append(ss, e)[i]
    BY <2>2
  <2> QED BY <2>2, <2>3 DEF S, e
<1>3. Len(ss) = Depth(p, Len(p))
  BY DEF ScopesFollow
<1>4. Len(tt) = Depth(q, Len(q))
  BY <1>1, <1>2, <1>3, DepthAppend
<1> HIDE DEF tt
<1>5. \A n \in 0..Len(p) : ScopesTo(q, tt, ds, n) <=> ScopesTo(p, ss, ds, n)
  <2>1. /\ Depth(p, Len(p)) <= Len(ss) /\ Depth(p, Len(p)) <= Len(tt)
        /\ \A i \in 1..Depth(p, Len(p)) : ss[i] = tt[i]
        /\ tt \in Seq(Seq(LocalFrames))
    BY <1>2, <1>3
  <2> QED BY <2>1, ScopesToSame, Zenon
<1>6. \A n \in 0..Len(p) : SeenTo(q, n) <=> SeenTo(p, n)
  BY SeenToAppend
<1>7. ASSUME SeenTo(q, Len(p) + 1)
      PROVE  ScopesTo(q, tt, ds, Len(p) + 1)
  <2>1. SeenTo(p, Len(p))
    BY <1>7, SeenToAppend
  <2>2. FlattenSeq(SubSeq(ss, 1, Len(ss))) = LocalEntries(Listed(ds, LiveTo(p, ds, Len(p))))
    BY <1>1, <1>3, <2>1 DEF ScopesFollow, ScopesTo
  <2>3. SubSeq(ss, 1, Len(ss)) = ss /\ SubSeq(tt, 1, Len(tt)) = tt
    BY <1>2, SubSeqFull
  <2>4. FlattenSeq(tt) = FlattenSeq(ss)
    <3>1. FlattenSeq(Append(ss, << >>)) = FlattenSeq(ss) \o << >>
      <4>1. << >> \in Seq(LocalFrames)
        OBVIOUS
      <4> QED BY <4>1, FlattenAppend
    <3>2. FlattenSeq(ss) \in Seq(LocalFrames)
      BY FlattenType
    <3>3. FlattenSeq(ss) \o << >> = FlattenSeq(ss)
      BY <3>2
    <3> QED BY <3>1, <3>3 DEF tt
  <2>5. LiveTo(q, ds, Len(p) + 1) = LiveTo(p, ds, Len(p))
    <3>1. \A i \in DOMAIN ds : ds[i].depth \in Nat /\ ds[i].depth # 0
      <4>1. \A d \in Locals : d.depth \in Nat /\ d.depth # 0
        BY DEF Locals
      <4>2. \A i \in DOMAIN ds : ds[i] \in Locals
        OBVIOUS
      <4> QED BY <4>1, <4>2
    <3> HIDE DEF q
    <3> QED BY <3>1, <1>1 DEF LiveTo, Fresh
  <2> QED BY <1>1, <1>4, <2>2, <2>3, <2>4, <2>5 DEF ScopesTo
<1>8. \A n \in 0..Len(q) : SeenTo(q, n) => ScopesTo(q, tt, ds, n)
  <2>1. SUFFICES ASSUME NEW n \in 0..Len(q), SeenTo(q, n) PROVE ScopesTo(q, tt, ds, n)
    OBVIOUS
  <2> HIDE DEF q
  <2>2. CASE n = Len(p) + 1
    BY <2>1, <2>2, <1>7
  <2>3. CASE n # Len(p) + 1
    <3>1. n \in 0..Len(p)
      BY <2>3, <1>1
    <3>2. SeenTo(p, n)
      BY <2>1, <3>1, <1>6
    <3> QED BY <3>1, <3>2, <1>5 DEF ScopesFollow
  <2> QED BY <2>2, <2>3
<1>9. ScopesFollow(q, tt, ds)
  BY <1>4, <1>8 DEF ScopesFollow
<1> QED BY <1>9 DEF tt

LEMMA ScopeClosed ==
  ASSUME NEW p \in Seq(Frames), NEW f \in Frames, NEW ds \in Seq(Locals),
         NEW tt \in Seq(Seq(LocalFrames)),
         ScopesFollow(Append(p, f), tt, ds)
  PROVE  /\ f.kind \in Scoped /\ SeenTo(p, Len(p)) => tt # << >>
         /\ ScopesFollow(p, IF f.kind \in Scoped /\ SeenTo(p, Len(p)) THEN Front(tt) ELSE tt, ds)
<1> DEFINE q  == Append(p, f)
           ss == IF f.kind \in Scoped /\ SeenTo(p, Len(p)) THEN Front(tt) ELSE tt
<1>1. /\ Len(p) \in Nat /\ Len(q) = Len(p) + 1 /\ q \in Seq(Frames)
  OBVIOUS
<1>2. Len(tt) = Depth(q, Len(p) + 1)
  BY <1>1 DEF ScopesFollow
<1>3. /\ Depth(q, Len(p) + 1) = IF f.kind \in Scoped /\ SeenTo(p, Len(p)) THEN Depth(p, Len(p)) + 1
                                ELSE Depth(p, Len(p))
      /\ Depth(p, Len(p)) \in Nat
  BY <1>1, DepthAppend, DepthSteps
<1>4. f.kind \in Scoped /\ SeenTo(p, Len(p)) => tt # << >>
  BY <1>2, <1>3
<1>5. /\ ss \in Seq(Seq(LocalFrames))
      /\ Len(ss) = Depth(p, Len(p)) /\ Len(ss) <= Len(tt)
      /\ \A i \in 1..Len(ss) : ss[i] = tt[i]
  <2> DEFINE S == Seq(LocalFrames)
  <2>1. tt \in Seq(S)
    OBVIOUS
  <2> HIDE DEF S
  <2>2. CASE f.kind \in Scoped /\ SeenTo(p, Len(p))
    <3>1. /\ Front(tt) \in Seq(S) /\ Last(tt) \in S
          /\ tt = Append(Front(tt), Last(tt))
          /\ Len(Front(tt)) = Len(tt) - 1
      BY <1>4, <2>1, <2>2, FrontLast
    <3> DEFINE a == Front(tt)
               b == Last(tt)
    <3>2. a \in Seq(S) /\ b \in S /\ tt = Append(a, b) /\ Len(a) = Len(tt) - 1 /\ ss = a
      BY <3>1, <2>2
    <3> HIDE DEF a, b, ss
    <3>3. \A i \in 1..Len(a) : a[i] = tt[i]
      BY <3>2
    <3> QED BY <3>2, <3>3, <1>2, <1>3, <2>2 DEF S
  <2>3. CASE ~ (f.kind \in Scoped /\ SeenTo(p, Len(p)))
    BY <1>2, <1>3, <2>1, <2>3 DEF S
  <2> QED BY <2>2, <2>3
<1> HIDE DEF ss
<1>6. \A n \in 0..Len(p) : ScopesTo(q, tt, ds, n) <=> ScopesTo(p, ss, ds, n)
  <2>1. /\ Depth(p, Len(p)) <= Len(ss) /\ Depth(p, Len(p)) <= Len(tt)
        /\ \A i \in 1..Depth(p, Len(p)) : ss[i] = tt[i]
        /\ ss \in Seq(Seq(LocalFrames))
    BY <1>5, <1>3
  <2> QED BY <2>1, ScopesToSame, Zenon
<1>7. \A n \in 0..Len(p) : SeenTo(q, n) <=> SeenTo(p, n)
  BY SeenToAppend
<1>8. \A n \in 0..Len(p) : SeenTo(p, n) => ScopesTo(p, ss, ds, n)
  <2>1. \A n \in 0..Len(p) : n \in 0..Len(q)
    BY <1>1
  <2> HIDE DEF q
  <2> QED BY <2>1, <1>6, <1>7 DEF ScopesFollow, q
<1>9. ScopesFollow(p, ss, ds)
  BY <1>5, <1>8 DEF ScopesFollow
<1> QED BY <1>4, <1>9 DEF ss

\* A frame that becomes another one, when neither has a scope.
LEMMA ScopeKept ==
  ASSUME NEW p \in Seq(Frames), NEW f \in Frames, NEW g \in Frames, NEW ds \in Seq(Locals),
         NEW ss \in Seq(Seq(LocalFrames)), f.kind \notin Scoped, g.kind \notin Scoped,
         ScopesFollow(Append(p, f), ss, ds)
  PROVE  ScopesFollow(Append(p, g), ss, ds)
<1>1. ScopesFollow(p, ss, ds)
  BY ScopeClosed
<1>2. Fresh(g, ds, Len(p) + 1)
  <2>1. \A d \in Locals : d.block.kind \in Scoped
    BY DEF Locals
  <2>2. \A i \in DOMAIN ds : ds[i] \in Locals
    OBVIOUS
  <2> QED BY <2>1, <2>2 DEF Fresh
<1>3. ScopesFollow(Append(p, g), IF g.kind \in Scoped /\ SeenTo(p, Len(p)) THEN Append(ss, << >>) ELSE ss, ds)
  BY <1>1, <1>2, ScopeOpened
<1> QED BY <1>3

LEMMA LocalAdded ==
  ASSUME NEW p \in Seq(Frames), NEW f \in Frames, f.kind \in Scoped, NEW ds \in Seq(Locals),
         NEW ss \in Seq(Seq(LocalFrames)), ScopesFollow(Append(p, f), ss, ds),
         NEW d \in Locals, d.depth = Len(p) + 1, d.block = f, NEW e \in LocalFrames,
         e = [at |-> d.at, kind |-> ClassifyRaiiType(d.type)]
  PROVE  ScopesFollow(Append(p, f), IF SeenTo(p, Len(p)) THEN AddToInnermost(ss, e) ELSE ss,
                      Append(ds, d))
<1> DEFINE q  == Append(p, f)
           tt == IF SeenTo(p, Len(p)) THEN AddToInnermost(ss, e) ELSE ss
           dt == Append(ds, d)
<1>1. /\ Len(p) \in Nat /\ Len(q) = Len(p) + 1 /\ q \in Seq(Frames)
      /\ q[Len(p) + 1] = f
      /\ Len(ds) \in Nat /\ DOMAIN ds = 1..Len(ds) /\ DOMAIN dt = 1..Len(ds)+1
      /\ \A i \in 1..Len(ds) : dt[i] = ds[i]
      /\ dt[Len(ds) + 1] = d
  OBVIOUS
<1>2. /\ Len(ss) = Depth(q, Len(p) + 1)
      /\ \A n \in 0..Len(p)+1 : SeenTo(q, n) => ScopesTo(q, ss, ds, n)
  BY <1>1 DEF ScopesFollow
<1>3. /\ Depth(q, Len(p) + 1) = IF SeenTo(p, Len(p)) THEN Depth(p, Len(p)) + 1 ELSE Depth(p, Len(p))
      /\ Depth(p, Len(p)) \in Nat
      /\ \A n \in 0..Len(p) : Depth(q, n) = Depth(p, n) /\ Depth(p, n) \in Nat /\ Depth(p, n) <= Depth(p, Len(p))
  <2>1. \A n \in 0..Len(p) : Depth(q, n) = Depth(p, n)
    BY DepthAppend
  <2>2. \A n \in 0..Len(p) : n \in Nat /\ n <= Len(p)
    BY <1>1
  <2>3. \A n \in 0..Len(p) : Depth(p, n) \in Nat /\ Depth(p, n) <= Depth(p, Len(p))
    BY <2>2, <1>1, DepthSteps, DepthGrows
  <2>4. Depth(p, Len(p)) \in Nat
    BY <1>1, DepthSteps
  <2>5. Depth(q, Len(p) + 1) = IF SeenTo(p, Len(p)) THEN Depth(p, Len(p)) + 1 ELSE Depth(p, Len(p))
    BY DepthAppend
  <2> QED BY <2>1, <2>3, <2>4, <2>5
<1>4. SeenTo(p, Len(p)) => /\ ss # << >>
                           /\ tt = Append(Front(ss), Append(Last(ss), e))
                           /\ FlattenSeq(tt) = Append(FlattenSeq(ss), e)
  <2>1. SeenTo(p, Len(p)) => ss # << >>
    BY <1>2, <1>3
  <2> QED BY <2>1, FlattenInnermost
<1>5. /\ tt \in Seq(Seq(LocalFrames)) /\ Len(tt) = Len(ss)
      /\ \A i \in 1..Depth(p, Len(p)) : ss[i] = tt[i]
  <2> DEFINE S == Seq(LocalFrames)
  <2>1. CASE SeenTo(p, Len(p))
    <3> DEFINE a == Front(ss)
               b == Last(ss)
               c == Append(b, e)
    <3>1. a \in Seq(S) /\ b \in S /\ ss = Append(a, b) /\ tt = Append(a, c) /\ c \in S
      <4>1. /\ Front(ss) \in Seq(S) /\ Last(ss) \in S
            /\ ss = Append(Front(ss), Last(ss))
        <5> HIDE DEF S
        <5> SUFFICES ss \in Seq(S) /\ ss # << >>
          BY FrontLast
        <5> QED BY <2>1, <1>4 DEF S
      <4>2. Append(Last(ss), e) \in S
        BY <4>1
      <4> QED BY <4>1, <4>2, <2>1, <1>4
    <3> HIDE DEF S, a, b, c, tt
    <3>2. /\ tt \in Seq(S) /\ Len(tt) = Len(ss) /\ Len(ss) = Len(a) + 1
          /\ \A i \in 1..Len(a) : ss[i] = tt[i]
      BY <3>1
    <3>3. Depth(p, Len(p)) = Len(a)
      BY <3>2, <1>2, <1>3, <2>1, <3>1
    <3> QED BY <3>2, <3>3 DEF S
  <2>2. CASE ~ SeenTo(p, Len(p))
    BY <2>2
  <2> QED BY <2>1, <2>2
<1> HIDE DEF tt
<1>6. ASSUME NEW n \in 0..Len(p)+1
      PROVE  /\ n # Len(p) + 1 => Listed(dt, LiveTo(q, dt, n)) = Listed(ds, LiveTo(q, ds, n))
             /\ n = Len(p) + 1 => Listed(dt, LiveTo(q, dt, n)) = Append(Listed(ds, LiveTo(q, ds, n)), d)
  <2> DEFINE I == LiveTo(q, dt, n)
             J == LiveTo(q, ds, n)
  <2> HIDE DEF q
  <2>1. \A m \in 1..Len(ds) : m \in I <=> m \in J
    BY <1>1 DEF LiveTo
  <2>2. Len(ds) + 1 \in I <=> n = Len(p) + 1
    BY <1>1 DEF LiveTo
  <2> HIDE DEF I, J
  <2>3. Listed(dt, I) = IF Len(ds) + 1 \in I THEN Append(Listed(ds, I), d) ELSE Listed(ds, I)
    BY ListedAppend
  <2>4. Listed(ds, I) = Listed(ds, J)
    BY <2>1, ListedSame
  <2> QED BY <2>2, <2>3, <2>4 DEF I, J
<1>7. ASSUME NEW n \in 0..Len(p), SeenTo(q, n)
      PROVE  ScopesTo(q, tt, dt, n)
  <2>1. ScopesTo(q, ss, ds, n)
    BY <1>2, <1>7, <1>1
  <2>2. SubSeq(ss, 1, Depth(q, n)) = SubSeq(tt, 1, Depth(q, n))
    <3> DEFINE S == Seq(LocalFrames)
               k == Depth(q, n)
    <3>1. /\ k \in Nat /\ k <= Len(ss) /\ k <= Len(tt)
          /\ \A i \in 1..k : ss[i] = tt[i]
      BY <1>2, <1>3, <1>5
    <3>2. ss \in Seq(S) /\ tt \in Seq(S)
      BY <1>5
    <3> HIDE DEF S, k
    <3>3. SubSeq(ss, 1, k) = SubSeq(tt, 1, k)
      BY <3>1, <3>2, PrefixSame
    <3> QED BY <3>3 DEF k
  <2>3. Listed(dt, LiveTo(q, dt, n)) = Listed(ds, LiveTo(q, ds, n))
    BY <1>6, <1>1
  <2> QED BY <2>1, <2>2, <2>3 DEF ScopesTo
<1>8. ASSUME SeenTo(q, Len(p) + 1)
      PROVE  ScopesTo(q, tt, dt, Len(p) + 1)
  <2>1. SeenTo(p, Len(p))
    BY <1>8, SeenToAppend
  <2>2. ScopesTo(q, ss, ds, Len(p) + 1)
    BY <1>2, <1>8, <1>1
  <2>3. SubSeq(ss, 1, Len(ss)) = ss /\ SubSeq(tt, 1, Len(tt)) = tt
    BY <1>5, SubSeqFull
  <2>4. FlattenSeq(ss) = LocalEntries(Listed(ds, LiveTo(q, ds, Len(p) + 1)))
    BY <2>2, <2>3, <1>2 DEF ScopesTo
  <2>5. Listed(dt, LiveTo(q, dt, Len(p) + 1)) = Append(Listed(ds, LiveTo(q, ds, Len(p) + 1)), d)
    BY <1>6, <1>1
  <2>6. LocalEntries(Append(Listed(ds, LiveTo(q, ds, Len(p) + 1)), d))
          = Append(LocalEntries(Listed(ds, LiveTo(q, ds, Len(p) + 1))), e)
    <3> DEFINE l == Listed(ds, LiveTo(q, ds, Len(p) + 1))
    <3>1. l \in Seq(Locals)
      BY ListedType
    <3> HIDE DEF l
    <3>2. LocalEntries(Append(l, d)) = Append(LocalEntries(l), e)
      BY <3>1, EntriesAppend
    <3> QED BY <3>2 DEF l
  <2>7. FlattenSeq(tt) = LocalEntries(Listed(dt, LiveTo(q, dt, Len(p) + 1)))
    BY <2>1, <2>4, <2>5, <2>6, <1>4
  <2> QED BY <2>7, <2>3, <1>2, <1>5 DEF ScopesTo
<1>9. \A n \in 0..Len(q) : SeenTo(q, n) => ScopesTo(q, tt, dt, n)
  <2>1. \A n \in 0..Len(q) : n \in 0..Len(p) \/ n = Len(p) + 1
    BY <1>1
  <2> HIDE DEF q, dt
  <2> QED BY <2>1, <1>7, <1>8
<1>10. ScopesFollow(q, tt, dt)
  BY <1>1, <1>2, <1>5, <1>9 DEF ScopesFollow
<1> QED BY <1>10 DEF tt

-----------------------------------------------------------------------------
(* Frames keep their numbers.                                                *)

\* In a walk that has met n nodes: no frame has a later number, each open try
\* has its own, and the handlers met so far, those that hold locals too, had
\* more handlers left than their try has now.
Numbered(p, n, ds) ==
  /\ \A i \in DOMAIN p : p[i].at <= n
  /\ \A i, j \in DOMAIN p :
       p[i].kind = "try" /\ p[j].kind = "try" /\ p[i].at = p[j].at => i = j
  /\ \A i, j \in DOMAIN p :
       p[i].kind = "try" /\ p[j].kind = "handler" /\ p[i].at = p[j].at => p[i].more < p[j].more
  /\ \A k \in DOMAIN ds : ds[k].block.at <= n
  /\ \A i \in DOMAIN p, k \in DOMAIN ds :
       p[i].kind = "try" /\ ds[k].block.kind = "handler" /\ p[i].at = ds[k].block.at
         => p[i].more < ds[k].block.more

LEMMA PathAppend ==
  ASSUME NEW p \in Seq(Frames), NEW f \in Frames
  PROVE  /\ Append(p, f) \in Seq(Frames)
         /\ Len(p) \in Nat /\ Len(Append(p, f)) = Len(p) + 1
         /\ DOMAIN p = 1..Len(p) /\ DOMAIN Append(p, f) = 1..Len(p)+1
         /\ \A i \in 1..Len(p) : Append(p, f)[i] = p[i] /\ p[i] \in Frames
         /\ Append(p, f)[Len(p)+1] = f
         /\ \A i \in 1..Len(p)+1 : i \in 1..Len(p) \/ i = Len(p) + 1
         /\ Append(p, f) # << >> /\ Last(Append(p, f)) = f /\ Front(Append(p, f)) = p
<1>1. Append(p, f) # << >> /\ Last(Append(p, f)) = f /\ Front(Append(p, f)) = p
  BY FrontAppend
<1> QED BY <1>1

LEMMA FrameType ==
  /\ \A f \in Frames : f.kind \in Kinds /\ f.at \in Nat /\ f.more \in Nat
  /\ \A d \in Locals : d.block \in Frames /\ d.block.kind \in Scoped /\ d.at \in Nat
                       /\ d.type \in LocalTypes /\ d.depth \in Nat \ {0}
  BY DEF Frames, Locals

LEMMA NumberedOpened ==
  ASSUME NEW p \in Seq(Frames), NEW f \in Frames, NEW ds \in Seq(Locals),
         NEW n \in Nat, NEW m \in Nat, n <= m,
         Numbered(p, n, ds), f.at <= m, f.kind # "handler", f.kind = "try" => f.at > n
  PROVE  Numbered(Append(p, f), m, ds)
<1> DEFINE q == Append(p, f)
<1>1. /\ DOMAIN p = 1..Len(p) /\ DOMAIN q = 1..Len(p)+1 /\ Len(p) \in Nat
      /\ \A i \in 1..Len(p) : q[i] = p[i] /\ p[i] \in Frames
      /\ q[Len(p)+1] = f
      /\ \A i \in 1..Len(p)+1 : i \in 1..Len(p) \/ i = Len(p) + 1
  BY PathAppend
<1>2. \A g \in Frames : g.at \in Nat /\ g.more \in Nat
  BY FrameType
<1>3. \A k \in DOMAIN ds : ds[k].block \in Frames
  <2>1. \A k \in DOMAIN ds : ds[k] \in Locals
    OBVIOUS
  <2> QED BY <2>1, FrameType
<1> HIDE DEF q
<1>4. \A i \in DOMAIN q : q[i].at <= m
  BY <1>1, <1>2 DEF Numbered
<1>5. \A i, j \in DOMAIN q :
        q[i].kind = "try" /\ q[j].kind = "try" /\ q[i].at = q[j].at => i = j
  BY <1>1, <1>2 DEF Numbered
<1>6. \A i, j \in DOMAIN q :
        q[i].kind = "try" /\ q[j].kind = "handler" /\ q[i].at = q[j].at => q[i].more < q[j].more
  <2>1. \A i, j \in 1..Len(p) : p[i].kind = "try" /\ p[j].kind = "handler" /\ p[i].at = p[j].at
                                  => p[i].more < p[j].more
    BY <1>1 DEF Numbered
  <2>2. \A j \in 1..Len(p) : f.kind = "try" => f.at # p[j].at
    BY <1>1, <1>2 DEF Numbered
  <2> QED BY <1>1, <2>1, <2>2
<1>7. \A k \in DOMAIN ds : ds[k].block.at <= m
  BY <1>2, <1>3 DEF Numbered
<1>8. \A i \in DOMAIN q, k \in DOMAIN ds :
        q[i].kind = "try" /\ ds[k].block.kind = "handler" /\ q[i].at = ds[k].block.at
          => q[i].more < ds[k].block.more
  <2>1. \A i \in 1..Len(p), k \in DOMAIN ds :
          p[i].kind = "try" /\ ds[k].block.kind = "handler" /\ p[i].at = ds[k].block.at
            => p[i].more < ds[k].block.more
    BY <1>1 DEF Numbered
  <2>2. \A k \in DOMAIN ds : f.kind = "try" => f.at # ds[k].block.at
    BY <1>2, <1>3 DEF Numbered
  <2> QED BY <1>1, <2>1, <2>2
<1> QED BY <1>4, <1>5, <1>6, <1>7, <1>8 DEF Numbered, q

LEMMA NumberedClosed ==
  ASSUME NEW p \in Seq(Frames), NEW f \in Frames, NEW ds, NEW n, Numbered(Append(p, f), n, ds)
  PROVE  Numbered(p, n, ds)
<1> DEFINE q == Append(p, f)
<1>1. /\ DOMAIN p = 1..Len(p) /\ DOMAIN q = 1..Len(p)+1 /\ Len(p) \in Nat
      /\ \A i \in 1..Len(p) : q[i] = p[i]
      /\ \A i \in 1..Len(p) : i \in 1..Len(p)+1
  BY PathAppend
<1> HIDE DEF q
<1>2. Numbered(q, n, ds)
  BY DEF q
<1> QED BY <1>1, <1>2 DEF Numbered

LEMMA NumberedHandler ==
  ASSUME NEW p \in Seq(Frames), NEW f \in Frames, NEW g \in Frames, NEW h \in Frames,
         NEW ds \in Seq(Locals), NEW n \in Nat, Numbered(Append(p, f), n, ds),
         f.kind = "try", g.kind = "try", g.at = f.at, g.more < f.more,
         h.kind = "handler", h.at = f.at, h.more = f.more
  PROVE  /\ Numbered(Append(Append(p, g), h), n, ds)
         /\ \A k : Fresh(h, ds, k)
<1> DEFINE q == Append(p, f)
           s == Append(p, g)
           t == Append(s, h)
<1>1. /\ DOMAIN p = 1..Len(p) /\ DOMAIN q = 1..Len(p)+1 /\ Len(p) \in Nat
      /\ \A i \in 1..Len(p) : q[i] = p[i] /\ p[i] \in Frames
      /\ q[Len(p)+1] = f
      /\ \A i \in 1..Len(p) : i \in DOMAIN q
  BY PathAppend
<1>2. /\ DOMAIN t = 1..Len(p)+2
      /\ \A i \in 1..Len(p) : t[i] = p[i]
      /\ t[Len(p)+1] = g /\ t[Len(p)+2] = h
      /\ \A i \in 1..Len(p)+2 : i \in 1..Len(p) \/ i = Len(p) + 1 \/ i = Len(p) + 2
  <2>1. /\ s \in Seq(Frames) /\ Len(s) = Len(p) + 1 /\ Len(p) \in Nat
        /\ \A i \in 1..Len(p) : s[i] = p[i]
        /\ s[Len(p)+1] = g
    BY PathAppend
  <2> HIDE DEF s
  <2>2. /\ DOMAIN t = 1..Len(s)+1
        /\ \A i \in 1..Len(s) : t[i] = s[i]
        /\ t[Len(s)+1] = h
    BY <2>1, PathAppend
  <2> HIDE DEF t
  <2>3. DOMAIN t = 1..Len(p)+2 /\ t[Len(p)+2] = h
    BY <2>1, <2>2
  <2>4. \A i \in 1..Len(p) : t[i] = p[i]
    BY <2>1, <2>2
  <2>5. t[Len(p)+1] = g
    BY <2>1, <2>2
  <2> QED BY <2>1, <2>3, <2>4, <2>5
<1>3. \A e \in Frames : e.at \in Nat /\ e.more \in Nat
  BY FrameType
<1>4. \A k \in DOMAIN ds : ds[k].block \in Frames
  <2>1. \A k \in DOMAIN ds : ds[k] \in Locals
    OBVIOUS
  <2> QED BY <2>1, FrameType
<1> HIDE DEF q, s, t
<1>5. Numbered(q, n, ds)
  BY DEF q
<1>6. \A i \in DOMAIN t : t[i].at <= n
  BY <1>1, <1>2, <1>3, <1>5 DEF Numbered
<1>7. \A i, j \in DOMAIN t :
        t[i].kind = "try" /\ t[j].kind = "try" /\ t[i].at = t[j].at => i = j
  <2>1. \A i \in 1..Len(p) : p[i].kind = "try" => p[i].at # f.at
    BY <1>1, <1>5 DEF Numbered
  <2>2. \A i, j \in 1..Len(p) : p[i].kind = "try" /\ p[j].kind = "try" /\ p[i].at = p[j].at => i = j
    BY <1>1, <1>5 DEF Numbered
  <2> QED BY <1>2, <2>1, <2>2, SMTT(20)
<1>8. \A i, j \in DOMAIN t :
        t[i].kind = "try" /\ t[j].kind = "handler" /\ t[i].at = t[j].at => t[i].more < t[j].more
  <2>1. \A i \in 1..Len(p) : p[i].kind = "try" => p[i].at # f.at
    BY <1>1, <1>5 DEF Numbered
  <2>2. \A i, j \in 1..Len(p) : p[i].kind = "try" /\ p[j].kind = "handler" /\ p[i].at = p[j].at
                                  => p[i].more < p[j].more
    BY <1>1, <1>5 DEF Numbered
  <2>3. \A j \in 1..Len(p) : p[j].kind = "handler" /\ p[j].at = g.at => g.more < p[j].more
    <3>1. \A j \in 1..Len(p) : p[j].kind = "handler" /\ p[j].at = f.at => f.more < p[j].more
      BY <1>1, <1>5 DEF Numbered
    <3>2. SUFFICES ASSUME NEW j \in 1..Len(p), p[j].kind = "handler", p[j].at = g.at
                   PROVE  g.more < p[j].more
      OBVIOUS
    <3>3. f.more < p[j].more
      BY <3>1, <3>2
    <3>4. f.more \in Nat /\ g.more \in Nat /\ p[j].more \in Nat
      BY <1>1, <1>3
    <3> QED BY <3>3, <3>4
  <2>4. SUFFICES ASSUME NEW i \in DOMAIN t, NEW j \in DOMAIN t,
                        t[i].kind = "try", t[j].kind = "handler", t[i].at = t[j].at
                 PROVE  t[i].more < t[j].more
    BY Zenon
  <2>5. i \in 1..Len(p) \/ i = Len(p) + 1
    BY <1>2, <2>4
  <2>6. j \in 1..Len(p) \/ j = Len(p) + 2
    BY <1>2, <2>4
  <2>7. CASE i \in 1..Len(p) /\ j \in 1..Len(p)
    BY <1>2, <2>2, <2>4, <2>7
  <2>8. CASE i \in 1..Len(p) /\ j = Len(p) + 2
    BY <1>2, <2>1, <2>4, <2>8
  <2>9. CASE i = Len(p) + 1 /\ j \in 1..Len(p)
    BY <1>2, <2>3, <2>4, <2>9
  <2>10. CASE i = Len(p) + 1 /\ j = Len(p) + 2
    BY <1>2, <2>10
  <2> QED BY <2>5, <2>6, <2>7, <2>8, <2>9, <2>10
<1>9. \A k \in DOMAIN ds : ds[k].block.at <= n
  BY <1>5 DEF Numbered
<1>10. \A k \in DOMAIN ds : ds[k].block.kind = "handler" /\ f.at = ds[k].block.at => f.more < ds[k].block.more
  BY <1>1, <1>5 DEF Numbered
<1>11. \A i \in DOMAIN t, k \in DOMAIN ds :
         t[i].kind = "try" /\ ds[k].block.kind = "handler" /\ t[i].at = ds[k].block.at
           => t[i].more < ds[k].block.more
  <2>1. \A i \in 1..Len(p), k \in DOMAIN ds :
          p[i].kind = "try" /\ ds[k].block.kind = "handler" /\ p[i].at = ds[k].block.at
            => p[i].more < ds[k].block.more
    BY <1>1, <1>5 DEF Numbered
  <2>2. \A k \in DOMAIN ds : ds[k].block.kind = "handler" /\ g.at = ds[k].block.at => g.more < ds[k].block.more
    BY <1>10, <1>3, <1>4
  <2> QED BY <1>2, <2>1, <2>2
<1>12. \A k : Fresh(h, ds, k)
  BY <1>3, <1>10 DEF Fresh
<1> QED BY <1>6, <1>7, <1>8, <1>9, <1>11, <1>12 DEF Numbered, t, s

LEMMA NumberedLocal ==
  ASSUME NEW p \in Seq(Frames), NEW f \in Frames, NEW ds \in Seq(Locals), NEW d \in Locals,
         NEW n \in Nat, Numbered(Append(p, f), n, ds), d.block = f
  PROVE  Numbered(Append(p, f), n + 1, Append(ds, d))
<1> DEFINE q  == Append(p, f)
           dt == Append(ds, d)
<1>1. /\ DOMAIN q = 1..Len(p)+1 /\ Len(p) \in Nat
      /\ \A i \in DOMAIN q : q[i] \in Frames
      /\ q[Len(p)+1] = f
  BY PathAppend
<1>2. /\ DOMAIN ds = 1..Len(ds) /\ DOMAIN dt = 1..Len(ds)+1 /\ Len(ds) \in Nat
      /\ \A k \in 1..Len(ds) : dt[k] = ds[k]
      /\ dt[Len(ds)+1] = d
      /\ \A k \in 1..Len(ds)+1 : k \in 1..Len(ds) \/ k = Len(ds) + 1
      /\ \A k \in 1..Len(ds) : ds[k] \in Locals
  OBVIOUS
<1>3. \A e \in Frames : e.at \in Nat /\ e.more \in Nat
  BY FrameType
<1>4. \A k \in DOMAIN ds : ds[k].block \in Frames
  BY <1>2, FrameType
<1> HIDE DEF q, dt
<1>5. Numbered(q, n, ds)
  BY DEF q
<1>6. \A i \in DOMAIN q : q[i].at <= n + 1
  BY <1>1, <1>3, <1>5 DEF Numbered
<1>7. \A k \in DOMAIN dt : dt[k].block.at <= n + 1
  <2>1. f.at <= n
    BY <1>1, <1>5 DEF Numbered
  <2>2. \A k \in DOMAIN ds : ds[k].block.at <= n
    BY <1>5 DEF Numbered
  <2> QED BY <2>1, <2>2, <1>2, <1>3, <1>4
<1>8. \A i \in DOMAIN q, k \in DOMAIN dt :
        q[i].kind = "try" /\ dt[k].block.kind = "handler" /\ q[i].at = dt[k].block.at
          => q[i].more < dt[k].block.more
  <2>1. \A i \in DOMAIN q : q[i].kind = "try" /\ f.kind = "handler" /\ q[i].at = f.at => q[i].more < f.more
    BY <1>1, <1>5 DEF Numbered
  <2>2. \A i \in DOMAIN q, k \in DOMAIN ds :
          q[i].kind = "try" /\ ds[k].block.kind = "handler" /\ q[i].at = ds[k].block.at
            => q[i].more < ds[k].block.more
    BY <1>5 DEF Numbered
  <2> QED BY <2>1, <2>2, <1>2
<1>9. /\ \A i, j \in DOMAIN q :
           q[i].kind = "try" /\ q[j].kind = "try" /\ q[i].at = q[j].at => i = j
      /\ \A i, j \in DOMAIN q :
           q[i].kind = "try" /\ q[j].kind = "handler" /\ q[i].at = q[j].at => q[i].more < q[j].more
  BY <1>5 DEF Numbered
<1> QED BY <1>6, <1>7, <1>8, <1>9 DEF Numbered, q, dt

-----------------------------------------------------------------------------
(* The invariant of the walk, and how it passes on when a frame is opened or *)
(* closed.                                                                   *)

PushedFun(s, f)         == IF f.kind \in {"function", "lambda"}
                           THEN Append(s, [at |-> f.at, lambda |-> f.kind = "lambda"]) ELSE s
PushedCfFun(s, f, seen) == IF f.kind = "function" /\ seen
                           THEN Append(s, [at |-> f.at, lambda |-> FALSE]) ELSE s
PushedTry(s, f, seen)   == IF f.kind = "try" /\ seen
                           THEN Append(s, [at |-> f.at, depth |-> Len(s)]) ELSE s
PushedGuard(s, f, seen) == IF f.kind \in {"then", "else"} /\ seen
                           THEN Append(s, [at |-> f.at, true |-> f.kind = "then"]) ELSE s
PushedScope(s, f, seen) == IF f.kind \in Scoped /\ seen THEN Append(s, << >>) ELSE s

PoppedIf(s, c) == IF c THEN Front(s) ELSE s

Walks(p, n, fs, cf, ts, gs, ss, ds) ==
  /\ p \in Seq(Frames) /\ n \in Nat /\ ss \in Seq(Seq(LocalFrames)) /\ ds \in Seq(Locals)
  /\ fs = Functions(p) /\ cf = SeenFunctions(p) /\ ts = SeenTries(p) /\ gs = SeenBranches(p)
  /\ ScopesFollow(p, ss, ds)
  /\ Numbered(p, n, ds)

\* What is open, and nothing else, is on the stacks of every visitor.
Walk == Walks(path, nodes, funcStack, cfFuncStack, tryScopeStack, guardStack, scopeStack, declared)

LEMMA FollowOpened ==
  ASSUME NEW n, NEW fs, NEW cf, NEW ts, NEW gs, NEW ss, NEW ds,
         NEW p \in Seq(Frames), NEW f \in Frames,
         Walks(p, n, fs, cf, ts, gs, ss, ds), Fresh(f, ds, Len(p) + 1),
         NEW m \in Nat, Numbered(Append(p, f), m, ds)
  PROVE  Walks(Append(p, f), m, PushedFun(fs, f), PushedCfFun(cf, f, SeenTo(p, Len(p))),
               PushedTry(ts, f, SeenTo(p, Len(p))), PushedGuard(gs, f, SeenTo(p, Len(p))),
               PushedScope(ss, f, SeenTo(p, Len(p))), ds)
<1> DEFINE q == Append(p, f)
           seen == SeenTo(p, Len(p))
<1>1. /\ ss \in Seq(Seq(LocalFrames)) /\ ds \in Seq(Locals) /\ ScopesFollow(p, ss, ds)
      /\ fs = Functions(p) /\ cf = SeenFunctions(p) /\ ts = SeenTries(p) /\ gs = SeenBranches(p)
  BY DEF Walks
<1>2. q \in Seq(Frames)
  OBVIOUS
<1>3. ScopesFollow(q, PushedScope(ss, f, seen), ds)
  BY <1>1, ScopeOpened DEF PushedScope
<1>4. PushedScope(ss, f, seen) \in Seq(Seq(LocalFrames))
  <2>1. << >> \in Seq(LocalFrames)
    OBVIOUS
  <2> DEFINE S == Seq(LocalFrames)
             e == << >>
  <2>2. ss \in Seq(S) /\ e \in S
    BY <2>1, <1>1
  <2> HIDE DEF S, e
  <2>3. Append(ss, e) \in Seq(S)
    BY <2>2
  <2> QED BY <2>2, <2>3 DEF S, e, PushedScope
<1> HIDE DEF q
<1>5. /\ PushedFun(fs, f) = Functions(q) /\ PushedCfFun(cf, f, seen) = SeenFunctions(q)
      /\ PushedTry(ts, f, seen) = SeenTries(q) /\ PushedGuard(gs, f, seen) = SeenBranches(q)
  BY <1>1, StackSteps DEF PushedFun, PushedCfFun, PushedTry, PushedGuard, q
<1> QED BY <1>1, <1>2, <1>3, <1>4, <1>5 DEF Walks, q

LEMMA WalksOpened ==
  ASSUME NEW n, NEW fs, NEW cf, NEW ts, NEW gs, NEW ss, NEW ds,
         NEW p \in Seq(Frames), NEW f \in Frames,
         Walks(p, n, fs, cf, ts, gs, ss, ds), Fresh(f, ds, Len(p) + 1),
         NEW m \in Nat, n <= m, f.at <= m, f.kind # "handler", f.kind = "try" => f.at > n
  PROVE  Walks(Append(p, f), m, PushedFun(fs, f), PushedCfFun(cf, f, SeenTo(p, Len(p))),
               PushedTry(ts, f, SeenTo(p, Len(p))), PushedGuard(gs, f, SeenTo(p, Len(p))),
               PushedScope(ss, f, SeenTo(p, Len(p))), ds)
<1>1. n \in Nat /\ ds \in Seq(Locals) /\ Numbered(p, n, ds)
  BY DEF Walks
<1>2. Numbered(Append(p, f), m, ds)
  BY <1>1, NumberedOpened
<1> QED BY <1>2, FollowOpened

LEMMA WalksClosed ==
  ASSUME NEW n, NEW fs, NEW cf, NEW ts, NEW gs, NEW ss, NEW ds,
         NEW p \in Seq(Frames), NEW f \in Frames,
         Walks(Append(p, f), n, fs, cf, ts, gs, ss, ds)
  PROVE  Walks(p, n, PoppedIf(fs, f.kind \in {"function", "lambda"}),
               PoppedIf(cf, f.kind = "function" /\ SeenTo(p, Len(p))),
               PoppedIf(ts, f.kind = "try" /\ SeenTo(p, Len(p))),
               PoppedIf(gs, f.kind \in {"then", "else"} /\ SeenTo(p, Len(p))),
               PoppedIf(ss, f.kind \in Scoped /\ SeenTo(p, Len(p))), ds)
<1> DEFINE q == Append(p, f)
           seen == SeenTo(p, Len(p))
<1>1. /\ ss \in Seq(Seq(LocalFrames)) /\ ds \in Seq(Locals) /\ ScopesFollow(q, ss, ds)
      /\ fs = Functions(q) /\ cf = SeenFunctions(q) /\ ts = SeenTries(q) /\ gs = SeenBranches(q)
      /\ n \in Nat /\ Numbered(q, n, ds)
  BY DEF Walks
<1>2. /\ f.kind \in Scoped /\ seen => ss # << >>
      /\ ScopesFollow(p, PoppedIf(ss, f.kind \in Scoped /\ seen), ds)
  BY <1>1, ScopeClosed DEF PoppedIf
<1>3. PoppedIf(ss, f.kind \in Scoped /\ seen) \in Seq(Seq(LocalFrames))
  <2> DEFINE S == Seq(LocalFrames)
  <2>1. ss \in Seq(S)
    BY <1>1
  <2> HIDE DEF S
  <2>2. ss # << >> => Front(ss) \in Seq(S)
    BY <2>1, FrontLast
  <2> QED BY <2>1, <2>2, <1>2 DEF S, PoppedIf
<1>4. Numbered(p, n, ds)
  BY <1>1, NumberedClosed
<1>5. f.at \in Nat
  BY FrameType
<1>6. PoppedIf(fs, f.kind \in {"function", "lambda"}) = Functions(p)
  <2>1. Functions(p) \in Seq(FunctionFrames)
    BY StackTypes
  <2>2. [at |-> f.at, lambda |-> f.kind = "lambda"] \in FunctionFrames
    BY <1>5 DEF FunctionFrames
  <2>3. Front(Append(Functions(p), [at |-> f.at, lambda |-> f.kind = "lambda"])) = Functions(p)
    BY <2>1, <2>2, FrontAppend
  <2>4. fs = IF f.kind \in {"function", "lambda"}
             THEN Append(Functions(p), [at |-> f.at, lambda |-> f.kind = "lambda"])
             ELSE Functions(p)
    BY <1>1, StackSteps
  <2> QED BY <2>3, <2>4, Zenon DEF PoppedIf
<1>7. PoppedIf(cf, f.kind = "function" /\ seen) = SeenFunctions(p)
  <2>1. SeenFunctions(p) \in Seq(FunctionFrames)
    BY StackTypes
  <2>2. [at |-> f.at, lambda |-> FALSE] \in FunctionFrames
    BY <1>5 DEF FunctionFrames
  <2>3. Front(Append(SeenFunctions(p), [at |-> f.at, lambda |-> FALSE])) = SeenFunctions(p)
    BY <2>1, <2>2, FrontAppend
  <2>4. cf = IF f.kind = "function" /\ seen
             THEN Append(SeenFunctions(p), [at |-> f.at, lambda |-> FALSE])
             ELSE SeenFunctions(p)
    BY <1>1, StackSteps
  <2> QED BY <2>3, <2>4, Zenon DEF PoppedIf
<1>8. PoppedIf(ts, f.kind = "try" /\ seen) = SeenTries(p)
  <2>1. SeenTries(p) \in Seq(TryFrames)
    BY StackTypes
  <2>2. [at |-> f.at, depth |-> Len(SeenTries(p))] \in TryFrames
    BY <1>5, <2>1 DEF TryFrames
  <2>3. Front(Append(SeenTries(p), [at |-> f.at, depth |-> Len(SeenTries(p))])) = SeenTries(p)
    BY <2>1, <2>2, FrontAppend
  <2>4. ts = IF f.kind = "try" /\ seen
             THEN Append(SeenTries(p), [at |-> f.at, depth |-> Len(SeenTries(p))])
             ELSE SeenTries(p)
    BY <1>1, StackSteps
  <2> QED BY <2>3, <2>4, Zenon DEF PoppedIf
<1>9. PoppedIf(gs, f.kind \in {"then", "else"} /\ seen) = SeenBranches(p)
  <2>1. SeenBranches(p) \in Seq(GuardFrames)
    BY StackTypes
  <2>2. [at |-> f.at, true |-> f.kind = "then"] \in GuardFrames
    BY <1>5 DEF GuardFrames
  <2>3. Front(Append(SeenBranches(p), [at |-> f.at, true |-> f.kind = "then"])) = SeenBranches(p)
    BY <2>1, <2>2, FrontAppend
  <2>4. gs = IF f.kind \in {"then", "else"} /\ seen
             THEN Append(SeenBranches(p), [at |-> f.at, true |-> f.kind = "then"])
             ELSE SeenBranches(p)
    BY <1>1, StackSteps
  <2> QED BY <2>3, <2>4, Zenon DEF PoppedIf
<1> HIDE DEF seen
<1>10. Walks(p, n, PoppedIf(fs, f.kind \in {"function", "lambda"}),
             PoppedIf(cf, f.kind = "function" /\ seen), PoppedIf(ts, f.kind = "try" /\ seen),
             PoppedIf(gs, f.kind \in {"then", "else"} /\ seen),
             PoppedIf(ss, f.kind \in Scoped /\ seen), ds)
  BY <1>1, <1>2, <1>3, <1>4, <1>6, <1>7, <1>8, <1>9 DEF Walks
<1> QED BY <1>10 DEF seen

\* A branch of an if takes the place of its condition or of the other branch.
LEMMA WalksBranch ==
  ASSUME NEW n, NEW fs, NEW cf, NEW ts, NEW gs, NEW ss, NEW ds,
         NEW p \in Seq(Frames), NEW f \in Frames, NEW g \in Frames,
         Walks(Append(p, f), n, fs, cf, ts, gs, ss, ds),
         f.kind \in {"cond", "then"}, g.kind \in {"then", "else"}, g.at = f.at
  PROVE  Walks(Append(p, g), n, fs, cf, ts,
               PushedGuard(PoppedIf(gs, f.kind = "then" /\ SeenTo(p, Len(p))), g, SeenTo(p, Len(p))),
               ss, ds)
<1> DEFINE seen == SeenTo(p, Len(p))
           gt   == PoppedIf(gs, f.kind = "then" /\ seen)
<1>1. Walks(p, n, PoppedIf(fs, f.kind \in {"function", "lambda"}),
            PoppedIf(cf, f.kind = "function" /\ seen), PoppedIf(ts, f.kind = "try" /\ seen),
            PoppedIf(gs, f.kind \in {"then", "else"} /\ seen),
            PoppedIf(ss, f.kind \in Scoped /\ seen), ds)
  BY WalksClosed
<1> HIDE DEF seen
<1>2. Walks(p, n, fs, cf, ts, gt, ss, ds)
  <2>1. /\ PoppedIf(fs, f.kind \in {"function", "lambda"}) = fs
        /\ PoppedIf(cf, f.kind = "function" /\ seen) = cf
        /\ PoppedIf(ts, f.kind = "try" /\ seen) = ts
        /\ PoppedIf(gs, f.kind \in {"then", "else"} /\ seen) = gt
        /\ PoppedIf(ss, f.kind \in Scoped /\ seen) = ss
    BY DEF PoppedIf, Scoped
  <2> HIDE DEF gt
  <2> QED BY <1>1, <2>1
<1>3. /\ n \in Nat /\ ds \in Seq(Locals) /\ f.at <= n
  <2>1. n \in Nat /\ ds \in Seq(Locals) /\ Numbered(Append(p, f), n, ds)
    BY DEF Walks
  <2>2. Append(p, f)[Len(p)+1] = f /\ Len(p) + 1 \in DOMAIN Append(p, f)
    BY PathAppend
  <2> QED BY <2>1, <2>2, Zenon DEF Numbered
<1>4. Fresh(g, ds, Len(p) + 1)
  <2>1. \A i \in DOMAIN ds : ds[i] \in Locals
    BY <1>3
  <2>2. g.kind \notin Scoped
    BY DEF Scoped
  <2> QED BY <2>1, <2>2, FrameType DEF Fresh
<1> HIDE DEF gt
<1>5. Walks(Append(p, g), n, PushedFun(fs, g), PushedCfFun(cf, g, SeenTo(p, Len(p))),
            PushedTry(ts, g, SeenTo(p, Len(p))), PushedGuard(gt, g, SeenTo(p, Len(p))),
            PushedScope(ss, g, SeenTo(p, Len(p))), ds)
  <2>1. n <= n /\ g.at <= n /\ g.kind # "handler" /\ g.kind # "try"
    BY <1>3
  <2> QED BY <1>2, <1>3, <1>4, <2>1, WalksOpened
<1>6. /\ PushedFun(fs, g) = fs /\ PushedCfFun(cf, g, seen) = cf
      /\ PushedTry(ts, g, seen) = ts /\ PushedScope(ss, g, seen) = ss
  BY DEF PushedFun, PushedCfFun, PushedTry, PushedScope, Scoped
<1> QED BY <1>5, <1>6 DEF seen, gt

\* A handler of the innermost try.
LEMMA WalksHandler ==
  ASSUME NEW n, NEW fs, NEW cf, NEW ts, NEW gs, NEW ss, NEW ds,
         NEW p \in Seq(Frames), NEW f \in Frames, NEW g \in Frames, NEW h \in Frames,
         Walks(Append(p, f), n, fs, cf, ts, gs, ss, ds),
         f.kind = "try", g.kind = "try", g.at = f.at, g.more < f.more,
         h.kind = "handler", h.at = f.at, h.more = f.more
  PROVE  Walks(Append(Append(p, g), h), n, fs, cf, ts, gs,
               PushedScope(ss, h, SeenTo(p, Len(p))), ds)
<1> DEFINE q == Append(p, f)
           s == Append(p, g)
<1>1. /\ ss \in Seq(Seq(LocalFrames)) /\ ds \in Seq(Locals) /\ ScopesFollow(q, ss, ds)
      /\ fs = Functions(q) /\ cf = SeenFunctions(q) /\ ts = SeenTries(q) /\ gs = SeenBranches(q)
      /\ n \in Nat /\ Numbered(q, n, ds)
  BY DEF Walks
<1>2. Numbered(Append(s, h), n, ds) /\ Fresh(h, ds, Len(s) + 1)
  BY <1>1, NumberedHandler
<1>3. s \in Seq(Frames)
  OBVIOUS
<1>4. Numbered(s, n, ds)
  BY <1>2, <1>3, NumberedClosed
<1>5. ScopesFollow(s, ss, ds)
  <2>1. f.kind \notin Scoped /\ g.kind \notin Scoped
    BY DEF Scoped
  <2> QED BY <1>1, <2>1, ScopeKept
<1>6. /\ Functions(s) = Functions(q) /\ SeenFunctions(s) = SeenFunctions(q)
      /\ SeenTries(s) = SeenTries(q) /\ SeenBranches(s) = SeenBranches(q)
  <2>1. Functions(s) = Functions(p) /\ Functions(q) = Functions(p)
    BY StackSteps
  <2>2. SeenFunctions(s) = SeenFunctions(p) /\ SeenFunctions(q) = SeenFunctions(p)
    BY StackSteps
  <2>3. SeenBranches(s) = SeenBranches(p) /\ SeenBranches(q) = SeenBranches(p)
    BY StackSteps
  <2>4. SeenTries(s) = IF f.kind = "try" /\ SeenTo(p, Len(p))
                       THEN Append(SeenTries(p), [at |-> f.at, depth |-> Len(SeenTries(p))])
                       ELSE SeenTries(p)
    BY StackSteps
  <2>5. SeenTries(q) = IF f.kind = "try" /\ SeenTo(p, Len(p))
                       THEN Append(SeenTries(p), [at |-> f.at, depth |-> Len(SeenTries(p))])
                       ELSE SeenTries(p)
    BY StackSteps
  <2> QED BY <2>1, <2>2, <2>3, <2>4, <2>5
<1>7. SeenTo(s, Len(s)) <=> SeenTo(p, Len(p))
  <2>1. Len(s) = Len(p) + 1
    OBVIOUS
  <2>2. SeenTo(s, Len(p) + 1) <=> (SeenTo(p, Len(p)) /\ g.kind # "cond")
    BY SeenToAppend
  <2> QED BY <2>1, <2>2
<1> HIDE DEF q, s
<1>8. Walks(s, n, fs, cf, ts, gs, ss, ds)
  BY <1>1, <1>3, <1>4, <1>5, <1>6 DEF Walks
<1>9. Walks(Append(s, h), n, PushedFun(fs, h), PushedCfFun(cf, h, SeenTo(s, Len(s))),
            PushedTry(ts, h, SeenTo(s, Len(s))), PushedGuard(gs, h, SeenTo(s, Len(s))),
            PushedScope(ss, h, SeenTo(s, Len(s))), ds)
  BY <1>1, <1>2, <1>3, <1>8, FollowOpened
<1>10. ASSUME NEW b
       PROVE  /\ PushedFun(fs, h) = fs /\ PushedCfFun(cf, h, b) = cf
              /\ PushedTry(ts, h, b) = ts /\ PushedGuard(gs, h, b) = gs
  BY DEF PushedFun, PushedCfFun, PushedTry, PushedGuard
<1>11. PushedScope(ss, h, SeenTo(s, Len(s))) = PushedScope(ss, h, SeenTo(p, Len(p)))
  BY <1>7 DEF PushedScope
<1> QED BY <1>9, <1>10, <1>11 DEF s

\* A local of the innermost block.
LEMMA WalksLocal ==
  ASSUME NEW n, NEW fs, NEW cf, NEW ts, NEW gs, NEW ss, NEW ds,
         NEW p \in Seq(Frames), NEW f \in Frames,
         Walks(Append(p, f), n, fs, cf, ts, gs, ss, ds), f.kind \in Scoped,
         NEW d \in Locals, d.depth = Len(p) + 1, d.block = f, NEW e \in LocalFrames,
         e = [at |-> d.at, kind |-> ClassifyRaiiType(d.type)]
  PROVE  Walks(Append(p, f), n + 1, fs, cf, ts, gs,
               IF SeenTo(p, Len(p)) THEN AddToInnermost(ss, e) ELSE ss, Append(ds, d))
<1> DEFINE q  == Append(p, f)
           tt == IF SeenTo(p, Len(p)) THEN AddToInnermost(ss, e) ELSE ss
<1>1. /\ ss \in Seq(Seq(LocalFrames)) /\ ds \in Seq(Locals) /\ ScopesFollow(q, ss, ds)
      /\ fs = Functions(q) /\ cf = SeenFunctions(q) /\ ts = SeenTries(q) /\ gs = SeenBranches(q)
      /\ n \in Nat /\ Numbered(q, n, ds) /\ q \in Seq(Frames)
  BY DEF Walks
<1>2. ScopesFollow(q, tt, Append(ds, d))
  BY <1>1, LocalAdded
<1>3. Numbered(q, n + 1, Append(ds, d))
  BY <1>1, NumberedLocal
<1>4. tt \in Seq(Seq(LocalFrames))
  <2>1. SeenTo(p, Len(p)) => ss # << >>
    BY <1>1, ScopeClosed
  <2>2. CASE SeenTo(p, Len(p))
    <3>1. AddToInnermost(ss, e) = Append(Front(ss), Append(Last(ss), e))
      BY <1>1, <2>1, <2>2, FlattenInnermost
    <3> DEFINE S == Seq(LocalFrames)
    <3>2. Front(ss) \in Seq(S) /\ Last(ss) \in S
      <4> HIDE DEF S
      <4> SUFFICES ss \in Seq(S) /\ ss # << >>
        BY FrontLast
      <4> QED BY <1>1, <2>1, <2>2 DEF S
    <3>3. Append(Last(ss), e) \in S
      BY <3>2
    <3>4. Append(Front(ss), Append(Last(ss), e)) \in Seq(S)
      <4> HIDE DEF S
      <4> QED BY <3>2, <3>3
    <3> QED BY <3>1, <3>4, <2>2
  <2>3. CASE ~ SeenTo(p, Len(p))
    BY <2>3, <1>1
  <2> QED BY <2>2, <2>3
<1>5. n + 1 \in Nat /\ Append(ds, d) \in Seq(Locals)
  BY <1>1
<1> HIDE DEF tt, q
<1>6. Walks(q, n + 1, fs, cf, ts, gs, tt, Append(ds, d))
  BY <1>1, <1>2, <1>3, <1>4, <1>5 DEF Walks
<1> QED BY <1>6 DEF q, tt

-----------------------------------------------------------------------------
(* The walk itself: every action keeps Walk.                                 *)

LEMMA SeenPath ==
  ASSUME path \in Seq(Frames)
  PROVE  /\ Seen <=> SeenTo(path, Len(path))
         /\ path # << >> =>
              /\ Front(path) \in Seq(Frames) /\ Last(path) \in Frames
              /\ path = Append(Front(path), Last(path))
              /\ Len(path) = Len(Front(path)) + 1 /\ Len(Front(path)) \in Nat
              /\ path[Len(path)] = Last(path)
              /\ Seen <=> SeenTo(Front(path), Len(Front(path))) /\ Last(path).kind # "cond"
<1>1. Seen <=> SeenTo(path, Len(path))
  <2>1. \A i \in DOMAIN path : i <= Len(path)
    OBVIOUS
  <2> QED BY <2>1 DEF Seen, SeenTo
<1>2. ASSUME path # << >>
      PROVE  /\ Front(path) \in Seq(Frames) /\ Last(path) \in Frames
             /\ path = Append(Front(path), Last(path))
  BY <1>2, FrontLast
<1>3. ASSUME path # << >>
      PROVE  /\ Len(path) = Len(Front(path)) + 1 /\ Len(Front(path)) \in Nat
             /\ path[Len(path)] = Last(path)
  <2> DEFINE p == Front(path)
             f == Last(path)
  <2>1. p \in Seq(Frames) /\ f \in Frames /\ path = Append(p, f)
    BY <1>2, <1>3
  <2> HIDE DEF p, f
  <2>2. Len(Append(p, f)) = Len(p) + 1 /\ Len(p) \in Nat /\ Append(p, f)[Len(p) + 1] = f
    BY <2>1
  <2> QED BY <2>1, <2>2 DEF p, f
<1>4. ASSUME path # << >>
      PROVE  SeenTo(path, Len(path)) <=> (SeenTo(Front(path), Len(Front(path))) /\ Last(path).kind # "cond")
  <2> DEFINE p == Front(path)
             f == Last(path)
  <2>1. p \in Seq(Frames) /\ f \in Frames /\ path = Append(p, f) /\ Len(path) = Len(p) + 1
    BY <1>2, <1>3, <1>4
  <2> HIDE DEF p, f
  <2>2. SeenTo(Append(p, f), Len(p) + 1) <=> (SeenTo(p, Len(p)) /\ f.kind # "cond")
    BY <2>1, SeenToAppend
  <2> QED BY <2>1, <2>2 DEF p, f
<1> QED BY <1>1, <1>2, <1>3, <1>4

LEMMA WalkType ==
  ASSUME Walk
  PROVE  /\ path \in Seq(Frames) /\ nodes \in Nat /\ declared \in Seq(Locals)
         /\ scopeStack \in Seq(Seq(LocalFrames))
         /\ Numbered(path, nodes, declared)
  BY DEF Walk, Walks

LEMMA FrameHere ==
  ASSUME nodes \in Nat, NEW kind \in Kinds, NEW more \in Nat
  PROVE  /\ Frame(kind, more) \in Frames /\ Frame(kind, more).at = nodes + 1
         /\ Frame(kind, more).kind = kind /\ Frame(kind, more).more = more
  BY DEF Frame, Frames, Here

\* What is visited now is not the block of an earlier local.
LEMMA FreshHere ==
  ASSUME Walk, NEW f, f.at = nodes + 1, NEW d
  PROVE  Fresh(f, declared, d)
<1>1. /\ nodes \in Nat /\ declared \in Seq(Locals)
      /\ \A i \in DOMAIN declared : declared[i].block.at <= nodes
  BY WalkType DEF Numbered
<1>2. ~(nodes + 1 <= nodes)
  BY <1>1
<1> QED BY <1>1, <1>2 DEF Fresh

LEMMA WalksLater ==
  ASSUME Walk
  PROVE  Walks(path, nodes + 1, funcStack, cfFuncStack, tryScopeStack, guardStack, scopeStack, declared)
<1>1. /\ path \in Seq(Frames) /\ nodes \in Nat /\ declared \in Seq(Locals)
      /\ Numbered(path, nodes, declared)
  BY WalkType
<1>2. \A i \in DOMAIN path : path[i].at <= nodes + 1
  <2>1. \A i \in DOMAIN path : path[i].at \in Nat /\ path[i].at <= nodes
    <3>1. \A i \in DOMAIN path : path[i] \in Frames
      BY <1>1
    <3> QED BY <3>1, <1>1, FrameType DEF Numbered
  <2> QED BY <2>1, <1>1
<1>3. \A k \in DOMAIN declared : declared[k].block.at <= nodes + 1
  <2>1. \A k \in DOMAIN declared : declared[k].block.at \in Nat /\ declared[k].block.at <= nodes
    <3>1. \A k \in DOMAIN declared : declared[k] \in Locals
      BY <1>1
    <3> QED BY <3>1, <1>1, FrameType DEF Numbered
  <2> QED BY <2>1, <1>1
<1>4. Numbered(path, nodes + 1, declared)
  BY <1>1, <1>2, <1>3, Zenon DEF Numbered
<1>5. nodes + 1 \in Nat
  BY <1>1
<1> QED BY <1>4, <1>5 DEF Walk, Walks

LEMMA OpenedOne ==
  ASSUME Walk, NEW f \in Frames, f.at = nodes + 1, f.kind # "handler"
  PROVE  Walks(Append(path, f), nodes + 1, PushedFun(funcStack, f), PushedCfFun(cfFuncStack, f, Seen),
               PushedTry(tryScopeStack, f, Seen), PushedGuard(guardStack, f, Seen),
               PushedScope(scopeStack, f, Seen), declared)
<1>1. path \in Seq(Frames) /\ nodes \in Nat
  BY WalkType
<1>2. Fresh(f, declared, Len(path) + 1)
  BY FreshHere
<1>3. nodes + 1 \in Nat /\ nodes <= nodes + 1 /\ f.at <= nodes + 1 /\ f.at > nodes
  BY <1>1
<1>4. Walks(path, nodes, funcStack, cfFuncStack, tryScopeStack, guardStack, scopeStack, declared)
  BY DEF Walk
<1>5. Walks(Append(path, f), nodes + 1, PushedFun(funcStack, f), PushedCfFun(cfFuncStack, f, SeenTo(path, Len(path))),
               PushedTry(tryScopeStack, f, SeenTo(path, Len(path))), PushedGuard(guardStack, f, SeenTo(path, Len(path))),
               PushedScope(scopeStack, f, SeenTo(path, Len(path))), declared)
  BY <1>1, <1>2, <1>3, <1>4, WalksOpened
<1>6. Seen <=> SeenTo(path, Len(path))
  BY <1>1, SeenPath
<1>7. /\ PushedCfFun(cfFuncStack, f, SeenTo(path, Len(path))) = PushedCfFun(cfFuncStack, f, Seen)
      /\ PushedTry(tryScopeStack, f, SeenTo(path, Len(path))) = PushedTry(tryScopeStack, f, Seen)
      /\ PushedGuard(guardStack, f, SeenTo(path, Len(path))) = PushedGuard(guardStack, f, Seen)
      /\ PushedScope(scopeStack, f, SeenTo(path, Len(path))) = PushedScope(scopeStack, f, Seen)
  BY <1>6 DEF PushedCfFun, PushedTry, PushedGuard, PushedScope
<1> QED BY <1>5, <1>7

\* A statement or function that comes with its block.
LEMMA OpenedTwo ==
  ASSUME Walk, NEW f \in Frames, f.at = nodes + 1, f.kind \in {"function", "conversion", "lambda", "try"},
         NEW g \in Frames, g.at = nodes + 1, g.kind = "block"
  PROVE  Walks(path \o <<f, g>>, nodes + 1, PushedFun(funcStack, f), PushedCfFun(cfFuncStack, f, Seen),
               PushedTry(tryScopeStack, f, Seen), guardStack, Push(scopeStack, << >>), declared)
<1> DEFINE q == Append(path, f)
           cf == PushedCfFun(cfFuncStack, f, Seen)
           ts == PushedTry(tryScopeStack, f, Seen)
           fs == PushedFun(funcStack, f)
<1>1. path \in Seq(Frames) /\ nodes \in Nat
  BY WalkType
<1>2. Walks(q, nodes + 1, fs, cf, ts, PushedGuard(guardStack, f, Seen), PushedScope(scopeStack, f, Seen), declared)
  BY OpenedOne
<1>3. PushedGuard(guardStack, f, Seen) = guardStack /\ PushedScope(scopeStack, f, Seen) = scopeStack
  BY DEF PushedGuard, PushedScope, Scoped
<1>4. Fresh(g, declared, Len(q) + 1)
  BY FreshHere
<1>5. SeenTo(q, Len(q)) <=> Seen
  <2>1. Len(q) = Len(path) + 1
    BY <1>1
  <2>2. SeenTo(q, Len(path) + 1) <=> SeenTo(path, Len(path)) /\ f.kind # "cond"
    BY <1>1, SeenToAppend
  <2>3. Seen <=> SeenTo(path, Len(path))
    BY <1>1, SeenPath
  <2> HIDE DEF q
  <2> QED BY <2>1, <2>2, <2>3
<1>6. q \in Seq(Frames)
  BY <1>1
<1>7. Append(q, g) = path \o <<f, g>>
  BY <1>1
<1>8. nodes + 1 \in Nat /\ nodes + 1 <= nodes + 1 /\ g.at <= nodes + 1
  BY <1>1
<1> HIDE DEF q, cf, ts, fs
<1>9. Walks(q, nodes + 1, fs, cf, ts, guardStack, scopeStack, declared)
  BY <1>2, <1>3
<1>10. Walks(Append(q, g), nodes + 1, PushedFun(fs, g), PushedCfFun(cf, g, SeenTo(q, Len(q))),
             PushedTry(ts, g, SeenTo(q, Len(q))), PushedGuard(guardStack, g, SeenTo(q, Len(q))),
             PushedScope(scopeStack, g, SeenTo(q, Len(q))), declared)
  BY <1>4, <1>6, <1>8, <1>9, WalksOpened
<1>11. ASSUME NEW b
       PROVE  /\ PushedFun(fs, g) = fs /\ PushedCfFun(cf, g, b) = cf
              /\ PushedTry(ts, g, b) = ts /\ PushedGuard(guardStack, g, b) = guardStack
  BY DEF PushedFun, PushedCfFun, PushedTry, PushedGuard
<1>12. PushedScope(scopeStack, g, SeenTo(q, Len(q))) = Push(scopeStack, << >>)
  BY <1>5 DEF PushedScope, Push, Scoped
<1> QED BY <1>7, <1>10, <1>11, <1>12 DEF fs, cf, ts

LEMMA ClosedOne ==
  ASSUME Walk, path # << >>, NEW k, k = Last(path).kind, k # "cond"
  PROVE  Walks(Front(path), nodes, PoppedIf(funcStack, k \in {"function", "lambda"}),
               PoppedIf(cfFuncStack, k = "function" /\ Seen),
               PoppedIf(tryScopeStack, k = "try" /\ Seen),
               PoppedIf(guardStack, k \in {"then", "else"} /\ Seen),
               PoppedIf(scopeStack, k \in Scoped /\ Seen), declared)
<1> DEFINE p == Front(path)
           f == Last(path)
<1>1. /\ p \in Seq(Frames) /\ f \in Frames /\ path = Append(p, f)
      /\ Seen <=> SeenTo(p, Len(p)) /\ f.kind # "cond"
  BY WalkType, SeenPath
<1>2. Walks(path, nodes, funcStack, cfFuncStack, tryScopeStack, guardStack, scopeStack, declared)
  BY DEF Walk
<1> HIDE DEF p
<1>3. k = f.kind
  OBVIOUS
<1> HIDE DEF f
<1>4. Walks(p, nodes, PoppedIf(funcStack, f.kind \in {"function", "lambda"}),
               PoppedIf(cfFuncStack, f.kind = "function" /\ SeenTo(p, Len(p))),
               PoppedIf(tryScopeStack, f.kind = "try" /\ SeenTo(p, Len(p))),
               PoppedIf(guardStack, f.kind \in {"then", "else"} /\ SeenTo(p, Len(p))),
               PoppedIf(scopeStack, f.kind \in Scoped /\ SeenTo(p, Len(p))), declared)
  BY <1>1, <1>2, WalksClosed
<1>5. SeenTo(p, Len(p)) <=> Seen
  BY <1>1, <1>3
<1>6. \A s, b : PoppedIf(s, b /\ SeenTo(p, Len(p))) = PoppedIf(s, b /\ Seen)
  BY <1>5 DEF PoppedIf
<1> QED BY <1>3, <1>4, <1>5, <1>6 DEF p, PoppedIf

StartedAs(f, g) ==
  Walks(path \o <<f, g>>, nodes + 1, PushedFun(funcStack, f), PushedCfFun(cfFuncStack, f, Seen),
        PushedTry(tryScopeStack, f, Seen), guardStack, Push(scopeStack, << >>), declared)

LEMMA Started ==
  ASSUME Walk, NEW kind \in {"function", "conversion", "lambda", "try"}, NEW more \in Nat
  PROVE  /\ StartedAs(Frame(kind, more), Frame("block", 0))
         /\ Frame(kind, more).kind = kind /\ Frame(kind, more).at = nodes + 1
<1>1. nodes \in Nat /\ kind \in Kinds /\ "block" \in Kinds /\ 0 \in Nat
  BY WalkType DEF Kinds
<1> DEFINE f == Frame(kind, more)
           g == Frame("block", 0)
<1>2. /\ f \in Frames /\ f.at = nodes + 1 /\ f.kind = kind
      /\ g \in Frames /\ g.at = nodes + 1 /\ g.kind = "block"
  BY <1>1, FrameHere
<1> HIDE DEF f, g
<1>3. StartedAs(f, g)
  BY <1>2, OpenedTwo DEF StartedAs
<1> QED BY <1>2, <1>3 DEF f, g

LEMMA InitWalk ==
  ASSUME Init
  PROVE  Walk
<1>1. /\ path = << >> /\ nodes = 0 /\ funcStack = << >> /\ cfFuncStack = << >>
      /\ scopeStack = << >> /\ tryScopeStack = << >> /\ guardStack = << >> /\ declared = << >>
  BY DEF Init
<1>2. ScopesFollow(<< >>, << >>, << >>)
  <2> DEFINE e == << >>
  <2>1. Len(e) = 0 /\ \A n \in 0..Len(e) : n = 0
    OBVIOUS
  <2>2. Depth(e, 0) = 0
    BY DepthSteps
  <2>3. FlattenSeq(SubSeq(e, 1, 0)) = << >>
    <3>1. SubSeq(e, 1, 0) = << >>
      OBVIOUS
    <3>2. FlattenSeq(<< >>) = << >>
      BY DEF FlattenSeq
    <3> QED BY <3>1, <3>2
  <2>4. LocalEntries(Listed(e, LiveTo(e, e, 0))) = << >>
    BY ListedEmpty DEF LocalEntries
  <2> QED BY <2>1, <2>2, <2>3, <2>4, Zenon DEF ScopesFollow, ScopesTo
<1>3. Numbered(<< >>, 0, << >>)
  BY DEF Numbered
<1>4. /\ << >> \in Seq(Frames) /\ << >> \in Seq(Locals) /\ << >> \in Seq(Seq(LocalFrames)) /\ 0 \in Nat
  OBVIOUS
<1>5. Walks(<< >>, 0, << >>, << >>, << >>, << >>, << >>, << >>)
  BY <1>2, <1>3, <1>4, NoFrames DEF Walks
<1> QED BY <1>1, <1>5 DEF Walk

LEMMA EnterFunctionWalk ==
  ASSUME Walk, NEW kind \in {"function", "conversion"}, EnterFunction(kind)
  PROVE  Walk'
<1> DEFINE f == Frame(kind, 0)
           g == Frame("block", 0)
<1>1. StartedAs(f, g) /\ f.kind = kind /\ f.at = nodes + 1
  BY Started
<1>2. /\ path' = path \o <<f, g>> /\ nodes' = nodes + 1
      /\ scopeStack' = Push(scopeStack, << >>)
      /\ UNCHANGED <<tryScopeStack, guardStack, declared>>
  BY DEF EnterFunction, Here
<1>3. funcStack' = PushedFun(funcStack, f)
  BY <1>1 DEF EnterFunction, PushedFun, Here
<1>4. cfFuncStack' = PushedCfFun(cfFuncStack, f, Seen)
  BY <1>1 DEF EnterFunction, PushedCfFun, Push, Here
<1>5. PushedTry(tryScopeStack, f, Seen) = tryScopeStack
  BY <1>1 DEF PushedTry
<1> HIDE DEF f, g
<1> QED BY <1>1, <1>2, <1>3, <1>4, <1>5 DEF Walk, StartedAs

LEMMA EnterLambdaWalk ==
  ASSUME Walk, EnterLambda
  PROVE  Walk'
<1> DEFINE f == Frame("lambda", 0)
           g == Frame("block", 0)
<1>1. StartedAs(f, g) /\ f.kind = "lambda" /\ f.at = nodes + 1
  BY Started
<1>2. /\ path' = path \o <<f, g>> /\ nodes' = nodes + 1
      /\ scopeStack' = Push(scopeStack, << >>)
      /\ UNCHANGED <<cfFuncStack, tryScopeStack, guardStack, declared>>
  BY DEF EnterLambda, Here
<1>3. funcStack' = PushedFun(funcStack, f)
  BY <1>1 DEF EnterLambda, PushedFun, Here
<1>4. PushedCfFun(cfFuncStack, f, Seen) = cfFuncStack /\ PushedTry(tryScopeStack, f, Seen) = tryScopeStack
  BY <1>1 DEF PushedTry, PushedCfFun
<1> HIDE DEF f, g
<1> QED BY <1>1, <1>2, <1>3, <1>4 DEF Walk, StartedAs

LEMMA EnterTryWalk ==
  ASSUME Walk, NEW handlers \in 1..2, EnterTry(handlers)
  PROVE  Walk'
<1> DEFINE f == Frame("try", handlers)
           g == Frame("block", 0)
<1>1. StartedAs(f, g) /\ f.kind = "try" /\ f.at = nodes + 1
  BY Started
<1>2. /\ path' = path \o <<f, g>> /\ nodes' = nodes + 1
      /\ scopeStack' = Push(scopeStack, << >>)
      /\ UNCHANGED <<funcStack, cfFuncStack, guardStack, declared>>
  BY DEF EnterTry, Here
<1>3. tryScopeStack' = PushedTry(tryScopeStack, f, Seen)
  BY <1>1 DEF EnterTry, PushedTry, Push, Here
<1>4. PushedCfFun(cfFuncStack, f, Seen) = cfFuncStack /\ PushedFun(funcStack, f) = funcStack
  BY <1>1 DEF PushedFun, PushedCfFun
<1> HIDE DEF f, g
<1> QED BY <1>1, <1>2, <1>3, <1>4 DEF Walk, StartedAs

LEMMA EnterBlockWalk ==
  ASSUME Walk, EnterBlock
  PROVE  Walk'
<1> DEFINE f == Frame("block", 0)
<1>1. f \in Frames /\ f.at = nodes + 1 /\ f.kind = "block"
  BY FrameHere, WalkType DEF Kinds
<1>2. /\ path' = Append(path, f) /\ nodes' = nodes + 1
      /\ scopeStack' = Push(scopeStack, << >>)
      /\ UNCHANGED <<funcStack, cfFuncStack, tryScopeStack, guardStack, declared>>
  BY DEF EnterBlock, Here
<1> HIDE DEF f
<1>3. Walks(Append(path, f), nodes + 1, PushedFun(funcStack, f), PushedCfFun(cfFuncStack, f, Seen),
               PushedTry(tryScopeStack, f, Seen), PushedGuard(guardStack, f, Seen),
               PushedScope(scopeStack, f, Seen), declared)
  BY <1>1, OpenedOne
<1>4. /\ PushedFun(funcStack, f) = funcStack /\ PushedCfFun(cfFuncStack, f, Seen) = cfFuncStack
      /\ PushedTry(tryScopeStack, f, Seen) = tryScopeStack /\ PushedGuard(guardStack, f, Seen) = guardStack
      /\ PushedScope(scopeStack, f, Seen) = Push(scopeStack, << >>)
  BY <1>1 DEF PushedFun, PushedCfFun, PushedTry, PushedGuard, PushedScope, Push, Scoped
<1> QED BY <1>2, <1>3, <1>4 DEF Walk

LEMMA EnterIfWalk ==
  ASSUME Walk, NEW branches \in 1..2, EnterIf(branches)
  PROVE  Walk'
<1> DEFINE f == Frame("cond", branches)
<1>1. f \in Frames /\ f.at = nodes + 1 /\ f.kind = "cond"
  BY FrameHere, WalkType DEF Kinds
<1>2. /\ path' = Append(path, f) /\ nodes' = nodes + 1
      /\ UNCHANGED <<funcStack, cfFuncStack, tryScopeStack, guardStack, scopeStack, declared>>
  BY DEF EnterIf, Here, cfVars
<1> HIDE DEF f
<1>3. Walks(Append(path, f), nodes + 1, PushedFun(funcStack, f), PushedCfFun(cfFuncStack, f, Seen),
               PushedTry(tryScopeStack, f, Seen), PushedGuard(guardStack, f, Seen),
               PushedScope(scopeStack, f, Seen), declared)
  BY <1>1, OpenedOne
<1>4. /\ PushedFun(funcStack, f) = funcStack /\ PushedCfFun(cfFuncStack, f, Seen) = cfFuncStack
      /\ PushedTry(tryScopeStack, f, Seen) = tryScopeStack /\ PushedGuard(guardStack, f, Seen) = guardStack
      /\ PushedScope(scopeStack, f, Seen) = scopeStack
  BY <1>1 DEF PushedFun, PushedCfFun, PushedTry, PushedGuard, PushedScope, Scoped
<1> QED BY <1>2, <1>3, <1>4 DEF Walk

\* The innermost frame goes, and what it put on a stack with it.
ClosedAs(k) ==
  Walks(Front(path), nodes, PoppedIf(funcStack, k \in {"function", "lambda"}),
        PoppedIf(cfFuncStack, k = "function" /\ Seen), PoppedIf(tryScopeStack, k = "try" /\ Seen),
        PoppedIf(guardStack, k \in {"then", "else"} /\ Seen),
        PoppedIf(scopeStack, k \in Scoped /\ Seen), declared)

LEMMA Closes ==
  ASSUME Walk, NEW K, Inside(K), "cond" \notin K
  PROVE  /\ ClosedAs(Last(path).kind) /\ Last(path).kind \in K
         /\ path # << >>
<1>1. path # << >> /\ Last(path).kind \in K
  BY DEF Inside
<1>2. Last(path).kind # "cond"
  BY <1>1
<1> QED BY <1>1, <1>2, ClosedOne DEF ClosedAs

LEMMA LeaveFunctionWalk ==
  ASSUME Walk, LeaveFunction
  PROVE  Walk'
<1> DEFINE k == Last(path).kind
<1>1. /\ path' = Front(path)
      /\ UNCHANGED <<nodes, scopeStack, tryScopeStack, guardStack, declared>>
  BY DEF LeaveFunction
<1>2. ClosedAs(k) /\ k \in {"function", "conversion"} /\ path # << >>
  BY Closes DEF LeaveFunction
<1>3. funcStack' = PoppedIf(funcStack, k \in {"function", "lambda"})
  BY <1>2 DEF LeaveFunction, PoppedIf, Inside
<1>4. cfFuncStack' = PoppedIf(cfFuncStack, k = "function" /\ Seen)
  BY <1>2 DEF LeaveFunction, LeftFunction, Pop, PoppedIf, Inside
<1>5. /\ PoppedIf(tryScopeStack, k = "try" /\ Seen) = tryScopeStack
      /\ PoppedIf(guardStack, k \in {"then", "else"} /\ Seen) = guardStack
      /\ PoppedIf(scopeStack, k \in Scoped /\ Seen) = scopeStack
  BY <1>2 DEF PoppedIf, Scoped
<1> HIDE DEF k
<1> QED BY <1>1, <1>2, <1>3, <1>4, <1>5 DEF Walk, ClosedAs

LEMMA LeaveLambdaWalk ==
  ASSUME Walk, LeaveLambda
  PROVE  Walk'
<1> DEFINE k == Last(path).kind
<1>1. /\ path' = Front(path)
      /\ UNCHANGED <<nodes, cfFuncStack, scopeStack, tryScopeStack, guardStack, declared>>
  BY DEF LeaveLambda, cfVars
<1>2. ClosedAs(k) /\ k \in {"lambda"}
  BY Closes DEF LeaveLambda
<1>3. funcStack' = PoppedIf(funcStack, k \in {"function", "lambda"})
  BY <1>2 DEF LeaveLambda, PoppedIf
<1>4. /\ PoppedIf(cfFuncStack, k = "function" /\ Seen) = cfFuncStack
      /\ PoppedIf(tryScopeStack, k = "try" /\ Seen) = tryScopeStack
      /\ PoppedIf(guardStack, k \in {"then", "else"} /\ Seen) = guardStack
      /\ PoppedIf(scopeStack, k \in Scoped /\ Seen) = scopeStack
  BY <1>2 DEF PoppedIf, Scoped
<1> HIDE DEF k
<1> QED BY <1>1, <1>2, <1>3, <1>4 DEF Walk, ClosedAs

\* What ends a block, of its own or of a handler.
LEMMA LeaveScopedWalk ==
  ASSUME Walk, Inside({"block"}) \/ Inside({"handler"}),
         path' = Front(path), scopeStack' = Pop(scopeStack),
         UNCHANGED <<nodes, funcStack, cfFuncStack, tryScopeStack, guardStack, declared>>
  PROVE  Walk'
<1> DEFINE k == Last(path).kind
<1>1. Inside({"block", "handler"})
  BY DEF Inside
<1>2. ClosedAs(k) /\ k \in {"block", "handler"}
  BY <1>1, Closes
<1>3. scopeStack' = PoppedIf(scopeStack, k \in Scoped /\ Seen)
  BY <1>2 DEF Pop, PoppedIf, Scoped
<1>4. /\ PoppedIf(funcStack, k \in {"function", "lambda"}) = funcStack
      /\ PoppedIf(cfFuncStack, k = "function" /\ Seen) = cfFuncStack
      /\ PoppedIf(tryScopeStack, k = "try" /\ Seen) = tryScopeStack
      /\ PoppedIf(guardStack, k \in {"then", "else"} /\ Seen) = guardStack
  BY <1>2 DEF PoppedIf
<1> HIDE DEF k
<1> QED BY <1>2, <1>3, <1>4 DEF Walk, ClosedAs

LEMMA LeaveTryWalk ==
  ASSUME Walk, LeaveTry
  PROVE  Walk'
<1> DEFINE k == Last(path).kind
<1>1. /\ path' = Front(path)
      /\ UNCHANGED <<nodes, funcStack, cfFuncStack, scopeStack, guardStack, declared>>
  BY DEF LeaveTry
<1>2. ClosedAs(k) /\ k \in {"try"}
  BY Closes DEF LeaveTry
<1>3. tryScopeStack' = PoppedIf(tryScopeStack, k = "try" /\ Seen)
  BY <1>2 DEF LeaveTry, Pop, PoppedIf
<1>4. /\ PoppedIf(funcStack, k \in {"function", "lambda"}) = funcStack
      /\ PoppedIf(cfFuncStack, k = "function" /\ Seen) = cfFuncStack
      /\ PoppedIf(guardStack, k \in {"then", "else"} /\ Seen) = guardStack
      /\ PoppedIf(scopeStack, k \in Scoped /\ Seen) = scopeStack
  BY <1>2 DEF PoppedIf, Scoped
<1> HIDE DEF k
<1> QED BY <1>1, <1>2, <1>3, <1>4 DEF Walk, ClosedAs

LEMMA ReplacedFrame ==
  ASSUME path \in Seq(Frames), path # << >>
  PROVE  /\ \A k \in Kinds :
              /\ [path EXCEPT ![Len(path)].kind = k] = Append(Front(path), [Last(path) EXCEPT !.kind = k])
              /\ [Last(path) EXCEPT !.kind = k] \in Frames
         /\ Last(path).more > 0 =>
              /\ [path EXCEPT ![Len(path)].more = @ - 1] =
                   Append(Front(path), [Last(path) EXCEPT !.more = @ - 1])
              /\ [Last(path) EXCEPT !.more = @ - 1] \in Frames
<1>1. path[Len(path)] = Last(path) /\ Last(path) \in Frames
  BY SeenPath
<1>2. \A x \in Frames : [path EXCEPT ![Len(path)] = x] = Append(Front(path), x)
  BY ReplaceLast
<1>3. ASSUME NEW k \in Kinds
      PROVE  /\ [path EXCEPT ![Len(path)].kind = k] = Append(Front(path), [Last(path) EXCEPT !.kind = k])
             /\ [Last(path) EXCEPT !.kind = k] \in Frames
  <2> DEFINE x == [Last(path) EXCEPT !.kind = k]
  <2>1. x \in Frames
    BY <1>1 DEF Frames
  <2>2. [path EXCEPT ![Len(path)].kind = k] = [path EXCEPT ![Len(path)] = x]
    BY <1>1
  <2> QED BY <1>2, <2>1, <2>2
<1>4. ASSUME Last(path).more > 0
      PROVE  /\ [path EXCEPT ![Len(path)].more = @ - 1] =
                   Append(Front(path), [Last(path) EXCEPT !.more = @ - 1])
             /\ [Last(path) EXCEPT !.more = @ - 1] \in Frames
  <2> DEFINE x == [Last(path) EXCEPT !.more = @ - 1]
  <2>1. x \in Frames
    <3>1. Last(path).more \in Nat
      BY <1>1, FrameType
    <3>2. Last(path).more - 1 \in Nat
      BY <3>1, <1>4
    <3>3. \A y \in Frames, m \in Nat : [y EXCEPT !.more = m] \in Frames
      BY DEF Frames
    <3> QED BY <1>1, <3>2, <3>3
  <2>2. [path EXCEPT ![Len(path)].more = @ - 1] = [path EXCEPT ![Len(path)] = x]
    BY <1>1
  <2> QED BY <1>2, <2>1, <2>2
<1> QED BY <1>3, <1>4

LEMMA EnterHandlerWalk ==
  ASSUME Walk, EnterHandler
  PROVE  Walk'
<1> DEFINE p == Front(path)
           f == Last(path)
           g == [f EXCEPT !.more = @ - 1]
           h == [kind |-> "handler", at |-> f.at, more |-> f.more]
<1>1. /\ path \in Seq(Frames) /\ path # << >>
      /\ p \in Seq(Frames) /\ f \in Frames /\ path = Append(p, f)
      /\ Seen <=> SeenTo(p, Len(p)) /\ f.kind # "cond"
  BY WalkType, SeenPath DEF EnterHandler, Inside
<1>2. f.kind = "try" /\ f.more > 0
  BY DEF EnterHandler, Inside
<1>3. /\ path' = Append(Append(p, g), h) /\ g \in Frames
      /\ UNCHANGED <<nodes, funcStack, cfFuncStack, tryScopeStack, guardStack, declared>>
  <2>1. /\ [path EXCEPT ![Len(path)].more = @ - 1] = Append(p, g)
        /\ g \in Frames
    BY <1>1, <1>2, ReplacedFrame
  <2> HIDE DEF p
  <2> QED BY <2>1 DEF EnterHandler
<1>4. g.kind = "try" /\ g.at = f.at /\ g.more < f.more
  <2>1. f.more \in Nat
    BY <1>1, FrameType
  <2>2. g.kind = f.kind /\ g.at = f.at /\ g.more = f.more - 1
    BY <1>1 DEF Frames
  <2> HIDE DEF g, f
  <2> QED BY <1>2, <2>1, <2>2
<1>5. h \in Frames /\ h.kind = "handler" /\ h.at = f.at /\ h.more = f.more
  <2>1. f.at \in Nat /\ f.more \in Nat
    BY <1>1, FrameType
  <2> HIDE DEF f
  <2> QED BY <2>1 DEF Frames, Kinds
<1>6. scopeStack' = PushedScope(scopeStack, h, SeenTo(p, Len(p)))
  <2>1. Seen <=> SeenTo(p, Len(p))
    BY <1>1, <1>2
  <2> HIDE DEF p
  <2> QED BY <2>1 DEF EnterHandler, PushedScope, Push, Scoped
<1>7. Walks(path, nodes, funcStack, cfFuncStack, tryScopeStack, guardStack, scopeStack, declared)
  BY DEF Walk
<1> HIDE DEF p, f, g, h
<1>8. Walks(Append(Append(p, g), h), nodes, funcStack, cfFuncStack, tryScopeStack, guardStack,
            PushedScope(scopeStack, h, SeenTo(p, Len(p))), declared)
  BY <1>1, <1>2, <1>3, <1>4, <1>5, <1>7, WalksHandler
<1> QED BY <1>3, <1>6, <1>8 DEF Walk

LEMMA EnterThenWalk ==
  ASSUME Walk, EnterThen
  PROVE  Walk'
<1> DEFINE p == Front(path)
           f == Last(path)
           g == [f EXCEPT !.kind = "then"]
<1>1. /\ path \in Seq(Frames) /\ path # << >>
      /\ p \in Seq(Frames) /\ f \in Frames /\ path = Append(p, f)
  BY WalkType, SeenPath DEF EnterThen, Inside
<1>2. f.kind = "cond"
  BY DEF EnterThen, Inside
<1>3. /\ path' = Append(p, g) /\ g \in Frames
      /\ UNCHANGED <<nodes, funcStack, cfFuncStack, tryScopeStack, scopeStack, declared>>
  <2>1. /\ [path EXCEPT ![Len(path)].kind = "then"] = Append(p, g)
        /\ g \in Frames
    BY <1>1, ReplacedFrame DEF Kinds
  <2> HIDE DEF p
  <2> QED BY <2>1 DEF EnterThen
<1>4. g.kind = "then" /\ g.at = f.at
  BY <1>1 DEF Frames
<1>5. guardStack' = PushedGuard(PoppedIf(guardStack, f.kind = "then" /\ SeenTo(p, Len(p))), g, SeenTo(p, Len(p)))
  <2>1. PoppedIf(guardStack, f.kind = "then" /\ SeenTo(p, Len(p))) = guardStack
    BY <1>2 DEF PoppedIf
  <2>2. (\A i \in DOMAIN p : path[i].kind # "cond") <=> SeenTo(p, Len(p))
    <3> HIDE DEF p, f
    <3>1. DOMAIN p = 1..Len(p) /\ Len(p) \in Nat /\ \A i \in 1..Len(p) : path[i] = p[i]
      BY <1>1
    <3> QED BY <3>1 DEF SeenTo
  <2> HIDE DEF p
  <2>3. guardStack' = IF SeenTo(p, Len(p)) THEN Append(guardStack, [at |-> f.at, true |-> TRUE]) ELSE guardStack
    BY <2>2 DEF EnterThen, p
  <2> HIDE DEF f, g
  <2>4. PushedGuard(guardStack, g, SeenTo(p, Len(p))) =
          IF SeenTo(p, Len(p)) THEN Append(guardStack, [at |-> f.at, true |-> TRUE]) ELSE guardStack
    <3>1. (g.kind = "then") = TRUE /\ g.kind \in {"then", "else"}
      BY <1>4
    <3> QED BY <3>1, <1>4 DEF PushedGuard
  <2> QED BY <2>1, <2>3, <2>4
<1>6. Walks(path, nodes, funcStack, cfFuncStack, tryScopeStack, guardStack, scopeStack, declared)
  BY DEF Walk
<1> HIDE DEF p, f, g
<1>7. Walks(Append(p, g), nodes, funcStack, cfFuncStack, tryScopeStack,
            PushedGuard(PoppedIf(guardStack, f.kind = "then" /\ SeenTo(p, Len(p))), g, SeenTo(p, Len(p))),
            scopeStack, declared)
  BY <1>1, <1>2, <1>3, <1>4, <1>6, WalksBranch
<1> QED BY <1>3, <1>5, <1>7 DEF Walk

LEMMA LeaveBranchWalk ==
  ASSUME Walk, LeaveBranch
  PROVE  Walk'
<1> DEFINE p == Front(path)
           f == Last(path)
           g == [f EXCEPT !.kind = "else"]
<1>1. /\ path \in Seq(Frames) /\ path # << >>
      /\ p \in Seq(Frames) /\ f \in Frames /\ path = Append(p, f)
      /\ Seen <=> SeenTo(p, Len(p)) /\ f.kind # "cond"
  BY WalkType, SeenPath DEF LeaveBranch, Inside
<1>2. f.kind \in {"then", "else"} /\ Inside({"then", "else"})
  BY DEF LeaveBranch, Inside
<1>3. UNCHANGED <<nodes, funcStack, cfFuncStack, tryScopeStack, scopeStack, declared>>
  BY DEF LeaveBranch
<1>4. CASE f.kind = "then" /\ f.more > 1
  <2>1. path' = Append(p, g) /\ g \in Frames
    <3>1. /\ [path EXCEPT ![Len(path)].kind = "else"] = Append(p, g)
          /\ g \in Frames
      BY <1>1, ReplacedFrame DEF Kinds
    <3> HIDE DEF p
    <3> QED BY <3>1, <1>4 DEF LeaveBranch
  <2>2. g.kind = "else" /\ g.at = f.at
    BY <1>1 DEF Frames
  <2>3. guardStack' = PushedGuard(PoppedIf(guardStack, f.kind = "then" /\ SeenTo(p, Len(p))), g, SeenTo(p, Len(p)))
    <3>1. Seen <=> SeenTo(p, Len(p))
      BY <1>1, <1>2
    <3>2. guardStack' = Push(Pop(guardStack), [at |-> f.at, true |-> FALSE])
      BY <1>4 DEF LeaveBranch
    <3>3. (g.kind = "then") = FALSE /\ g.kind \in {"then", "else"}
      BY <2>2
    <3> HIDE DEF p, f, g
    <3> QED BY <1>4, <2>2, <3>1, <3>2, <3>3 DEF PushedGuard, PoppedIf, Push, Pop
  <2>4. Walks(path, nodes, funcStack, cfFuncStack, tryScopeStack, guardStack, scopeStack, declared)
    BY DEF Walk
  <2> HIDE DEF p, f, g
  <2>5. Walks(Append(p, g), nodes, funcStack, cfFuncStack, tryScopeStack,
              PushedGuard(PoppedIf(guardStack, f.kind = "then" /\ SeenTo(p, Len(p))), g, SeenTo(p, Len(p))),
              scopeStack, declared)
    BY <1>1, <1>4, <2>1, <2>2, <2>4, WalksBranch
  <2> QED BY <1>3, <2>1, <2>3, <2>5 DEF Walk
<1>5. CASE ~(f.kind = "then" /\ f.more > 1)
  <2>1. path' = Front(path) /\ guardStack' = Pop(guardStack)
    BY <1>5 DEF LeaveBranch
  <2>2. ClosedAs(f.kind)
    BY <1>2, Closes
  <2> HIDE DEF f
  <2>3. guardStack' = PoppedIf(guardStack, f.kind \in {"then", "else"} /\ Seen)
    BY <1>2, <2>1 DEF Pop, PoppedIf
  <2>4. /\ PoppedIf(funcStack, f.kind \in {"function", "lambda"}) = funcStack
        /\ PoppedIf(cfFuncStack, f.kind = "function" /\ Seen) = cfFuncStack
        /\ PoppedIf(tryScopeStack, f.kind = "try" /\ Seen) = tryScopeStack
        /\ PoppedIf(scopeStack, f.kind \in Scoped /\ Seen) = scopeStack
    BY <1>2 DEF PoppedIf, Scoped
  <2> QED BY <1>3, <2>1, <2>2, <2>3, <2>4 DEF Walk, ClosedAs
<1> QED BY <1>4, <1>5

LEMMA DeclareRaiiWalk ==
  ASSUME Walk, NEW t \in LocalTypes, DeclareRaii(t)
  PROVE  Walk'
<1> DEFINE p == Front(path)
           f == Last(path)
           d == [at |-> nodes + 1, type |-> t, depth |-> Len(path), block |-> f]
           e == [at |-> nodes + 1, kind |-> ClassifyRaiiType(t)]
<1>1. /\ path \in Seq(Frames) /\ path # << >> /\ nodes \in Nat
      /\ p \in Seq(Frames) /\ f \in Frames /\ path = Append(p, f)
      /\ Len(path) = Len(p) + 1 /\ Len(p) \in Nat
      /\ Seen <=> SeenTo(p, Len(p)) /\ f.kind # "cond"
  BY WalkType, SeenPath DEF DeclareRaii, Inside
<1>2. f.kind \in Scoped
  BY DEF DeclareRaii, Inside, Scoped
<1>3. /\ path' = path /\ nodes' = nodes + 1 /\ declared' = Append(declared, d)
      /\ scopeStack' = IF Seen THEN AddToInnermost(scopeStack, e) ELSE scopeStack
      /\ UNCHANGED <<funcStack, cfFuncStack, tryScopeStack, guardStack>>
  BY DEF DeclareRaii, Here
<1>4. Seen <=> SeenTo(p, Len(p))
  BY <1>1, <1>2 DEF Scoped
<1>5. d \in Locals /\ d.depth = Len(p) + 1 /\ d.block = f /\ d.at = nodes + 1 /\ d.type = t
  <2> HIDE DEF p, f
  <2>1. nodes + 1 \in Nat /\ Len(path) \in Nat \ {0} /\ f \in {x \in Frames : x.kind \in Scoped}
    BY <1>1, <1>2
  <2> QED BY <1>1, <2>1 DEF Locals
<1>6. e \in LocalFrames /\ e = [at |-> d.at, kind |-> ClassifyRaiiType(d.type)]
  <2>1. nodes + 1 \in Nat
    BY <1>1
  <2>2. ClassifyRaiiType(t) \in {"Lock", "SmartPtr", "Other", "none"}
    BY DEF ClassifyRaiiType
  <2> QED BY <2>1, <2>2, <1>5 DEF LocalFrames
<1>7. Walks(path, nodes, funcStack, cfFuncStack, tryScopeStack, guardStack, scopeStack, declared)
  BY DEF Walk
<1> HIDE DEF p, f, d, e
<1>8. Walks(Append(p, f), nodes + 1, funcStack, cfFuncStack, tryScopeStack, guardStack,
            IF SeenTo(p, Len(p)) THEN AddToInnermost(scopeStack, e) ELSE scopeStack, Append(declared, d))
  BY <1>1, <1>2, <1>5, <1>6, <1>7, WalksLocal
<1>9. scopeStack' = IF SeenTo(p, Len(p)) THEN AddToInnermost(scopeStack, e) ELSE scopeStack
  BY <1>3, <1>4
<1> QED BY <1>1, <1>3, <1>8, <1>9 DEF Walk

\* What the visitors have on their stacks follows from what is open.
LEMMA WalkNext ==
  ASSUME Walk, [Next]_vars
  PROVE  Walk'
<1>1. ASSUME NEW kind \in {"function", "conversion"}, EnterFunction(kind) PROVE Walk'
  BY <1>1, EnterFunctionWalk
<1>2. CASE LeaveFunction
  BY <1>2, LeaveFunctionWalk
<1>3. CASE EnterLambda
  BY <1>3, EnterLambdaWalk
<1>4. CASE LeaveLambda
  BY <1>4, LeaveLambdaWalk
<1>5. CASE EnterBlock
  BY <1>5, EnterBlockWalk
<1>6. CASE LeaveBlock
  BY <1>6, LeaveScopedWalk DEF LeaveBlock
<1>7. ASSUME NEW n \in 1..2, EnterTry(n) PROVE Walk'
  BY <1>7, EnterTryWalk
<1>8. ASSUME NEW n \in 1..2, EnterIf(n) PROVE Walk'
  BY <1>8, EnterIfWalk
<1>9. CASE EnterHandler
  BY <1>9, EnterHandlerWalk
<1>10. CASE LeaveHandler
  BY <1>10, LeaveScopedWalk DEF LeaveHandler
<1>11. CASE LeaveTry
  BY <1>11, LeaveTryWalk
<1>12. CASE EnterThen
  BY <1>12, EnterThenWalk
<1>13. CASE LeaveBranch
  BY <1>13, LeaveBranchWalk
<1>14. ASSUME NEW t \in LocalTypes, DeclareRaii(t) PROVE Walk'
  BY <1>14, DeclareRaiiWalk
<1>15. ASSUME NEW s \in {"lambda", "call"}, DeclareCallable(s) PROVE Walk'
  BY <1>15, WalksLater DEF DeclareCallable, Here, cfVars, Walk
<1>16. ASSUME NEW c \in Calls, VisitCall(c) PROVE Walk'
  BY <1>16, WalksLater DEF VisitCall, Here, Walk
<1>17. CASE UNCHANGED vars
  BY <1>17 DEF vars, edgeVars, cfVars, Walk
<1> QED BY <1>1, <1>2, <1>3, <1>4, <1>5, <1>6, <1>7, <1>8, <1>9, <1>10, <1>11, <1>12, <1>13,
           <1>14, <1>15, <1>16, <1>17 DEF Next

-----------------------------------------------------------------------------
(* The contexts.                                                             *)

\* A context repeats the stacks of the moment, which nothing has changed since.
ContextFromStacks ==
  context # Nothing =>
    /\ Seen
    /\ context.scopes = Reverse(tryScopeStack)
    /\ context.guards.branches = Reverse(guardStack)
    /\ context.locals = FlattenSeq(scopeStack)
    /\ context.guards.assertions = assertionGuards
    /\ context.inCatch = insideCatchBlock

\* Every assertion that has been noted is among the guards.
Notes == [at : Nat, depth : Nat, block : Frames]
AssertionsNoted ==
  /\ asserted \in Seq(Notes) /\ assertionGuards \in Seq(Nat)
  /\ Len(asserted) = Len(assertionGuards)
  /\ \A i \in DOMAIN asserted : asserted[i].at = assertionGuards[i]

LEMMA SomeThing ==
  /\ \A at, enclosing : LambdaIdent(at, enclosing) # Nothing
  /\ \A at : FunctionIdent(at) # Nothing
  /\ \A caller, callee : BuildContext(caller, callee) # Nothing
<1>1. \A x : x = << >> => DOMAIN x = {}
  OBVIOUS
<1>2. \A at, enclosing : "kind" \in DOMAIN LambdaIdent(at, enclosing)
  BY DEF LambdaIdent
<1>3. \A at : "kind" \in DOMAIN FunctionIdent(at)
  BY DEF FunctionIdent
<1>4. \A caller, callee : "site" \in DOMAIN BuildContext(caller, callee)
  BY DEF BuildContext
<1> QED BY <1>1, <1>2, <1>3, <1>4 DEF Nothing

LEMMA StacksNext ==
  ASSUME ContextFromStacks, [Next]_vars
  PROVE  ContextFromStacks'
<1>1. CASE \E c \in Calls : VisitCall(c)
  <2>1. PICK c \in Calls : VisitCall(c)
    BY <1>1
  <2>2. UNCHANGED <<path, tryScopeStack, guardStack, scopeStack>>
    BY <2>1 DEF VisitCall
  <2>3. Seen' <=> Seen
    BY <2>2 DEF Seen
  <2>4. \/ context' = Nothing
        \/ /\ Seen /\ UNCHANGED <<assertionGuards, insideCatchBlock>>
           /\ \E caller, callee : context' = BuildContext(caller, callee)
    BY <2>1 DEF VisitCall
  <2>5. ASSUME NEW caller, NEW callee
        PROVE  /\ BuildContext(caller, callee).scopes = Reverse(tryScopeStack)
               /\ BuildContext(caller, callee).guards.branches = Reverse(guardStack)
               /\ BuildContext(caller, callee).locals = FlattenSeq(scopeStack)
               /\ BuildContext(caller, callee).guards.assertions = assertionGuards
               /\ BuildContext(caller, callee).inCatch = insideCatchBlock
    BY DEF BuildContext, SnapshotGuards
  <2> QED BY <2>2, <2>3, <2>4, <2>5 DEF ContextFromStacks
<1>2. CASE UNCHANGED vars
  BY <1>2 DEF vars, edgeVars, cfVars, ContextFromStacks, Seen
<1>3. CASE ~(\E c \in Calls : VisitCall(c)) /\ Next
  <2>1. context' = Nothing
    BY <1>3 DEF Next, EnterFunction, LeaveFunction, EnterLambda, LeaveLambda, EnterBlock, LeaveBlock,
                EnterTry, EnterIf, EnterHandler, LeaveHandler, LeaveTry, EnterThen, LeaveBranch,
                DeclareRaii, DeclareCallable, Silent
  <2> QED BY <2>1 DEF ContextFromStacks, Nothing
<1> QED BY <1>1, <1>2, <1>3

LEMMA NotesNext ==
  ASSUME Walk, AssertionsNoted, [Next]_vars
  PROVE  AssertionsNoted'
<1>1. CASE UNCHANGED <<asserted, assertionGuards>>
  BY <1>1 DEF AssertionsNoted
<1>2. ASSUME NEW c \in Calls, VisitCall(c), ~UNCHANGED <<asserted, assertionGuards>>
      PROVE  AssertionsNoted'
  <2> DEFINE d == [at |-> nodes + 1, depth |-> Len(path), block |-> Last(path)]
  <2>1. /\ asserted' = Append(asserted, d)
        /\ assertionGuards' = Append(assertionGuards, nodes + 1)
    BY <1>2 DEF VisitCall, Here
  <2>2. path \in Seq(Frames) /\ nodes \in Nat /\ path # << >>
    BY <1>2, WalkType DEF VisitCall
  <2>3. d \in Notes /\ nodes + 1 \in Nat /\ d.at = nodes + 1
    <3>1. Last(path) \in Frames
      BY <2>2, SeenPath
    <3> QED BY <2>2, <3>1 DEF Notes
  <2> HIDE DEF d
  <2> QED BY <2>1, <2>3 DEF AssertionsNoted
<1>3. ASSUME Next, ~(\E c \in Calls : VisitCall(c))
      PROVE  UNCHANGED <<asserted, assertionGuards>>
  BY <1>3 DEF Next, EnterFunction, LeaveFunction, EnterLambda, LeaveLambda, EnterBlock, LeaveBlock,
              EnterTry, EnterIf, EnterHandler, LeaveHandler, LeaveTry, EnterThen, LeaveBranch,
              DeclareRaii, DeclareCallable, cfVars
<1>4. UNCHANGED vars => UNCHANGED <<asserted, assertionGuards>>
  BY DEF vars, cfVars
<1> QED BY <1>1, <1>2, <1>3, <1>4

\* Outside if conditions the control-flow visitor has walked into all of them.
LEMMA SeenAll ==
  ASSUME path \in Seq(Frames), Seen, NEW K
  PROVE  SeenAt(path, K) = OpenAt(K) /\ At(path, K) = OpenAt(K)
<1>1. \A i \in DOMAIN path : SeenTo(path, i)
  BY DEF Seen, SeenTo
<1> QED BY <1>1 DEF SeenAt, At, OpenAt

LEMMA WalkLexical ==
  ASSUME Walk, ContextFromStacks, AssertionsNoted
  PROVE  StacksAreLexical
<1>1. SUFFICES ASSUME context # Nothing
               PROVE  /\ context.scopes = EnclosingTries
                      /\ context.guards.branches = EnclosingBranches
                      /\ context.locals = OpenLocals
                      /\ AssertedInScope \subseteq Range(context.guards.assertions)
  BY DEF StacksAreLexical
<1>2. /\ Seen
      /\ context.scopes = Reverse(tryScopeStack)
      /\ context.guards.branches = Reverse(guardStack)
      /\ context.locals = FlattenSeq(scopeStack)
  BY <1>1 DEF ContextFromStacks
<1>3. /\ path \in Seq(Frames) /\ declared \in Seq(Locals) /\ scopeStack \in Seq(Seq(LocalFrames))
      /\ tryScopeStack = SeenTries(path) /\ guardStack = SeenBranches(path)
      /\ ScopesFollow(path, scopeStack, declared)
  BY DEF Walk, Walks
<1>4. Reverse(tryScopeStack) = EnclosingTries
  <2>1. SeenAt(path, {"try"}) = OpenAt({"try"})
    BY <1>2, <1>3, SeenAll
  <2>2. tryScopeStack = TryEntries(Listed(path, OpenAt({"try"})))
    BY <1>3, <2>1 DEF SeenTries
  <2> QED BY <2>2, Zenon DEF EnclosingTries, TryEntries
<1>5. Reverse(guardStack) = EnclosingBranches
  <2>1. SeenAt(path, {"then", "else"}) = OpenAt({"then", "else"})
    BY <1>2, <1>3, SeenAll
  <2>2. guardStack = BranchEntries(Listed(path, OpenAt({"then", "else"})))
    BY <1>3, <2>1 DEF SeenBranches
  <2> QED BY <2>2, Zenon DEF EnclosingBranches, BranchEntries
<1>6. FlattenSeq(scopeStack) = OpenLocals
  <2>1. Len(scopeStack) = Depth(path, Len(path)) /\ ScopesTo(path, scopeStack, declared, Len(path))
    <3>1. SeenTo(path, Len(path)) /\ Len(path) \in 0..Len(path)
      BY <1>2, <1>3, SeenPath
    <3> QED BY <1>3, <3>1 DEF ScopesFollow
  <2>2. SubSeq(scopeStack, 1, Len(scopeStack)) = scopeStack
    <3> DEFINE S == Seq(LocalFrames)
    <3>1. scopeStack \in Seq(S)
      BY <1>3
    <3> HIDE DEF S
    <3> QED BY <3>1
  <2>3. LiveTo(path, declared, Len(path)) = {i \in DOMAIN declared : StillOpen(declared[i])}
    <3>1. Len(path) \in Nat /\ \A i \in DOMAIN declared : declared[i].depth \in Nat
      <4>1. \A i \in DOMAIN declared : declared[i] \in Locals
        BY <1>3
      <4> QED BY <4>1, <1>3, FrameType
    <3>2. \A i \in DOMAIN declared : declared[i].depth <= Len(path) <=> Len(path) >= declared[i].depth
      BY <3>1
    <3> QED BY <3>2 DEF LiveTo, StillOpen
  <2>4. FlattenSeq(scopeStack) = LocalEntries(Listed(declared, {i \in DOMAIN declared : StillOpen(declared[i])}))
    BY <2>1, <2>2, <2>3 DEF ScopesTo
  <2> QED BY <2>4, Zenon DEF OpenLocals, LocalEntries
<1>7. AssertedInScope \subseteq Range(context.guards.assertions)
  <2>1. context.guards.assertions = assertionGuards
    BY <1>1 DEF ContextFromStacks
  <2>2. DOMAIN asserted = DOMAIN assertionGuards
    BY DEF AssertionsNoted
  <2>3. \A i \in DOMAIN asserted : asserted[i].at = assertionGuards[i]
    BY DEF AssertionsNoted
  <2> QED BY <2>1, <2>2, <2>3 DEF AssertedInScope, Range
<1> QED BY <1>2, <1>4, <1>5, <1>6, <1>7

\* However the program nests, a context shows the try statements, the branches
\* and the locals around the call, no more and no less (the stacks of
\* ControlFlowContextVisitor.cpp are pushed and popped along the traversal), and
\* the guards hold every assertion in scope.
THEOREM StacksCorrect == Spec => []StacksAreLexical
<1>1. Init => Walk /\ ContextFromStacks /\ AssertionsNoted
  <2>1. Init => Walk /\ ContextFromStacks
    BY InitWalk DEF Init, ContextFromStacks
  <2>2. Init => asserted = << >> /\ assertionGuards = << >>
    BY DEF Init
  <2>3. asserted = << >> /\ assertionGuards = << >> => AssertionsNoted
    BY DEF AssertionsNoted
  <2> QED BY <2>1, <2>2, <2>3
<1>2. Walk /\ ContextFromStacks /\ AssertionsNoted /\ [Next]_vars
        => Walk' /\ ContextFromStacks' /\ AssertionsNoted'
  BY WalkNext, StacksNext, NotesNext
<1>3. Walk /\ ContextFromStacks /\ AssertionsNoted => StacksAreLexical
  BY WalkLexical
<1> QED BY <1>1, <1>2, <1>3, PTL DEF Spec

-----------------------------------------------------------------------------
(* The flag for handlers.                                                    *)

\* The handlers the control-flow visitor is in; whether the innermost one has had
\* none left inside it; and that this is what the flag says.
HandlersIn(p)   == SeenAt(p, {"handler"})
Calm(H, sh)     == \E i \in H \ sh : \A j \in H : j <= i
CatchFollows    == insideCatchBlock = Calm(HandlersIn(path), shaken)

LEMMA HandlersAppend ==
  ASSUME NEW p \in Seq(Frames), NEW f \in Frames
  PROVE  /\ HandlersIn(p) \subseteq 1..Len(p)
         /\ f.kind = "handler" /\ SeenTo(p, Len(p)) =>
              HandlersIn(Append(p, f)) = HandlersIn(p) \cup {Len(p) + 1}
         /\ f.kind # "handler" \/ ~SeenTo(p, Len(p)) => HandlersIn(Append(p, f)) = HandlersIn(p)
<1> DEFINE q == Append(p, f)
<1>1. /\ DOMAIN p = 1..Len(p) /\ Len(p) \in Nat
      /\ DOMAIN q = 1..Len(p)+1
      /\ \A i \in 1..Len(p) : q[i] = p[i]
      /\ q[Len(p)+1] = f
  OBVIOUS
<1>2. /\ \A n \in 0..Len(p) : SeenTo(q, n) <=> SeenTo(p, n)
      /\ SeenTo(q, Len(p) + 1) <=> (SeenTo(p, Len(p)) /\ f.kind # "cond")
  BY SeenToAppend
<1> HIDE DEF q
<1>3. \A m \in 1..Len(p) : m \in HandlersIn(q) <=> m \in HandlersIn(p)
  BY <1>1, <1>2 DEF HandlersIn, SeenAt, At
<1>4. Len(p) + 1 \in HandlersIn(q) <=> f.kind = "handler" /\ SeenTo(p, Len(p))
  BY <1>1, <1>2 DEF HandlersIn, SeenAt, At
<1>5. HandlersIn(p) \subseteq 1..Len(p) /\ HandlersIn(q) \subseteq 1..Len(p)+1
  BY <1>1 DEF HandlersIn, SeenAt, At
<1> QED BY <1>1, <1>3, <1>4, <1>5 DEF q

\* Where no handler is entered or left the flag says what it said.
LEMMA CatchStays ==
  ASSUME CatchFollows, HandlersIn(path') = HandlersIn(path),
         UNCHANGED <<insideCatchBlock, shaken>>
  PROVE  CatchFollows'
<1>1. CatchFollows' <=> insideCatchBlock' = Calm(HandlersIn(path'), shaken')
  BY DEF CatchFollows, HandlersIn, SeenAt, At, SeenTo, Calm
<1> QED BY <1>1 DEF CatchFollows

\* A frame that is opened, no handler.
LEMMA CatchOpened ==
  ASSUME Walk, CatchFollows, NEW f \in Frames, f.kind # "handler", path' = Append(path, f),
         UNCHANGED <<insideCatchBlock, shaken>>
  PROVE  CatchFollows'
<1>1. path \in Seq(Frames)
  BY WalkType
<1> QED BY <1>1, HandlersAppend, CatchStays

\* Two frames that are opened, no handlers.
LEMMA CatchStarted ==
  ASSUME Walk, CatchFollows, NEW kind \in {"function", "conversion", "lambda", "try"},
         NEW more \in Nat, path' = path \o <<Frame(kind, more), Frame("block", 0)>>,
         UNCHANGED <<insideCatchBlock, shaken>>
  PROVE  CatchFollows'
<1> DEFINE f == Frame(kind, more)
           g == Frame("block", 0)
<1>1. path \in Seq(Frames) /\ nodes \in Nat
  BY WalkType
<1>2. f \in Frames /\ g \in Frames /\ f.kind # "handler" /\ g.kind # "handler"
  BY <1>1, FrameHere DEF Kinds
<1> HIDE DEF f, g
<1>3. path \o <<f, g>> = Append(Append(path, f), g) /\ Append(path, f) \in Seq(Frames)
  BY <1>1, <1>2
<1>4. HandlersIn(Append(path, f)) = HandlersIn(path)
  BY <1>1, <1>2, HandlersAppend
<1>5. HandlersIn(Append(Append(path, f), g)) = HandlersIn(Append(path, f))
  BY <1>2, <1>3, HandlersAppend
<1>6. path' = path \o <<f, g>>
  BY DEF f, g
<1> QED BY <1>3, <1>4, <1>5, <1>6, CatchStays

\* A frame that is closed, no handler.
LEMMA CatchClosed ==
  ASSUME Walk, CatchFollows, path # << >>, Last(path).kind # "handler", path' = Front(path),
         UNCHANGED <<insideCatchBlock, shaken>>
  PROVE  CatchFollows'
<1>1. path \in Seq(Frames)
  BY WalkType
<1>2. Front(path) \in Seq(Frames) /\ Last(path) \in Frames /\ path = Append(Front(path), Last(path))
  BY <1>1, SeenPath
<1>3. HandlersIn(path) = HandlersIn(Front(path))
  BY <1>2, HandlersAppend
<1> QED BY <1>3, CatchStays

\* A frame that becomes another one, neither a handler.
LEMMA HandlersReplaced ==
  ASSUME NEW p \in Seq(Frames), NEW f \in Frames, NEW g \in Frames,
         f.kind # "handler", g.kind # "handler"
  PROVE  HandlersIn(Append(p, g)) = HandlersIn(Append(p, f))
BY HandlersAppend

LEMMA CatchBranched ==
  ASSUME Walk, CatchFollows, path # << >>, Last(path).kind # "handler",
         NEW k \in {"then", "else"}, path' = [path EXCEPT ![Len(path)].kind = k],
         UNCHANGED <<insideCatchBlock, shaken>>
  PROVE  CatchFollows'
<1> DEFINE p == Front(path)
           f == Last(path)
           g == [Last(path) EXCEPT !.kind = k]
<1>1. path \in Seq(Frames)
  BY WalkType
<1>2. p \in Seq(Frames) /\ f \in Frames /\ path = Append(p, f)
  BY <1>1, SeenPath
<1>3. path' = Append(p, g) /\ g \in Frames
  <2>1. k \in Kinds
    BY DEF Kinds
  <2> HIDE DEF p
  <2> QED BY <1>1, <2>1, ReplacedFrame DEF p
<1>4. g.kind = k
  BY <1>2 DEF Frames
<1> HIDE DEF p, f, g
<1>5. HandlersIn(Append(p, g)) = HandlersIn(Append(p, f))
  <2>1. f.kind # "handler" /\ g.kind # "handler"
    BY <1>4 DEF f
  <2> QED BY <2>1, <1>2, <1>3, HandlersReplaced
<1> QED BY <1>2, <1>3, <1>5, CatchStays

LEMMA EnterHandlerCatch ==
  ASSUME Walk, CatchFollows, EnterHandler
  PROVE  CatchFollows'
<1> DEFINE p == Front(path)
           f == Last(path)
           g == [f EXCEPT !.more = @ - 1]
           h == [kind |-> "handler", at |-> f.at, more |-> f.more]
<1>1. /\ path \in Seq(Frames) /\ path # << >> /\ p \in Seq(Frames) /\ f \in Frames
      /\ path = Append(p, f) /\ Len(path) = Len(p) + 1 /\ Len(p) \in Nat
      /\ f.kind = "try" /\ f.more > 0
  BY WalkType, SeenPath DEF EnterHandler, Inside
<1>2. [path EXCEPT ![Len(path)].more = @ - 1] = Append(p, g) /\ g \in Frames
  <2> HIDE DEF p
  <2> QED BY <1>1, ReplacedFrame DEF p
<1>3. h \in Frames /\ h.kind = "handler" /\ g.kind = "try"
  BY <1>1 DEF Frames, Kinds
<1>4. /\ path' = Append(Append(p, g), h)
      /\ insideCatchBlock' = IF Seen THEN TRUE ELSE insideCatchBlock
      /\ shaken' = shaken \ {Len(path) + 1}
  BY <1>2 DEF EnterHandler
<1>5. Seen <=> SeenTo(p, Len(p))
  BY <1>1, SeenPath
<1> HIDE DEF p, f, g, h
<1>6. /\ Append(p, g) \in Seq(Frames) /\ Len(Append(p, g)) = Len(path)
      /\ SeenTo(Append(p, g), Len(path)) <=> Seen
  BY <1>1, <1>2, <1>3, <1>5, SeenToAppend
<1>7. /\ HandlersIn(Append(p, g)) = HandlersIn(path) /\ HandlersIn(path) \subseteq 1..Len(path)
  <2>1. HandlersIn(Append(p, g)) = HandlersIn(Append(p, f))
    BY <1>1, <1>2, <1>3, HandlersReplaced
  <2> QED BY <2>1, <1>1, <1>2, HandlersAppend
<1>8. CatchFollows' <=> insideCatchBlock' = Calm(HandlersIn(path'), shaken')
  BY DEF CatchFollows, HandlersIn, SeenAt, At, SeenTo, Calm
<1>9. Len(path) \in Nat
  BY <1>1
<1>10. CASE Seen
  <2>1. HandlersIn(path') = HandlersIn(path) \cup {Len(path) + 1}
    BY <1>3, <1>4, <1>6, <1>7, <1>10, HandlersAppend
  <2>2. \A j \in HandlersIn(path) : j \in Nat /\ j <= Len(path)
    BY <1>7, <1>9
  <2>3. Calm(HandlersIn(path'), shaken')
    BY <2>1, <2>2, <1>4, <1>9 DEF Calm
  <2>4. Calm(HandlersIn(path'), shaken') = TRUE
    BY <2>3 DEF Calm
  <2> QED BY <2>4, <1>4, <1>8, <1>10
<1>11. CASE ~Seen
  <2>1. HandlersIn(path') = HandlersIn(path)
    BY <1>3, <1>4, <1>6, <1>7, <1>11, HandlersAppend
  <2>2. Len(path) + 1 \notin HandlersIn(path)
    BY <1>7, <1>9
  <2>3. HandlersIn(path) \ shaken' = HandlersIn(path) \ shaken
    BY <2>2, <1>4
  <2> QED BY <2>1, <2>3, <1>4, <1>8, <1>11 DEF Calm, CatchFollows
<1> QED BY <1>10, <1>11

LEMMA LeaveHandlerCatch ==
  ASSUME Walk, CatchFollows, LeaveHandler
  PROVE  CatchFollows'
<1> DEFINE p == Front(path)
           f == Last(path)
<1>1. /\ path \in Seq(Frames) /\ path # << >> /\ p \in Seq(Frames) /\ f \in Frames
      /\ path = Append(p, f) /\ Len(p) \in Nat /\ DOMAIN p = 1..Len(p)
      /\ f.kind = "handler"
  BY WalkType, SeenPath DEF LeaveHandler, Inside
<1>2. Seen <=> SeenTo(p, Len(p))
  BY <1>1, SeenPath
<1>3. /\ path' = p
      /\ insideCatchBlock' = IF Seen THEN FALSE ELSE insideCatchBlock
      /\ shaken' = IF Seen THEN DOMAIN p ELSE shaken
  BY DEF LeaveHandler, AfterHandler
<1> HIDE DEF p, f
<1>4. HandlersIn(p) \subseteq 1..Len(p)
  BY <1>1, HandlersAppend
<1>5. CatchFollows' <=> insideCatchBlock' = Calm(HandlersIn(path'), shaken')
  BY DEF CatchFollows, HandlersIn, SeenAt, At, SeenTo, Calm
<1>6. CASE Seen
  <2>1. HandlersIn(path') \ shaken' = {}
    BY <1>1, <1>3, <1>4, <1>6
  <2>2. Calm(HandlersIn(path'), shaken') = FALSE
    BY <2>1 DEF Calm
  <2> QED BY <2>2, <1>3, <1>5, <1>6
<1>7. CASE ~Seen
  <2>1. HandlersIn(path) = HandlersIn(p)
    BY <1>1, <1>2, <1>7, HandlersAppend
  <2> QED BY <2>1, <1>3, <1>5, <1>7 DEF CatchFollows
<1> QED BY <1>6, <1>7

LEMMA CatchNext ==
  ASSUME Walk, CatchFollows, [Next]_vars
  PROVE  CatchFollows'
<1>1. ASSUME NEW kind \in {"function", "conversion"}, EnterFunction(kind) PROVE CatchFollows'
  BY <1>1, CatchStarted DEF EnterFunction
<1>2. CASE EnterLambda
  BY <1>2, CatchStarted DEF EnterLambda
<1>3. ASSUME NEW n \in 1..2, EnterTry(n) PROVE CatchFollows'
  <2>1. n \in Nat /\ path' = path \o <<Frame("try", n), Frame("block", 0)>>
    BY <1>3 DEF EnterTry
  <2>2. UNCHANGED <<insideCatchBlock, shaken>>
    BY <1>3 DEF EnterTry
  <2> QED BY <2>1, <2>2, CatchStarted
<1>4. CASE LeaveFunction \/ LeaveLambda \/ LeaveBlock \/ LeaveTry
  <2>1. /\ path # << >> /\ Last(path).kind # "handler" /\ path' = Front(path)
        /\ UNCHANGED <<insideCatchBlock, shaken>>
    BY <1>4 DEF LeaveFunction, LeaveLambda, LeaveBlock, LeaveTry, Inside, cfVars
  <2> QED BY <2>1, CatchClosed
<1>5. ASSUME NEW kind \in {"block", "cond"}, NEW more \in Nat, path' = Append(path, Frame(kind, more)),
             UNCHANGED <<insideCatchBlock, shaken>>
      PROVE  CatchFollows'
  <2>1. Frame(kind, more) \in Frames /\ Frame(kind, more).kind # "handler"
    BY WalkType, FrameHere DEF Kinds
  <2> QED BY <2>1, <1>5, CatchOpened
<1>6. CASE EnterBlock
  BY <1>5, <1>6 DEF EnterBlock
<1>7. ASSUME NEW n \in 1..2, EnterIf(n) PROVE CatchFollows'
  BY <1>5, <1>7 DEF EnterIf, cfVars
<1>8. CASE EnterHandler
  BY <1>8, EnterHandlerCatch
<1>9. CASE LeaveHandler
  BY <1>9, LeaveHandlerCatch
<1>10. CASE EnterThen
  BY <1>10, CatchBranched DEF EnterThen, Inside
<1>11. CASE LeaveBranch
  <2>1. /\ path # << >> /\ Last(path).kind # "handler" /\ UNCHANGED <<insideCatchBlock, shaken>>
        /\ path' = Front(path) \/ path' = [path EXCEPT ![Len(path)].kind = "else"]
    BY <1>11 DEF LeaveBranch, Inside
  <2> QED BY <2>1, CatchClosed, CatchBranched
<1>12. CASE \/ \E t \in LocalTypes : DeclareRaii(t)
            \/ \E s \in {"lambda", "call"} : DeclareCallable(s)
            \/ \E c \in Calls : VisitCall(c)
            \/ UNCHANGED vars
  <2>1. UNCHANGED <<path, insideCatchBlock, shaken>>
    BY <1>12 DEF DeclareRaii, DeclareCallable, VisitCall, vars, cfVars
  <2> QED BY <2>1, CatchStays
<1> QED BY <1>1, <1>2, <1>3, <1>4, <1>6, <1>7, <1>8, <1>9, <1>10, <1>11, <1>12 DEF Next

\* The flag of a context says that the innermost handler around the call has had
\* no other handler left inside it (insideCatchBlock_ is set before each handler
\* and reset after it, ControlFlowContextVisitor.cpp:268-272).
THEOREM CatchFlagCorrect == Spec => []CatchFlagFollows
<1>1. Init => Walk /\ ContextFromStacks /\ CatchFollows
  <2>1. Init => Walk /\ ContextFromStacks
    BY InitWalk DEF Init, ContextFromStacks
  <2>2. Init => CatchFollows
    <3>1. Init => path = << >> /\ insideCatchBlock = FALSE
      BY DEF Init
    <3>2. path = << >> => HandlersIn(path) = {}
      BY DEF HandlersIn, SeenAt, At
    <3>3. HandlersIn(path) = {} => Calm(HandlersIn(path), shaken) = FALSE
      BY DEF Calm
    <3> QED BY <3>1, <3>2, <3>3 DEF CatchFollows
  <2> QED BY <2>1, <2>2
<1>2. Walk /\ ContextFromStacks /\ CatchFollows /\ [Next]_vars
        => Walk' /\ ContextFromStacks' /\ CatchFollows'
  BY WalkNext, StacksNext, CatchNext
<1>3. Walk /\ ContextFromStacks /\ CatchFollows => CatchFlagFollows
  <2>1. SUFFICES ASSUME Walk, ContextFromStacks, CatchFollows, context # Nothing
                 PROVE  context.inCatch <=> Calm(OpenAt({"handler"}), shaken)
    BY DEF CatchFlagFollows, Calm
  <2>2. HandlersIn(path) = OpenAt({"handler"})
    BY <2>1, SeenAll, WalkType DEF HandlersIn, ContextFromStacks
  <2> QED BY <2>1, <2>2 DEF ContextFromStacks, CatchFollows
<1> QED BY <1>1, <1>2, <1>3, PTL DEF Spec

\* Hence a context is that of its call: stacks and catch flag both, in programs
\* of any size and depth (buildContext, ControlFlowContextVisitor.cpp).
THEOREM ContextCorrect == Spec => []ContextIsLexical
<1>1. StacksAreLexical /\ CatchFlagFollows => ContextIsLexical
  BY DEF ContextIsLexical
<1> QED BY <1>1, StacksCorrect, CatchFlagCorrect, PTL

-----------------------------------------------------------------------------
(* The edges of a call.                                                      *)

\* The lambda that the node just visited announces is the next node.
Awaited == LambdaIdent(nodes + 1, NonLambdaAt(funcStack))
Known(x) == x \in registered \/ (expect /\ x = Awaited)

\* A lambda that is kept or has an edge has its node, or gets it next, as
\* nothing comes before a lambda that is awaited.
LambdasKnown ==
  /\ expect \in BOOLEAN
  /\ expect => Inside({"block", "handler", "then", "else", "cond"})
  /\ holder # Nothing => holder.kind \in {"lambda", "returned"}
  /\ holder # Nothing /\ holder.kind = "lambda" => Known(holder)
  /\ \A e \in edges : e.callee.kind = "lambda" => Known(e.callee)

LEMMA EdgeParts ==
  /\ \A caller, callee, kind :
       /\ Edge(caller, callee, kind).caller = caller /\ Edge(caller, callee, kind).callee = callee
       /\ Edge(caller, callee, kind).kind = kind /\ Edge(caller, callee, kind).site = Here
  /\ \A c : Callee(c).kind = "callee"
  /\ Argument.kind = "argument" /\ Made.kind = "made"
  /\ \A at, enclosing : LambdaIdent(at, enclosing).kind = "lambda"
  BY DEF Edge, Callee, Argument, Made, LambdaIdent

LEMMA ArgEdgesAre ==
  ASSUME NEW c \in Calls, NEW caller, NEW e \in ArgEdges(c, caller)
  PROVE  /\ e.caller = caller /\ e.site = Here
         /\ \/ c.arg = "lambda" /\ e.callee = LambdaIdent(Here + 1, NonLambdaAt(funcStack))
            \/ c.arg = "function" /\ e.callee = Argument
            \/ c.arg = "variable" /\ holder # Nothing /\ e.callee = holder
<1>1. c.arg \in {"none", "lambda", "function", "variable"}
  BY CallsAssumption
<1>2. PICK kind : \/ c.arg = "lambda" /\ e = Edge(caller, LambdaIdent(Here + 1, NonLambdaAt(funcStack)), kind)
                  \/ c.arg = "function" /\ e = Edge(caller, Argument, kind)
                  \/ c.arg = "variable" /\ holder # Nothing /\ e = Edge(caller, holder, kind)
  <2>1. CASE c.arg = "lambda"
    BY <2>1 DEF ArgEdges, EnclosingNonLambdaName
  <2>2. CASE c.arg = "function"
    BY <2>2 DEF ArgEdges
  <2>3. CASE c.arg = "variable"
    BY <2>3 DEF ArgEdges
  <2>4. CASE c.arg = "none"
    BY <2>4 DEF ArgEdges
  <2> QED BY <1>1, <2>1, <2>2, <2>3, <2>4
<1> QED BY <1>2, EdgeParts

LEMMA ArgEdgesOfFunction ==
  ASSUME NEW c \in Calls, NEW caller, c.arg = "function"
  PROVE  \E e : ArgEdges(c, caller) = {e} /\ e.callee = Argument
  BY EdgeParts DEF ArgEdges

\* Whether the visit of the call records anything but an argument.
Usable(c) == ~c.collapsed /\ c.form # "implicit"

LEMMA CallEdgesAre ==
  ASSUME NEW c \in Calls, NEW caller, caller # Nothing, ~c.system
  PROVE  /\ ~Usable(c) => CallEdges(c, caller) = {}
         /\ \A e \in CallEdges(c, caller) :
              \/ ArgsProcessed(c) /\ e \in ArgEdges(c, caller)
              \/ e.caller = caller /\ e.site = Here /\ e.callee \in {Callee(c), Made}
         /\ Usable(c) /\ c.form # "indirect" => \E e \in CallEdges(c, caller) : e.callee = Callee(c)
         /\ ArgsProcessed(c) => ArgEdges(c, caller) \subseteq CallEdges(c, caller)
<1> DEFINE args == IF ArgsProcessed(c) THEN ArgEdges(c, caller) ELSE {}
           own  == CASE c.form = "indirect"  -> {}
                     [] c.form = "virtual"   -> {Edge(caller, Callee(c), "VirtualDispatch")}
                     [] c.form = "operator"  -> {Edge(caller, Callee(c), "OperatorCall")}
                     [] c.form = "construct" -> {Edge(caller, Callee(c), "ConstructorCall")}
                     [] c.form = "maker"     -> {Edge(caller, Made, "ConstructorCall"),
                                                 Edge(caller, Callee(c), "DirectCall")}
                     [] OTHER                -> {Edge(caller, Callee(c), "DirectCall")}
<1>1. CallEdges(c, caller) = IF Usable(c) THEN args \cup own ELSE {}
  BY DEF CallEdges, Usable
<1>2. ArgsProcessed(c) => Usable(c)
  BY DEF ArgsProcessed, Usable
<1>3. c.form \in Forms
  BY CallsAssumption
<1>4. \A e \in own : e.caller = caller /\ e.site = Here /\ e.callee \in {Callee(c), Made}
  BY <1>3, EdgeParts DEF Forms
<1>5. c.form # "indirect" => \E e \in own : e.callee = Callee(c)
  BY <1>3, EdgeParts DEF Forms
<1> HIDE DEF own
<1> QED BY <1>1, <1>2, <1>4, <1>5

LEMMA RefEdgesAre ==
  ASSUME NEW c \in Calls, NEW caller
  PROVE  /\ \A e \in RefEdges(c, caller) : e.callee = Argument
         /\ (caller # Nothing /\ ~c.system /\ c.arg = "function" /\ ~ArgsProcessed(c)) =>
              \E e : RefEdges(c, caller) = {e}
         /\ c.system \/ ArgsProcessed(c) \/ caller = Nothing => RefEdges(c, caller) = {}
  BY EdgeParts DEF RefEdges

LEMMA CallerIs ==
  ASSUME NEW stack
  PROVE  (CurrentFunction(stack) = Nothing) <=> stack = << >>
  BY SomeThing DEF CurrentFunction

\* A function named as an argument has one edge.
LEMMA ArgumentOnce ==
  ASSUME LambdasKnown, NEW c \in Calls, VisitCall(c),
         c.arg = "function", ~c.system, funcStack # << >>
  PROVE  \E e \in edges' : \A o \in edges' : (o.callee = Argument) = (o = e)
<1> DEFINE caller == CurrentFunction(funcStack)
<1>1. caller # Nothing
  BY CallerIs
<1>2. edges' = CallEdges(c, caller) \cup RefEdges(c, caller)
  BY DEF VisitCall
<1> HIDE DEF caller
<1>3. Callee(c) # Argument /\ Made # Argument
  BY EdgeParts
<1>4. CASE ArgsProcessed(c)
  <2>1. PICK e : ArgEdges(c, caller) = {e} /\ e.callee = Argument
    BY ArgEdgesOfFunction
  <2>2. RefEdges(c, caller) = {} /\ e \in CallEdges(c, caller)
    BY <1>1, <1>4, <2>1, RefEdgesAre, CallEdgesAre
  <2>3. \A o \in CallEdges(c, caller) : o = e \/ o.callee \in {Callee(c), Made}
    BY <1>1, <2>1, CallEdgesAre
  <2>4. e \in edges' /\ \A o \in edges' : (o.callee = Argument) = (o = e)
    BY <1>2, <1>3, <2>1, <2>2, <2>3
  <2> QED BY <2>4
<1>5. CASE ~ArgsProcessed(c)
  <2>1. PICK e : RefEdges(c, caller) = {e} /\ e.callee = Argument
    BY <1>1, <1>5, RefEdgesAre
  <2>2. \A o \in CallEdges(c, caller) : o.callee \in {Callee(c), Made}
    BY <1>1, <1>5, CallEdgesAre
  <2>3. e \in edges' /\ \A o \in edges' : (o.callee = Argument) = (o = e)
    BY <1>2, <1>3, <2>1, <2>2
  <2> QED BY <2>3
<1> QED BY <1>4, <1>5

\* Outside lambdas and conditions both visitors are in the same function, so
\* that the call has the same caller for both, if it has one at all.
LEMMA JoinAtCall ==
  ASSUME Walk, LambdasKnown, NEW c \in Calls, VisitCall(c)
  PROVE  EdgesJoinContexts'
<1> DEFINE caller == CurrentFunction(funcStack)
           own    == {e \in edges' : e.callee = Callee(c)}
<1>1. SUFFICES ASSUME c.form # "indirect", c.assertion = "no", ~InLambda, Seen
               PROVE  /\ (own = {}) = (context' = Nothing)
                      /\ \A e \in own : /\ e.caller = context'.caller /\ e.callee = context'.callee
                                        /\ e.site = context'.site
  <2>1. call' = c /\ path' = path
    BY DEF VisitCall
  <2>2. (Callee(call))' = Callee(c)
    BY <2>1 DEF Callee
  <2>3. (InLambda' <=> InLambda) /\ (Seen' <=> Seen)
    BY <2>1 DEF InLambda, OpenAt, Seen
  <2> QED BY <2>1, <2>2, <2>3 DEF EdgesJoinContexts
<1>2. funcStack = cfFuncStack
  <2>1. path \in Seq(Frames) /\ funcStack = Functions(path) /\ cfFuncStack = SeenFunctions(path)
    BY DEF Walk, Walks
  <2>2. At(path, {"function", "lambda"}) = OpenAt({"function", "lambda"})
    BY <1>1, <2>1, SeenAll
  <2>3. SeenAt(path, {"function"}) = OpenAt({"function"})
    BY <1>1, <2>1, SeenAll
  <2>4. OpenAt({"function", "lambda"}) = OpenAt({"function"})
    BY <1>1 DEF InLambda, OpenAt
  <2> QED BY <2>1, <2>2, <2>3, <2>4 DEF Functions, SeenFunctions
<1>3. /\ edges' = CallEdges(c, caller) \cup RefEdges(c, caller)
      /\ context' = IF caller # Nothing /\ ~c.system /\ Usable(c) THEN BuildContext(caller, Callee(c)) ELSE Nothing
  BY <1>1, <1>2 DEF VisitCall, Usable
<1> HIDE DEF caller
<1>4. /\ Callee(c) # Argument /\ Callee(c) # Made /\ Callee(c).kind = "callee"
      /\ \A at, enclosing : Callee(c) # LambdaIdent(at, enclosing)
      /\ holder # Nothing => Callee(c) # holder
  BY EdgeParts DEF LambdasKnown
<1>5. CASE caller # Nothing /\ ~c.system /\ Usable(c)
  <2>1. context' = BuildContext(caller, Callee(c)) /\ context' # Nothing
    BY <1>3, <1>5, SomeThing
  <2>2. context'.caller = caller /\ context'.callee = Callee(c) /\ context'.site = Here
    BY <2>1 DEF BuildContext
  <2>3. own # {}
    BY <1>1, <1>3, <1>5, CallEdgesAre
  <2>4. ASSUME NEW e \in own PROVE e.caller = caller /\ e.site = Here /\ e.callee = Callee(c)
    <3>1. e.callee = Callee(c) /\ e \in CallEdges(c, caller) \cup RefEdges(c, caller)
      BY <1>3
    <3>2. e \in CallEdges(c, caller)
      BY <3>1, <1>4, RefEdgesAre
    <3>3. e \notin ArgEdges(c, caller)
      BY <3>1, <1>4, ArgEdgesAre
    <3> QED BY <1>5, <3>1, <3>2, <3>3, CallEdgesAre
  <2> QED BY <2>1, <2>2, <2>3, <2>4
<1>6. CASE ~(caller # Nothing /\ ~c.system /\ Usable(c))
  <2>1. context' = Nothing
    BY <1>3, <1>6
  <2>2. CallEdges(c, caller) = {}
    BY <1>6 DEF CallEdges, Usable
  <2>3. own = {}
    BY <2>2, <1>3, <1>4, RefEdgesAre
  <2> QED BY <2>1, <2>3
<1> QED BY <1>5, <1>6

LEMMA JoinNext ==
  ASSUME Walk, LambdasKnown, EdgesJoinContexts, [Next]_vars
  PROVE  EdgesJoinContexts'
<1>1. ASSUME NEW c \in Calls, VisitCall(c) PROVE EdgesJoinContexts'
  BY <1>1, JoinAtCall
<1>2. CASE UNCHANGED vars
  BY <1>2 DEF vars, edgeVars, cfVars, EdgesJoinContexts, InLambda, OpenAt, Seen
<1>3. CASE ~(\E c \in Calls : VisitCall(c)) /\ Next
  <2>1. call' = Nothing
    BY <1>3 DEF Next, EnterFunction, LeaveFunction, EnterLambda, LeaveLambda, EnterBlock, LeaveBlock,
                EnterTry, EnterIf, EnterHandler, LeaveHandler, LeaveTry, EnterThen, LeaveBranch,
                DeclareRaii, DeclareCallable, Silent
  <2> QED BY <2>1 DEF EdgesJoinContexts, Nothing
<1> QED BY <1>1, <1>2, <1>3

\* Nothing but the lambda itself is walked while it is awaited.
LEMMA OnlyLambda ==
  ASSUME LambdasKnown, expect, Next
  PROVE  EnterLambda
<1>1. ~Inside({"function", "conversion"}) /\ ~Inside({"lambda"}) /\ ~Inside({"try"}) /\ expect = TRUE
  BY DEF LambdasKnown, Inside
<1> QED BY <1>1 DEF Next, CanOpen, EnterFunction, LeaveFunction, LeaveLambda, EnterBlock, LeaveBlock,
                EnterTry, EnterIf, EnterHandler, LeaveHandler, LeaveTry, EnterThen, LeaveBranch,
                DeclareRaii, DeclareCallable, VisitCall

\* At the call every lambda among the arguments is announced or known.
LEMMA LambdasAtCall ==
  ASSUME Walk, LambdasKnown, NEW c \in Calls, VisitCall(c)
  PROVE  LambdasKnown'
<1> DEFINE caller == CurrentFunction(funcStack)
<1>1. /\ nodes' = nodes + 1 /\ expect = FALSE /\ expect' = (c.arg = "lambda")
      /\ path' = path /\ funcStack' = funcStack /\ holder' = holder
      /\ registered \subseteq registered'
      /\ edges' = CallEdges(c, caller) \cup RefEdges(c, caller)
  BY DEF VisitCall, Here, CanOpen, LambdasKnown
<1> HIDE DEF caller
<1>2. (expect' => Inside({"block", "handler", "then", "else", "cond"})') /\ expect' \in BOOLEAN
  <2>1. Inside({"block", "handler", "then", "else", "cond"})
    BY DEF VisitCall, InBody, Inside
  <2> QED BY <1>1, <2>1 DEF Inside
<1>3. holder # Nothing /\ holder.kind = "lambda" => holder \in registered'
  BY <1>1 DEF LambdasKnown, Known
<1>4. ASSUME NEW e \in edges', e.callee.kind = "lambda"
      PROVE  e.callee \in registered' \/ (expect' /\ e.callee = Awaited')
  <2>1. e \in CallEdges(c, caller) /\ caller # Nothing /\ ~c.system
    <3>1. e \notin RefEdges(c, caller)
      BY <1>4, EdgeParts, RefEdgesAre
    <3>2. e \in CallEdges(c, caller)
      BY <1>1, <3>1
    <3> QED BY <3>2 DEF CallEdges
  <2>2. e \in ArgEdges(c, caller)
    BY <1>4, <2>1, EdgeParts, CallEdgesAre
  <2>3. \/ c.arg = "lambda" /\ e.callee = LambdaIdent(Here + 1, NonLambdaAt(funcStack))
        \/ c.arg = "function" /\ e.callee = Argument
        \/ c.arg = "variable" /\ holder # Nothing /\ e.callee = holder
    BY <2>2, ArgEdgesAre
  <2>4. Awaited' = LambdaIdent(Here + 1, NonLambdaAt(funcStack))
    BY <1>1 DEF Awaited, Here
  <2> QED BY <1>1, <1>3, <1>4, <2>3, <2>4, EdgeParts
<1> QED BY <1>1, <1>2, <1>3, <1>4, Zenon DEF LambdasKnown, Known

LEMMA LambdasNext ==
  ASSUME Walk, LambdasKnown, [Next]_vars
  PROVE  LambdasKnown'
<1>1. CASE EnterLambda
  <2>1. /\ expect' = FALSE /\ holder' = holder /\ edges' = edges
        /\ registered' = registered \cup {Awaited}
    BY <1>1 DEF EnterLambda, Awaited, Here
  <2> QED BY <2>1 DEF LambdasKnown, Known
<1>2. ASSUME NEW c \in Calls, VisitCall(c) PROVE LambdasKnown'
  BY <1>2, LambdasAtCall
<1>3. ASSUME NEW s \in {"lambda", "call"}, DeclareCallable(s) PROVE LambdasKnown'
  <2>1. /\ nodes' = nodes + 1 /\ expect' = (s = "lambda") /\ edges' = {}
        /\ path' = path /\ funcStack' = funcStack /\ Inside({"block"})
    BY <1>3 DEF DeclareCallable, Here, Silent
  <2>2. Inside({"block", "handler", "then", "else", "cond"})' /\ expect' \in BOOLEAN
    BY <2>1 DEF Inside
  <2>3. CASE s = "lambda"
    <3>1. holder' = Awaited' /\ expect' /\ holder'.kind = "lambda"
      <4>1. Awaited' = LambdaIdent(Here + 1, NonLambdaAt(funcStack))
        BY <2>1 DEF Awaited, Here
      <4>2. holder' = LambdaIdent(Here + 1, NonLambdaAt(funcStack))
        BY <1>3, <2>3 DEF DeclareCallable
      <4>3. holder'.kind = "lambda"
        <5>1. \A at, enclosing : LambdaIdent(at, enclosing).kind = "lambda"
          BY EdgeParts
        <5> QED BY <4>2, <5>1
      <4> QED BY <2>1, <2>3, <4>1, <4>2, <4>3
    <3> QED BY <2>1, <2>2, <3>1 DEF LambdasKnown, Known
  <2>4. CASE s = "call"
    <3>1. holder'.kind = "returned"
      BY <1>3, <2>4 DEF DeclareCallable
    <3> QED BY <2>1, <2>2, <2>4, <3>1 DEF LambdasKnown, Known
  <2> QED BY <2>3, <2>4
<1>4. CASE UNCHANGED vars
  BY <1>4 DEF vars, edgeVars, cfVars, LambdasKnown, Known, Awaited, NonLambdaAt, Inside
<1>5. CASE /\ Next /\ ~EnterLambda /\ ~(\E c \in Calls : VisitCall(c))
           /\ ~(\E s \in {"lambda", "call"} : DeclareCallable(s))
  <2>1. expect = FALSE
    BY <1>5, OnlyLambda DEF LambdasKnown
  <2>2. edges' = {} /\ expect' = expect /\ holder' = holder /\ registered' = registered
    BY <1>5 DEF Next, EnterFunction, LeaveFunction, LeaveLambda, EnterBlock, LeaveBlock,
                EnterTry, EnterIf, EnterHandler, LeaveHandler, LeaveTry, EnterThen, LeaveBranch,
                DeclareRaii, Silent
  <2> QED BY <2>1, <2>2 DEF LambdasKnown, Known
<1> QED BY <1>1, <1>2, <1>3, <1>4, <1>5

LEMMA CallablesNext ==
  ASSUME Walk, LambdasKnown, CallablesFollowed, [Next]_vars
  PROVE  CallablesFollowed'
<1>1. ASSUME NEW e \in edges', e.callee.kind = "lambda"
      PROVE  expect' \/ e.callee \in registered'
  BY <1>1, LambdasNext DEF LambdasKnown, Known
<1>2. ASSUME call' # Nothing, call'.arg = "function", ~call'.system, funcStack' # << >>
      PROVE  \E e \in edges' : \A o \in edges' : (o.callee = Argument) = (o = e)
  <2>1. ASSUME NEW c \in Calls, VisitCall(c)
        PROVE  \E e \in edges' : \A o \in edges' : (o.callee = Argument) = (o = e)
    <3>1. call' = c /\ funcStack' = funcStack
      BY <2>1 DEF VisitCall
    <3> QED BY <1>2, <2>1, <3>1, ArgumentOnce
  <2>2. CASE UNCHANGED vars
    <3>1. UNCHANGED <<call, edges, funcStack>>
      BY <2>2 DEF vars, edgeVars
    <3> QED BY <1>2, <3>1 DEF CallablesFollowed
  <2>3. CASE ~(\E c \in Calls : VisitCall(c)) /\ Next
    <3>1. call' = Nothing
      BY <2>3 DEF Next, EnterFunction, LeaveFunction, EnterLambda, LeaveLambda, EnterBlock, LeaveBlock,
                  EnterTry, EnterIf, EnterHandler, LeaveHandler, LeaveTry, EnterThen, LeaveBranch,
                  DeclareRaii, DeclareCallable, Silent
    <3> QED BY <1>2, <3>1
  <2> QED BY <2>1, <2>2, <2>3
<1>3. (\E e \in edges : \A o \in edges : (o.callee = Argument) = (o = e))' <=>
        \E e \in edges' : \A o \in edges' : (o.callee = Argument) = (o = e)
  BY DEF Argument
<1> QED BY <1>1, <1>2, <1>3 DEF CallablesFollowed

LEMMA InitLambdas ==
  ASSUME Init
  PROVE  LambdasKnown /\ EdgesJoinContexts /\ CallablesFollowed
  BY DEF Init, LambdasKnown, EdgesJoinContexts, CallablesFollowed, Nothing

\* Whatever the visitors are in, outside lambdas and conditions the edge of a
\* call and its context name the same caller, callee and site.
THEOREM JoinCorrect == Spec => []EdgesJoinContexts
<1>1. Init => Walk /\ LambdasKnown /\ EdgesJoinContexts
  BY InitWalk, InitLambdas
<1>2. Walk /\ LambdasKnown /\ EdgesJoinContexts /\ [Next]_vars
        => Walk' /\ LambdasKnown' /\ EdgesJoinContexts'
  BY WalkNext, LambdasNext, JoinNext
<1> QED BY <1>1, <1>2, PTL DEF Spec

\* However lambdas nest, an edge to a lambda ends at the node the indexer gives
\* it, and a function handed on by name has exactly one edge.
THEOREM CallablesCorrect == Spec => []CallablesFollowed
<1>1. Init => Walk /\ LambdasKnown /\ CallablesFollowed
  BY InitWalk, InitLambdas
<1>2. Walk /\ LambdasKnown /\ CallablesFollowed /\ [Next]_vars
        => Walk' /\ LambdasKnown' /\ CallablesFollowed'
  BY WalkNext, LambdasNext, CallablesNext
<1> QED BY <1>1, <1>2, PTL DEF Spec
=============================================================================
