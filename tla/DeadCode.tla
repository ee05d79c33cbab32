------------------------------ MODULE DeadCode ------------------------------
(***************************************************************************)
(* Liveness by reachability (src/anneal/DeadCodeAnalyzer.cpp).  The walk   *)
(* runs over usrs; entry points arrive as names and seed every function    *)
(* that has the name.  A virtual call that is only plausible is followed   *)
(* once some class that has the target as an implementation is known to be *)
(* constructed; until then it waits among the deferred edges.              *)
(***************************************************************************)
EXTENDS ExceptionOracle

CONSTANTS
  enclosingClass,  \* enclosingClass[usr], NoClass outside a class
  bases,           \* bases[class]: its direct bases, in order
  methods,         \* methods[class]: its virtual methods, [usr, name, pure]
  abstract         \* the classes that cannot be constructed

NoClass == "no class"
Classes == DOMAIN bases

(* computeEffectiveImpls: breadth first from the class up through its bases; *)
(* the first body met for a method name is the one the class runs.           *)
RECURSIVE Upward(_, _)
Upward(hierarchy, i) ==
  IF i > Len(hierarchy) THEN hierarchy ELSE Upward(hierarchy \o bases[hierarchy[i]], i + 1)

EffectiveImpls(cls) ==
  LET all  == FlattenSeq([i \in DOMAIN Upward(<<cls>>, 1) |-> methods[Upward(<<cls>>, 1)[i]]])
      body == SelectSeq(all, LAMBDA m : ~m.pure)
  IN {body[i].usr : i \in {n \in DOMAIN body : \A k \in 1 .. n - 1 : body[k].name # body[n].name}}

(* getClassesForImpl *)
ClassesForImpl(f) == {cls \in Classes \ abstract : f \in EffectiveImpls(cls)}

CalleesOf(p, name) == SelectSeq(p.edges, LAMBDA e : e.caller \in UsrsForName(name))

EnclosingClass(f) == IF f \in DOMAIN display THEN enclosingClass[f] ELSE NoClass
Dispatches(constructed, f) ==
  \/ ClassesForImpl(f) \cap constructed # {}
  \/ EnclosingClass(f) \in constructed

ShouldFollow(optimistic, constructed, e) ==
  \/ e.conf = "Proven"
  \/ optimistic /\ (e.kind = "VirtualDispatch" => Dispatches(constructed, e.callee))

Enqueue(s, f) ==
  IF f \in s.alive THEN s ELSE [s EXCEPT !.alive = @ \cup {f}, !.queue = Append(@, f)]

Construct(s, e) ==
  LET cls == EnclosingClass(e.callee)
  IN IF e.kind # "ConstructorCall" \/ cls = NoClass \/ cls \in s.constructed THEN s
     ELSE [s EXCEPT !.constructed = @ \cup {cls}, !.changed = TRUE]

(* One edge of a live function: first what it constructs, then whether it is *)
(* followed, put off or ignored.                                             *)
Consider(optimistic, s, e) ==
  LET c == Construct(s, e)
  IN IF ShouldFollow(optimistic, c.constructed, e) THEN Enqueue(c, e.callee)
     ELSE IF optimistic /\ e.kind = "VirtualDispatch" /\ e.conf = "Plausible"
     THEN [c EXCEPT !.deferred = Append(@, e.callee)]
     ELSE c

RECURSIVE Drain(_, _, _)
Drain(p, optimistic, s) ==
  IF s.queue = <<>> THEN s
  ELSE Drain(p, optimistic,
             FoldLeft(LAMBDA acc, e : Consider(optimistic, acc, e),
                      [s EXCEPT !.queue = Tail(@)], CalleesOf(p, s.queue[1])))

(* The deferred edges once more, against the classes known by now.           *)
(* Faulty variant: the edges put off are dropped.                            *)
ForgetDeferred(s) == [s EXCEPT !.deferred = <<>>]
Recheck(s) ==
  FoldLeft(LAMBDA acc, f :
             IF ~Dispatches(acc.constructed, f)
             THEN [acc EXCEPT !.deferred = Append(@, f)]
             ELSE IF f \in acc.alive THEN acc
             ELSE [Enqueue(acc, f) EXCEPT !.changed = TRUE],
           [s EXCEPT !.deferred = <<>>], s.deferred)

RECURSIVE BfsLoop(_, _, _)
BfsLoop(p, optimistic, s) ==
  LET d == Drain(p, optimistic, [s EXCEPT !.changed = FALSE])
      r == IF d.changed /\ optimistic THEN Recheck(d) ELSE d
  IN IF r.changed THEN BfsLoop(p, optimistic, r) ELSE r

(* bfs: seed walks the names in order.                                       *)
Bfs(p, optimistic, entryPoints) ==
  LET seeds == FlattenSeq([i \in DOMAIN entryPoints |->
                 SetToSeq(UsrsForName(entryPoints[i]))])
  IN BfsLoop(p, optimistic,
       FoldLeft(Enqueue, [alive |-> {}, queue |-> <<>>, constructed |-> {},
                          deferred |-> <<>>, changed |-> TRUE], seeds)).alive

(* getResults: keyed by display name; functions that share one get the most  *)
(* alive verdict among them.  An optimistic run that was not asked for finds *)
(* nothing.                                                                  *)
LivenessOf(p, entryPoints, optimistic) ==
  LET sure  == Bfs(p, FALSE, entryPoints)
      maybe == IF optimistic THEN Bfs(p, TRUE, entryPoints) ELSE {}
      Named(n) == {f \in DOMAIN display : display[f] = n}
  IN [n \in {display[f] : f \in DOMAIN display} |->
        IF Named(n) \cap sure # {} THEN "alive"
        ELSE IF Named(n) \cap maybe # {} THEN "optimistically_alive" ELSE "dead"]
=============================================================================
