---------------------------- MODULE AnnealChecks ----------------------------
(***************************************************************************)
(* anneal's checks (src/anneal/Analyzer.cpp), as functions of the merged   *)
(* index and, in phase 2, of one translation unit.  A finding is           *)
(* [check, name, where, other]: what it is about, the location printed     *)
(* with it, and the second declaration it names.  The messages are left    *)
(* out.                                                                    *)
(***************************************************************************)
EXTENDS Indexer

CONSTANTS
  MaxDepth,      \* kMaxDepth of the static-init-order and exception-escape walks (16)
  HazardDepth,   \* kMaxDepth of the static-init-hazards walk (25)
  Hazards,       \* the functions a static initializer must not reach
  ModelConvertibility, WarnSameScore  \* options of the ADL check

ASSUME DepthAssumption == MaxDepth \in Nat \ {0} /\ HazardDepth \in Nat

Finding(check, name, where, other) == [check |-> check, name |-> name, where |-> where, other |-> other]
Names(s)   == {s[i].name : i \in DOMAIN s}
-----------------------------------------------------------------------------
(* Coverage: a class's methods are compared with each other.  If two groups  *)
(* are largest the map's iteration order decides, hence the parameter.       *)
MethodsOf(index, c) == SelectSeq(index.coverage, LAMBDA m : m.class = c)
GvaOf(index, c)     == {m.gva : m \in ToSet(MethodsOf(index, c))}
GroupSize(index, c, g) == Len(SelectSeq(MethodsOf(index, c), LAMBDA m : m.gva = g))
Majorities(index, c) ==
  {g \in GvaOf(index, c) : \A h \in GvaOf(index, c) : GroupSize(index, c, g) >= GroupSize(index, c, h)}
Classes(index) == {m.class : m \in ToSet(index.coverage)}

CoverageFindings(index, majority) ==
  LET in(c) == ToSet(MethodsOf(index, c))
  IN UNION {
       {Finding("coverage-linkage", m.name, m.site, None) :
          m \in {x \in in(c) : x.gva \in {"DiscardableODR", "AvailableExternally"}}}
       \cup {Finding("coverage-mismatch", m.name, m.site, majority[c]) :
          m \in {x \in in(c) : x.gva # majority[c]}}
       \cup {Finding("coverage-divergence", p[1].name, p[1].site, p[2].name) :
          p \in {q \in in(c) \X in(c) : q[1].gva = q[2].gva /\ ~q[1].simple /\ q[2].simple}}
     : c \in Classes(index)}
-----------------------------------------------------------------------------
(* Checks that group entries by name and sites in the order first seen.      *)
SitesOf(s) == Distinct([i \in DOMAIN s |-> s[i].site])
HashesAt(s, site) == {e.hash : e \in {x \in ToSet(s) : x.site = site}}

Divergent(s)  == SelectSeq(SitesOf(s), LAMBDA x : Cardinality(HashesAt(s, x)) >= 2)
Duplicate(s)  == Divergent(s) = <<>> /\ Len(SitesOf(s)) >= 2 /\ Cardinality({e.hash : e \in ToSet(s)}) >= 2
OdrGroup(index, name, class) == SelectSeq(index.odr, LAMBDA e : e.name = name /\ e.class = class)
Enclosing(s)  == LET in == SelectSeq(s, LAMBDA e : e.enclosing # None)
                 IN IF in = <<>> THEN None ELSE Last(in).enclosing

OdrFindings(index) ==
  LET group(n, c) == OdrGroup(index, n, c)
      duplicated == {n \in Names(index.odr) : Duplicate(group(n, TRUE))}
      echo(n, c) == ~c /\ Enclosing(group(n, c)) \in duplicated
  IN UNION {IF Divergent(group(n, c)) # <<>>
            THEN {Finding("odr-divergent", n, Divergent(group(n, c))[1], None)}
            ELSE IF Duplicate(group(n, c)) /\ ~echo(n, c)
            THEN {Finding("odr-duplicate", n, SitesOf(group(n, c))[1], None)} ELSE {}
            : n \in Names(index.odr), c \in BOOLEAN}

DefaultArgFindings(index) ==
  LET group(n) == Named(index.defaultArg, n)
  IN {Finding("default-arg", n, group(n)[1].site, None) :
        n \in {x \in Names(index.defaultArg) : Cardinality({e.text : e \in ToSet(group(x))}) >= 2}}

(* A site that resolves both ways is named before the first site.            *)
ExceptionSpecFindings(index) ==
  LET group(n) == Named(index.exceptionSpec, n)
      specs(n, site) == {e.noexcept : e \in {x \in ToSet(group(n)) : x.site = site}}
      bothWays(n) == SelectSeq(SitesOf(group(n)), LAMBDA x : specs(n, x) = BOOLEAN)
  IN {Finding("exception-spec", n, (bothWays(n) \o SitesOf(group(n)))[1], None) :
        n \in {x \in Names(index.exceptionSpec) : {e.noexcept : e \in ToSet(group(x))} = BOOLEAN}}

HeaderStaticFindings(index) ==
  {Finding("header-static", e.name, e.site, None) :
     e \in {x \in ToSet(index.headerStatic) : ~x.const /\ Len(x.tus) >= 2}}
-----------------------------------------------------------------------------
(* The walks.  A queue holds [name, depth, chain]; a name is entered once.   *)
Fresh(s, seen) == SelectSeq(Distinct(s), LAMBDA x : x \notin seen)
Enter(names, depth, chain) ==
  [i \in DOMAIN names |-> [name |-> names[i], depth |-> depth, chain |-> Append(chain, names[i])]]

(* analyzeExceptionEscape: the throw of a callee counts before its noexcept  *)
(* stops the walk.                                                           *)
RECURSIVE EscapeWalk(_, _, _)
EscapeWalk(index, queue, seen) ==
  IF queue = <<>> THEN <<>>
  ELSE LET q == Head(queue)
           f == FindFunctionSummary(index, q.name)
       IN IF f # <<>> /\ f[1].throws THEN q.chain
          ELSE IF f = <<>> \/ q.depth + 1 >= MaxDepth \/ f[1].noexcept
          THEN EscapeWalk(index, Tail(queue), seen)
          ELSE LET new == Fresh(f[1].unguarded, seen)
               IN EscapeWalk(index, Tail(queue) \o Enter(new, q.depth + 1, q.chain), seen \cup ToSet(new))

EscapeChain(index, root) ==
  IF root.throws THEN <<root.name>>
  ELSE LET seeds == Fresh(root.unguarded, {})
       IN EscapeWalk(index, Enter(seeds, 0, <<>>), ToSet(seeds))

EscapeFindings(index) ==
  {Finding("exception-escape", r.name, r.site, Last(EscapeChain(index, r))) :
     r \in {x \in ToSet(index.summary) : x.noexcept /\ EscapeChain(index, x) # <<>>}}

(* analyzeStaticInitOrder: a name resolves to the static inserted first.     *)
ResolveTarget(index, entry, ref) ==
  LET t == FindStaticInit(index, ref)
  IN t # <<>> /\ t[1].dynamic /\ ~t[1].ctorFn /\ t[1].file # entry.file

RECURSIVE InitWalk(_, _, _, _, _)
InitWalk(index, entry, queue, seen, hit) ==
  IF queue = <<>> THEN hit
  ELSE LET q == Head(queue)
           f == FindFunctionSummary(index, q.name)
           read == IF f = <<>> THEN {}
                   ELSE {g \in ToSet(f[1].globals) : ResolveTarget(index, entry, g)}
           new == IF f = <<>> \/ q.depth + 1 >= MaxDepth THEN <<>> ELSE Fresh(f[1].called, seen)
       IN InitWalk(index, entry, Tail(queue) \o Enter(new, q.depth + 1, q.chain),
                   seen \cup ToSet(new), hit \cup read)

InitTargets(index, e) ==
  LET direct == {g \in ToSet(e.globals) : ResolveTarget(index, e, g)}
      seeds  == Fresh(e.called, {})
  IN InitWalk(index, e, Enter(seeds, 0, <<>>), ToSet(seeds), direct)

InitOrderFindings(index) ==
  UNION {{Finding("static-init-order", e.name, e.file, g) : g \in InitTargets(index, e)} :
           e \in {x \in ToSet(index.staticInit) : x.dynamic /\ ~x.ctorFn}}

(* analyzeStaticInitHazards: over the call graph; a hazard is seen when it   *)
(* is entered.                                                               *)
RECURSIVE HazardWalk(_, _, _)
HazardWalk(graph, queue, seen) ==
  IF queue = <<>> THEN <<>>
  ELSE LET q == Head(queue)
           new == IF q.depth >= HazardDepth \/ q.name \notin DOMAIN graph THEN <<>>
                  ELSE Fresh(graph[q.name], seen)
           hits == SelectSeq(new, LAMBDA x : x \in Hazards)
       IN IF hits # <<>> THEN Append(q.chain, hits[1])
          ELSE HazardWalk(graph, Tail(queue) \o Enter(new, q.depth + 1, q.chain), seen \cup ToSet(new))

HazardChain(graph, root) ==
  LET seeds == IF root.ctorFn THEN <<root.name>> ELSE Fresh(root.called, {})
      hits  == SelectSeq(seeds, LAMBDA x : x \in Hazards)
  IN IF hits # <<>> THEN <<hits[1]>>
     ELSE HazardWalk(graph, Enter(seeds, 0, <<>>), ToSet(seeds))

HazardFindings(index, graph) ==
  {Finding("static-init-hazard", r.name, r.file, Last(HazardChain(graph, r))) :
     r \in {x \in ToSet(index.staticInit) : x.dynamic /\ HazardChain(graph, x) # <<>>}}
-----------------------------------------------------------------------------
(* Phase 2: one TU's calls, deductions and instantiations against what the   *)
(* TU does not include.  A call is [name, args, resolved].                   *)
Score(index, arg, cand, res) ==
  CASE cand = arg -> 2
    [] cand # arg /\ \/ cand = res
                     \/ IsArithmetic(cand) /\ IsArithmetic(arg)
                     \/ ModelConvertibility /\ IsConvertible(index, arg, cand) -> 1
    [] OTHER -> 0

Scores(index, call, params) ==
  [i \in DOMAIN call.args |-> Score(index, Normalize(call.args[i]), Normalize(params[i]),
                                    Normalize(call.resolved[i]))]

CompareScores(resolved, candidate) ==
  LET candidateBetter == \E i \in DOMAIN resolved : candidate[i] > resolved[i]
      resolvedBetter  == \E i \in DOMAIN resolved : resolved[i] > candidate[i]
  IN CASE candidateBetter /\ ~resolvedBetter -> "adl-fallback"
       [] candidateBetter /\ resolvedBetter  -> "adl-ambiguity"
       [] WarnSameScore /\ ~candidateBetter /\ ~resolvedBetter -> "adl-same-score"
       [] OTHER -> None

AdlFindings(index, tu) ==
  UNION {
    LET known == Named(index.overload, c.name)
        other == {o \in ToSet(known) : /\ o.params # c.resolved /\ o.header \notin tu.includes
                                       /\ Len(o.params) = Len(c.args)
                                       /\ 0 \notin ToSet(Scores(index, c, o.params))}
    IN IF Len(known) <= 1 \/ Len(c.resolved) # Len(c.args) THEN {}
       ELSE {Finding(CompareScores(Scores(index, c, c.resolved), Scores(index, c, o.params)),
                     c.name, o.header, o.params) : o \in other}
    : c \in tu.calls}

CtadFindings(index, tu) ==
  {Finding("ctad-fallback", p[1].name, p[2].header, <<p[2].deduced>>) :
     p \in {q \in tu.deductions \X ToSet(index.guide) :
              q[1].name = q[2].name /\ q[2].header \notin tu.includes /\ q[2].deduced # q[1].deduced}}

SpecializationFindings(index, tu) ==
  {Finding("specialization", p[1].name, p[2].header, p[2].args) :
     p \in {q \in tu.instances \X ToSet(index.specialization) :
              q[1].name = q[2].name /\ q[1].args = q[2].args /\ q[2].header \notin tu.includes}}

TuFindings(index, tu) ==
  {f \in AdlFindings(index, tu) : f.check # None} \cup CtadFindings(index, tu)
    \cup SpecializationFindings(index, tu)

IndexFindings(index, majority) ==
  CoverageFindings(index, majority) \cup OdrFindings(index) \cup DefaultArgFindings(index)
    \cup InitOrderFindings(index) \cup EscapeFindings(index) \cup HeaderStaticFindings(index)
    \cup ExceptionSpecFindings(index)
=============================================================================
