--------------------------- MODULE AnnealIndexing ---------------------------
(***************************************************************************)
(* One anneal run seen through its index: the indexer's visitors           *)
(* (src/anneal/Indexer.cpp) of several translation units insert what they  *)
(* find into one index, interleaved as the worker threads happen to run;   *)
(* the checks of phase 1.5 read the index, then each TU is analysed        *)
(* against it.  Which TUs are parsed, journaled and skipped is AnnealRun.  *)
(***************************************************************************)
EXTENDS AnnealChecks

CONSTANT
  Programs   \* sets of sources: [tu, graph], where tu[t] = [decls, includes, calls,
             \* deductions, instances] and graph gives each function's callees

VARIABLES
  program,   \* the sources
  read,      \* how many facts of each TU have been inserted
  index,
  phase,     \* "index", "analyze" or "done"
  report,    \* the findings over the whole index
  analyzed,  \* the TUs phase 2 is done with
  perFile    \* the findings of each TU

vars == <<program, read, index, phase, report, analyzed, perFile>>

Sources == DOMAIN program.tu
(* What the indexer records of a TU.                                         *)
Facts(t) == FlattenSeq([i \in DOMAIN program.tu[t].decls |-> Entries(program.tu[t].decls[i])])

Init ==
  /\ program \in Programs
  /\ read = [t \in Sources |-> 0]
  /\ index = EmptyIndex
  /\ phase = "index" /\ report = {}
  /\ analyzed = {} /\ perFile = [t \in Sources |-> {}]

(* A visitor of t inserts its next fact.                                     *)
Record(t) ==
  /\ read[t] < Len(Facts(t))
  /\ read' = [read EXCEPT ![t] = @ + 1]
  /\ index' = AddEntry(index, Facts(t)[read[t] + 1])
  /\ UNCHANGED <<program, phase, report, analyzed, perFile>>

Indexed == \A t \in Sources : read[t] = Len(Facts(t))

CheckIndex ==
  /\ Indexed /\ phase = "index" /\ phase' = "analyze"
  /\ \E m \in [Classes(index) -> UNION {Majorities(index, c) : c \in Classes(index)}] :
       /\ \A c \in Classes(index) : m[c] \in Majorities(index, c)
       /\ report' = IndexFindings(index, m)
  /\ UNCHANGED <<program, read, index, analyzed, perFile>>

AnalyzeTU(t) ==
  /\ phase = "analyze" /\ t \notin analyzed /\ analyzed' = analyzed \cup {t}
  /\ perFile' = [perFile EXCEPT ![t] = TuFindings(index, program.tu[t])]
  /\ UNCHANGED <<program, read, index, phase, report>>

(* The command line's last check, over the call graph it builds as well.     *)
CheckHazards ==
  /\ phase = "analyze" /\ analyzed = Sources /\ phase' = "done"
  /\ report' = report \cup HazardFindings(index, program.graph)
  /\ UNCHANGED <<program, read, index, analyzed, perFile>>

Next ==
  \/ \E t \in Sources : Record(t)
  \/ CheckIndex
  \/ \E t \in Sources : AnalyzeTU(t)
  \/ CheckHazards

Spec == Init /\ [][Next]_vars
-----------------------------------------------------------------------------
AllFacts == UNION {ToSet(Facts(t)) : t \in Sources}
Of(kind) == {e \in AllFacts : e.kind = kind}
Flagged(check) == {f.name : f \in {g \in report : g.check = check}}

(* What each check is meant to find, from the facts alone.                   *)
DivergentNames == {e.name : e \in {x \in Of("odr") : \E y \in Of("odr") :
                     x.name = y.name /\ x.class = y.class /\ x.site = y.site /\ x.hash # y.hash}}
DuplicateNames == {e.name : e \in {x \in Of("odr") : \E y \in Of("odr") :
                     x.name = y.name /\ x.class = y.class /\ x.site # y.site /\ x.hash # y.hash}}
ClassNames  == {e.name : e \in {x \in Of("odr") : x.class}}
EnclosedIn(n) == {e.enclosing : e \in {x \in Of("odr") : x.name = n}}
(* What counts as an echo of its class: a duplicate, not a divergence, of a  *)
(* method whose class is reported as a duplicate (analyzeOdrViolations).     *)
Suppressed == {n \in DuplicateNames : \E c \in EnclosedIn(n) : c \in ClassNames \cap DuplicateNames /\ c \notin DivergentNames}

(* Whether an exception can leave a body: a throw inside a try counts as     *)
(* handled there, one in a handler does not.                                 *)
RECURSIVE Leaves(_)
Leaves(body) ==
  \E i \in DOMAIN body :
    \/ body[i].stmt = "throw"
    \/ body[i].stmt = "try" /\ \E h \in DOMAIN body[i].handlers : Leaves(body[i].handlers[h])
Functions == {d \in UNION {ToSet(program.tu[t].decls) : t \in Sources} :
                d.decl = "function" /\ d.defined /\ ~d.template /\ ~d.dependent /\ ~d.system /\ ~d.implicit}
Throwing  == {d.name : d \in {x \in Functions : Leaves(x.body)}}
NoExcept  == {e.name : e \in {x \in Of("summary") : x.noexcept}}
CalleesOf(n, field) == UNION {ToSet(e[field]) : e \in {x \in Of("summary") : x.name = n}}
Reached(seeds, field, stop) ==
  LET f[d \in 0 .. MaxDepth - 1] ==
        IF d = 0 THEN seeds ELSE f[d - 1] \cup UNION {CalleesOf(n, field) : n \in f[d - 1] \ stop}
  IN f[MaxDepth - 1]
(* A noexcept callee ends the walk, but its own throw counts: the code tests *)
(* it first (Analyzer.cpp:1140).                                             *)
Escaping == {n \in NoExcept : n \in Throwing
                              \/ Reached(CalleesOf(n, "unguarded"), "unguarded", NoExcept) \cap Throwing # {}}

(* Headers whose static two TUs have a copy of.  Of copies that are const in *)
(* some TUs only, the one inserted first says what they are                  *)
(* (addHeaderStatic).                                                        *)
Copied == {x.site : x \in {e \in Of("headerStatic") : \E y \in Of("headerStatic") :
                                                        e.site = y.site /\ e.tus # y.tus}}
CopiesOf(site)  == {e \in Of("headerStatic") : e.site = site}
MutableAt(site) == {e \in CopiesOf(site) : ~e.const}

(* A static that shares its name with another is looked up by that name: the *)
(* one inserted first is meant, whichever that is.                           *)
Ambiguous == {e.name : e \in {x \in Of("staticInit") : \E y \in Of("staticInit") : x # y /\ x.name = y.name}}
InitPairs ==
  {<<x.name, y.name>> : x \in {e \in Of("staticInit") : e.dynamic /\ ~e.ctorFn},
                        y \in {e \in Of("staticInit") : e.dynamic /\ ~e.ctorFn /\ e.name \notin Ambiguous}}
ReadsAtInit(x, y) ==
  \E e \in Of("staticInit"), t \in Of("staticInit") :
    /\ e.name = x /\ e.dynamic /\ ~e.ctorFn /\ t.name = y /\ t.file # e.file
    /\ \/ y \in ToSet(e.globals)
       \/ \E n \in Reached(ToSet(e.called), "called", {}) : y \in CalleesOf(n, "globals")

(* The hazards an initializer can reach in so many calls.                    *)
ReachesHazard(e) ==
  LET next(n) == IF n \in DOMAIN program.graph THEN ToSet(program.graph[n]) ELSE {}
      f[d \in 0 .. HazardDepth] ==
        IF d = 0 THEN IF e.ctorFn THEN {e.name} ELSE ToSet(e.called)
        ELSE f[d - 1] \cup UNION {next(n) : n \in f[d - 1]}
  IN f[HazardDepth] \cap Hazards # {}

(* Whatever the order in which the translation units' facts came in, the     *)
(* checks over the whole index flag what the facts call for, and nothing     *)
(* else: the divergent and the duplicate definitions, the default arguments, *)
(* exception specifications and header statics that differ or are copied     *)
(* (analyze... of Analyzer.cpp), the noexcept functions a throw can leave    *)
(* within the walk's depth, the pairs of statics whose order matters and the *)
(* initializers that reach a function they must not.  A header static is     *)
(* flagged whenever all its copies are mutable and never when none is; in    *)
(* between it depends on the order.                                          *)
FindingsExact ==
  phase # "index" =>
    /\ Flagged("odr-divergent") = DivergentNames
    /\ Flagged("odr-duplicate") = (DuplicateNames \ DivergentNames) \ Suppressed
    /\ Flagged("default-arg") = {e.name : e \in {x \in Of("defaultArg") :
                                  \E y \in Of("defaultArg") : x.name = y.name /\ x.text # y.text}}
    /\ Flagged("exception-spec") = {e.name : e \in {x \in Of("exceptionSpec") :
                                  \E y \in Of("exceptionSpec") : x.name = y.name /\ x.noexcept # y.noexcept}}
    /\ {f.where : f \in {g \in report : g.check = "header-static"}}
         \in {S \in SUBSET Copied : \A s \in Copied : /\ MutableAt(s) = CopiesOf(s) => s \in S
                                                     /\ s \in S => MutableAt(s) # {}}
    /\ Flagged("exception-escape") = Escaping
    /\ {<<f.name, f.other>> : f \in {g \in report : g.check = "static-init-order" /\ g.other \notin Ambiguous}}
         = {p \in InitPairs : ReadsAtInit(p[1], p[2])}
    /\ phase = "done" => Flagged("static-init-hazard") =
                           {e.name : e \in {x \in Of("staticInit") : x.dynamic /\ ReachesHazard(x)}}

(* Every class in a set that holds d and the bases of its members.           *)
Inherits(d, b) ==
  \A S \in SUBSET UNION {{e.key, e.value} : e \in Of("base")} :
    (d \in S /\ \A e \in Of("base") : e.key \in S => e.value \in S) => b \in S
Converts(a, c) ==
  \/ {a, c} \subseteq {[name |-> n, ptr |-> FALSE, qual |-> ""] : n \in Arithmetic}
  \/ a.ptr = c.ptr /\ Pointee(a) \in {e.key : e \in Of("base")} /\ Inherits(Pointee(a), Pointee(c))
  \/ \E e \in Of("ctorEdge") : e.key = c /\ e.value = a
  \/ \E e \in Of("convOp") : e.key = a /\ e.value = c

(* A call's arguments, each with the two parameters it may go to.            *)
Positions(c, o) ==
  {[arg |-> Normalize(c.args[i]), res |-> Normalize(c.resolved[i]), cand |-> Normalize(o.params[i])] :
     i \in DOMAIN c.args}
Viable(c, o)  == \A p \in Positions(c, o) : p.cand \in {p.arg, p.res} \/ Converts(p.arg, p.cand)
Better(c, o)  == \E p \in Positions(c, o) : p.cand = p.arg /\ p.res # p.arg
Worse(c, o)   == \E p \in Positions(c, o) : p.res = p.arg /\ p.cand # p.arg

(* In whatever order the conversions and overloads of the program came into  *)
(* the index, a call is reported exactly when an overload the TU does not    *)
(* see would take it, matching some argument exactly where the chosen one    *)
(* does not: as a fallback, or as an ambiguity if the chosen one also wins   *)
(* somewhere (VisitCallExpr).                                                *)
InvisibleOverloadsFound ==
  \A t \in analyzed :
    LET unseen(c) == {o \in Of("overload") : /\ o.name = c.name /\ o.header \notin program.tu[t].includes
                                             /\ o.params # c.resolved /\ Len(o.params) = Len(c.args)
                                             /\ Viable(c, o) /\ Better(c, o)}
    IN {f \in perFile[t] : f.check \in {"adl-fallback", "adl-ambiguity"}} =
       UNION {{Finding(IF Worse(c, o) THEN "adl-ambiguity" ELSE "adl-fallback", c.name, o.header, o.params) :
                 o \in unseen(c)} : c \in program.tu[t].calls}
=============================================================================
