---------------------------- MODULE GlobalIndex ----------------------------
(***************************************************************************)
(* anneal's index of the whole program (src/anneal/GlobalIndex.cpp): what  *)
(* the translation units declare, merged.  An index is a record of         *)
(* sequences in insertion order; each add runs under the index's mutex.    *)
(* Names, sites, headers and hashes are values; a "name|signature" key of  *)
(* the code is a name here.                                                *)
(***************************************************************************)
EXTENDS Naturals, Sequences, FiniteSets, SequencesExt

EmptyIndex ==
  [overload |-> <<>>, guide |-> <<>>, specialization |-> <<>>, coverage |-> <<>>,
   odr |-> <<>>, defaultArg |-> <<>>, exceptionSpec |-> <<>>, headerStatic |-> <<>>,
   staticInit |-> <<>>, summary |-> <<>>,
   base |-> <<>>, ctorEdge |-> <<>>, convOp |-> <<>>]

(* Overloads, guides and coverage entries are kept as often as they are seen. *)
Append1(index, e) == [index EXCEPT ![e.kind] = Append(@, e)]

(* The others once: their keys are all of the entry.                          *)
AppendNew(index, e) == IF e \in ToSet(index[e.kind]) THEN index ELSE Append1(index, e)

Union(s, t) == s \o SelectSeq(t, LAMBDA x : x \notin ToSet(s))
At(s, P(_)) == {i \in DOMAIN s : P(s[i])}

(* addHeaderStatic: one entry per site, with the TUs that have a copy.        *)
AddHeaderStatic(index, e) ==
  LET at == At(index.headerStatic, LAMBDA x : x.site = e.site)
  IN IF at = {} THEN Append1(index, e)
     ELSE [index EXCEPT !.headerStatic[CHOOSE i \in at : TRUE].tus = Union(@, e.tus)]

(* addFunctionSummary: definitions that share a name are merged.              *)
(* Faulty variant: the summary seen first stands for all.                     *)
FirstSummaryWins(old, e) == old
MergeSummary(old, e) ==
  [old EXCEPT !.noexcept = @ \/ e.noexcept, !.throws = @ \/ e.throws,
              !.called = Union(@, e.called), !.unguarded = Union(@, e.unguarded),
              !.globals = Union(@, e.globals)]

AddSummary(index, e) ==
  LET at == At(index.summary, LAMBDA x : x.name = e.name)
  IN IF at = {} THEN Append1(index, e)
     ELSE [index EXCEPT !.summary[CHOOSE i \in at : TRUE] = MergeSummary(@, e)]

(* addStaticInit: the initializer expression is not part of the key.          *)
AddStaticInit(index, e) ==
  IF At(index.staticInit, LAMBDA x : x.name = e.name /\ x.file = e.file /\ x.line = e.line) = {}
  THEN Append1(index, e) ELSE index

AddEntry(index, e) ==
  CASE e.kind \in {"overload", "guide", "coverage"} -> Append1(index, e)
    [] e.kind = "headerStatic" -> AddHeaderStatic(index, e)
    [] e.kind = "summary"      -> AddSummary(index, e)
    [] e.kind = "staticInit"   -> AddStaticInit(index, e)
    [] OTHER                   -> AppendNew(index, e)

(* The look-ups: a static by its name gives the one inserted first.           *)
Named(s, name) == SelectSeq(s, LAMBDA x : x.name = name)
FindStaticInit(index, name)      == Named(index.staticInit, name)
FindFunctionSummary(index, name) == Named(index.summary, name)
-----------------------------------------------------------------------------
(* Types: [name, ptr, qual]; matching drops qualifiers and references.        *)
Arithmetic == {"int", "double"}
Normalize(t)    == [t EXCEPT !.qual = ""]
Pointee(t)      == [t EXCEPT !.ptr = FALSE]
IsArithmetic(t) == t.name \in Arithmetic /\ ~t.ptr

Related(s, x) == {e.value : e \in {y \in ToSet(s) : y.key = x}}

Bases(index, x) ==
  LET f[n \in 0 .. Len(index.base)] ==
        IF n = 0 THEN {x} ELSE f[n - 1] \cup UNION {Related(index.base, y) : y \in f[n - 1]}
  IN f[Len(index.base)]
(* Faulty variant: only the direct bases are looked at.                      *)
DirectBaseOrSelf(index, derived, x) == x \in {derived} \cup Related(index.base, derived)
IsBaseOrSelf(index, derived, x) == x \in Bases(index, derived)

IsConvertible(index, from, to) ==
  \/ from = to
  \/ IsArithmetic(from) /\ IsArithmetic(to)
  \/ from.ptr = to.ptr /\ from # to /\ IsBaseOrSelf(index, Pointee(from), Pointee(to))
  \/ from \in Related(index.ctorEdge, to)
  \/ to \in Related(index.convOp, from)
=============================================================================
