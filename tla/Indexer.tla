------------------------------ MODULE Indexer ------------------------------
(***************************************************************************)
(* anneal's indexer (src/anneal/Indexer.cpp): the entries the visitors     *)
(* record for one declaration, in the order they record them.  What Clang  *)
(* says of a declaration is its record: "template" is a template's         *)
(* pattern, "dependent" what lies in a template or was instantiated from   *)
(* one, "implicit" what the compiler declares itself.  Both optional       *)
(* collections (ODR hashes, summaries) are on.                             *)
(***************************************************************************)
EXTENDS GlobalIndex

None == "none"
When(condition, entry) == IF condition THEN <<entry>> ELSE <<>>
-----------------------------------------------------------------------------
(* Bodies: sequences of [stmt |-> "call" / "read" / "throw", name] and       *)
(* [stmt |-> "try", block, handlers].                                        *)
(* The handlers of a try are at the depth of the try itself.                 *)
RECURSIVE Visit(_, _)
Visit(body, tryDepth) ==
  FlattenSeq([i \in DOMAIN body |->
    IF body[i].stmt = "try"
    THEN Visit(body[i].block, tryDepth + 1)
           \o FlattenSeq([h \in DOMAIN body[i].handlers |->
                            Visit(body[i].handlers[h], tryDepth)])
    ELSE <<[stmt |-> body[i].stmt, name |-> body[i].name, guarded |-> tryDepth > 0]>>])

Distinct(s) == FoldLeft(LAMBDA acc, x : IF x \in ToSet(acc) THEN acc ELSE Append(acc, x), <<>>, s)
NamesOf(events, P(_)) ==
  LET those == SelectSeq(events, P) IN Distinct([i \in DOMAIN those |-> those[i].name])

(* BodyCollector.                                                            *)
Collected(body) ==
  LET events == Visit(body, 0)
  IN [globals   |-> NamesOf(events, LAMBDA e : e.stmt = "read"),
      called    |-> NamesOf(events, LAMBDA e : e.stmt = "call"),
      unguarded |-> NamesOf(events, LAMBDA e : e.stmt = "call" /\ ~e.guarded),
      throws    |-> \E i \in DOMAIN events : events[i].stmt = "throw" /\ ~events[i].guarded]
-----------------------------------------------------------------------------
OdrFunction(d) ==
  When(d.defined /\ d.inlined /\ d.external /\ ~d.dependent /\ ~d.system,
       [kind |-> "odr", name |-> d.name, class |-> FALSE, enclosing |-> d.class,
        site |-> d.site, hash |-> d.hash])

DefaultArgs(d) ==
  When(d.external /\ ~d.dependent /\ ~d.system /\ d.default # None,
       [kind |-> "defaultArg", name |-> d.name, site |-> d.site, text |-> d.default])

ConstructorFn(d) ==
  When(d.constructorAttr /\ d.defined /\ ~d.system,
       [kind |-> "staticInit", name |-> d.name, file |-> d.file, line |-> d.site, dynamic |-> TRUE,
        ctorFn |-> TRUE, globals |-> <<>>, called |-> <<>>])

FunctionSummary(d) ==
  LET c == Collected(d.body)
  IN When(/\ d.defined /\ ~d.dependent /\ ~d.system
          /\ c.throws \/ c.called # <<>> \/ c.globals # <<>>,
          [kind |-> "summary", name |-> d.name, site |-> d.site, noexcept |-> d.noexcept,
           throws |-> c.throws, called |-> c.called, unguarded |-> c.unguarded, globals |-> c.globals])

ExceptionSpec(d) ==
  When(d.external /\ ~d.dependent /\ ~d.system /\ d.specKnown,
       [kind |-> "exceptionSpec", name |-> d.name, site |-> d.site, noexcept |-> d.noexcept])

FirstDeclaration(d) ==
  When(d.first, [kind |-> "overload", name |-> d.name, header |-> d.file, params |-> d.params])

CoverageProperty(d) ==
  When(d.class # None /\ d.defined /\ d.first,
       [kind |-> "coverage", class |-> d.class, name |-> d.name, site |-> d.site, gva |-> d.gva,
        simple |-> d.simple])

(* A constructor that can take one argument, and a conversion operator.      *)
ConvertingConstructor(d) ==
  When(d.special = "constructor" /\ ~d.explicit /\ ~d.template /\ d.required = 1,
       [kind |-> "ctorEdge", key |-> d.type, value |-> d.other])
ConversionOperator(d) ==
  When(d.special = "conversion" /\ ~d.explicit /\ ~d.template,
       [kind |-> "convOp", key |-> d.type, value |-> d.other])

VisitFunctionDecl(d) ==
  IF d.implicit THEN <<>>
  ELSE (IF d.template THEN <<>>
        ELSE OdrFunction(d) \o DefaultArgs(d) \o ConstructorFn(d) \o FunctionSummary(d)
               \o ExceptionSpec(d) \o FirstDeclaration(d))
       \o CoverageProperty(d) \o ConvertingConstructor(d) \o ConversionOperator(d)

HeaderStatic(d) ==
  When(~d.local /\ d.defined /\ ~d.dependent /\ ~d.external /\ ~d.inMainFile /\ ~d.system,
       [kind |-> "headerStatic", name |-> d.name, site |-> d.site, const |-> d.const, tus |-> <<d.tu>>])

StaticInit(d) ==
  LET c == Collected(d.body)
  IN When(~d.local /\ d.defined /\ d.hasInit /\ ~d.dependent /\ ~d.system,
          [kind |-> "staticInit", name |-> d.name, file |-> d.file, line |-> d.site,
           dynamic |-> d.dynamic, ctorFn |-> FALSE,
           globals |-> IF d.dynamic THEN c.globals ELSE <<>>,
           called  |-> IF d.dynamic THEN c.called ELSE <<>>])

VisitVarDecl(d) == HeaderStatic(d) \o StaticInit(d)

VisitCXXRecordDecl(d) ==
  IF d.implicit THEN <<>>
  ELSE When(d.defined /\ d.external /\ ~d.dependent /\ ~d.system,
            [kind |-> "odr", name |-> d.name, class |-> TRUE, enclosing |-> None,
             site |-> d.site, hash |-> d.hash])
       \o When(d.specializes # <<>> /\ ~d.system,
               [kind |-> "specialization", name |-> d.name, args |-> d.specializes, header |-> d.file])
       \o IF d.defined THEN [i \in DOMAIN d.bases |-> [kind |-> "base", key |-> d.type, value |-> d.bases[i]]]
          ELSE <<>>

VisitDeductionGuide(d) ==
  When(~d.implicit /\ d.first,
       [kind |-> "guide", name |-> d.name, header |-> d.file, deduced |-> d.deduced])

Entries(d) ==
  CASE d.decl = "function" -> VisitFunctionDecl(d)
    [] d.decl = "variable" -> VisitVarDecl(d)
    [] d.decl = "class"    -> VisitCXXRecordDecl(d)
    [] d.decl = "guide"    -> VisitDeductionGuide(d)
=============================================================================
