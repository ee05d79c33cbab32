-------------------------- MODULE MCAnnealIndexing --------------------------
(* Small programs, one family per check: every choice of what the            *)
(* declarations say, in two or three TUs whose visitors interleave.          *)
EXTENDS AnnealIndexing, TLC

Tu(decls) == [decls |-> decls, includes |-> {"h0"}, calls |-> {}, deductions |-> {}, instances |-> {}]
NoGraph == [n \in {} |-> <<>>]
Two(p, q)      == [tu |-> [a |-> Tu(p), b |-> Tu(q)], graph |-> NoGraph]
Three(p, q, r) == [tu |-> [a |-> Tu(p), b |-> Tu(q), c |-> Tu(r)], graph |-> NoGraph]
UpTo2(S) == {<<x>> : x \in S} \cup {s \in S \X S : s[1] # s[2]}

T(n)   == [name |-> n, ptr |-> FALSE, qual |-> ""]
Ptr(n) == [T(n) EXCEPT !.ptr = TRUE]
Ref(n) == [T(n) EXCEPT !.qual = "const &"]

Fun(n) ==
  [decl |-> "function", name |-> n, class |-> None, site |-> n, file |-> "b", params |-> <<>>,
   implicit |-> FALSE, template |-> FALSE, dependent |-> FALSE, system |-> FALSE, external |-> TRUE,
   inlined |-> FALSE, defined |-> FALSE, first |-> FALSE, explicit |-> FALSE, constructorAttr |-> FALSE,
   specKnown |-> FALSE, noexcept |-> FALSE, default |-> None, hash |-> 0, gva |-> "StrongExternal",
   simple |-> TRUE, body |-> <<>>, special |-> None, required |-> 0, type |-> T(n), other |-> T(n)]
Var(n, file) ==
  [decl |-> "variable", name |-> n, site |-> n, file |-> file, tu |-> file, local |-> FALSE, defined |-> TRUE,
   dependent |-> FALSE, system |-> FALSE, external |-> TRUE, inMainFile |-> TRUE, const |-> FALSE,
   hasInit |-> TRUE, dynamic |-> TRUE, body |-> <<>>]
Class(n) ==
  [decl |-> "class", name |-> n, type |-> T(n), site |-> n, file |-> "h1", implicit |-> FALSE,
   dependent |-> FALSE, system |-> FALSE, external |-> TRUE, defined |-> TRUE, hash |-> 0,
   specializes |-> <<>>, bases |-> <<>>]
Call(n) == [stmt |-> "call", name |-> n]
Read(n) == [stmt |-> "read", name |-> n]
Throw   == [stmt |-> "throw", name |-> ""]
Try(block, handler) == [stmt |-> "try", block |-> block, handlers |-> <<handler>>]

OdrClass(s, h)  == [Class("C") EXCEPT !.site = s, !.hash = h]
OdrMethod(s, h) == [Fun("C::m") EXCEPT !.class = "C", !.defined = TRUE, !.inlined = TRUE, !.site = s, !.hash = h]
OdrDecls == {OdrClass(s, h) : s \in {"h1:1", "h2:1"}, h \in 1 .. 2}
              \cup {OdrMethod("h1:2", 1), OdrMethod("h2:2", 2), OdrMethod("h1:2", 3),
                    [OdrMethod("h1:2", 4) EXCEPT !.system = TRUE]}
OdrPrograms == {Two(p, q) : p, q \in UpTo2(OdrDecls)}

Default(s, x) == [Fun("f") EXCEPT !.site = s, !.default = x]
Spec1(s, x)   == [Fun("f") EXCEPT !.site = s, !.noexcept = x, !.specKnown = TRUE]
Static(t, x)  == [Var("s", "h1") EXCEPT !.tu = t, !.const = x, !.external = FALSE, !.inMainFile = FALSE,
                                        !.hasInit = FALSE]
Decls(t, const) ==
  {Default("h1:1", "1"), Default("h1:1", "2"), Default("h2:1", "1"), Spec1("h1:1", TRUE),
   Spec1("h1:1", FALSE), Spec1("h2:1", TRUE), Static(t, const)}
DeclPrograms == UNION {{Two(p, q) : p \in UpTo2(Decls("a", x)), q \in UpTo2(Decls("b", x))} : x \in BOOLEAN}
(* One header static in three TUs, const in some of them.                    *)
StaticPrograms ==
  {Three(<<Static("a", x)>>, <<Static("b", y)>>, <<Static("c", z)>>) : x, y, z \in BOOLEAN}

Def(n, nx, body) == [Fun(n) EXCEPT !.defined = TRUE, !.noexcept = nx, !.body = body]
RootBodies == {<<Throw>>, <<Try(<<Throw>>, <<>>)>>, <<Try(<<Call("g")>>, <<>>), Call("h")>>,
               <<Call("h"), Call("g")>>, <<Try(<<>>, <<Call("g")>>)>>}
InnerBodies == {<<Call("k")>>, <<Throw>>, <<Try(<<Throw>>, <<Throw>>)>>, <<Try(<<Throw>>, <<Call("h")>>)>>,
                <<Call("g"), Call("h")>>, <<Try(<<Try(<<>>, <<Throw>>)>>, <<>>)>>}
Inner(n) == {Def(n, nx, b) : nx \in BOOLEAN, b \in InnerBodies}
EscapePrograms ==
  {Three(<<Def("f", TRUE, b)>>, <<q, r>>, <<Def("k", FALSE, <<Throw>>)>>) :
     b \in RootBodies, q \in Inner("g"), r \in Inner("g") \cup Inner("h")}

InitPrograms ==
  {[Three(<<[Var("x", "a") EXCEPT !.body = i]>>, <<y, r>>, <<z>>)
      EXCEPT !.graph = [g |-> <<"h", "g", "k">>, init |-> <<"h">>, h |-> <<"init", "k">>, k |-> <<"dlopen">>]] :
     i \in {<<>>, <<Read("y")>>, <<Call("g")>>, <<Call("g"), Read("y")>>},
     y \in {[Var("y", f) EXCEPT !.dynamic = d, !.body = <<Read("x")>>] : f \in {"a", "b"}, d \in BOOLEAN}
           \cup {[Fun("init") EXCEPT !.constructorAttr = TRUE, !.defined = TRUE]},
     r \in {Def("g", FALSE, <<Call("h")>>), Def("g", FALSE, <<Try(<<Read("y")>>, <<>>)>>)},
     z \in {Def("h", FALSE, <<Call("k"), Read("y")>>), Def("g", FALSE, <<Call("h"), Read("z")>>),
            [Var("y", "c") EXCEPT !.dynamic = FALSE, !.external = FALSE]}}

Overload(h, ps) == [Fun("f") EXCEPT !.first = TRUE, !.file = h, !.params = ps]
Converting(kind, k, v) == [Fun("conv") EXCEPT !.special = kind, !.required = 1, !.type = k, !.other = v]
Relations ==
  {<<[Class("D") EXCEPT !.bases = <<T("M")>>], [Class("M") EXCEPT !.bases = <<T("B")>>]>>,
   <<Converting("constructor", T("B"), T("D"))>>, <<Converting("conversion", T("D"), T("B"))>>}
AdlPrograms ==
  {[Three(<<Overload("h0", p)>>, <<Overload(h, q)>>, r) EXCEPT
      !.tu.a.calls = {[name |-> "f", args |-> x, resolved |-> p]}] :
     x \in {<<T("D"), T("int")>>, <<Ptr("D"), T("double")>>},
     p \in {<<T("B"), T("int")>>, <<Ptr("B"), T("int")>>, <<T("D"), T("double")>>},
     h \in {"h0", "h1"},
     q \in {<<s, t>> : s \in {Ref("D"), T("B"), Ptr("D"), Ptr("B"), T("int")},
                       t \in {T("int"), T("double"), T("D")}} \cup {<<T("D")>>},
     r \in Relations}

Guide == [decl |-> "guide", name |-> "V", file |-> "h1", implicit |-> FALSE, first |-> TRUE, deduced |-> T("V<int>")]
Method(n, g, s) == [Fun(n) EXCEPT !.class = "C", !.defined = TRUE, !.first = TRUE, !.gva = g, !.simple = s]
OtherPrograms ==
  {[Three(<<Method("m", "DiscardableODR", TRUE)>>, <<Guide, Method("n", g, s)>>,
          <<[Class("V") EXCEPT !.specializes = <<T("int")>>], Method("m", "DiscardableODR", TRUE)>>)
      EXCEPT !.tu.a.deductions = {[name |-> "V", deduced |-> T("V<char>")]},
             !.tu.a.instances = {[name |-> "V", args |-> <<T("int")>>]}] :
     g \in {"DiscardableODR", "StrongExternal"}, s \in BOOLEAN}

mcPrograms ==
  OdrPrograms \cup DeclPrograms \cup StaticPrograms \cup EscapePrograms \cup InitPrograms \cup AdlPrograms \cup OtherPrograms
=============================================================================
