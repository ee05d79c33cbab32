---------------------------- MODULE MCSiteIndexes ----------------------------
(* SiteIndexes on a small program: a header function f calls g under a try   *)
(* with one lock held; f calls h, which shares g's display name, with two    *)
(* locks, in the other order; a context without provenance; f produces into  *)
(* and consumes from one channel.                                            *)
EXTENDS SiteIndexes, TLC

CONSTANTS f, g, h, nf, ng, s1, s2, a, b, l1, l2, try1, grd, ch

MCDisplay  == f :> nf @@ g :> ng @@ h :> ng
MCSiteFile == s1 :> a @@ s2 :> b
Header   == [caller |-> f, callee |-> g, site |-> s1, scopes |-> <<try1>>, guards |-> <<grd>>,
             locals |-> <<l1>>, attr |-> "noexcept"]
TwoLocks == [caller |-> f, callee |-> h, site |-> s1, scopes |-> <<>>, guards |-> <<>>,
             locals |-> <<l2, l1>>, attr |-> "none"]
NoOwner  == [caller |-> g, callee |-> h, site |-> s2, scopes |-> <<try1>>, guards |-> <<>>,
             locals |-> <<>>, attr |-> "none"]
MCContexts == {Header, TwoLocks, NoOwner}
MCUntagged == {NoOwner}
Produce    == [channel |-> ch, site |-> s1, fn |-> f, op |-> "produce"]
Consume    == [channel |-> ch, site |-> s1, fn |-> f, op |-> "consume"]
MCChannelKeys == {Produce, Consume}
=============================================================================
