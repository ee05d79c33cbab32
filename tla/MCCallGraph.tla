----------------------------- MODULE MCCallGraph -----------------------------
(* CallGraphIndex on a small program: f calls m virtually and through the    *)
(* pointer that m returns; g overrides m and shares its display name with    *)
(* the constructor h.                                                        *)
EXTENDS CallGraphIndex, TLC

CONSTANTS f, g, m, h, s1, s2, nf, ng, nm

MCFns     == {f, g, m, h}
MCDisplay == f :> nf @@ g :> ng @@ m :> nm @@ h :> ng
MCEdges   == {[caller |-> f, callee |-> m, site |-> s1, kind |-> "virtual", proven |-> FALSE],
              [caller |-> f, callee |-> m, site |-> s2, kind |-> "return", proven |-> TRUE],
              [caller |-> f, callee |-> g, site |-> s1, kind |-> "call", proven |-> TRUE]}
MCOverrides == {<<m, g>>}
MCReturns   == {<<m, g>>}
Symmetry    == Permutations(TUs)
=============================================================================
