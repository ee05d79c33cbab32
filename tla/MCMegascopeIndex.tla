-------------------------- MODULE MCMegascopeIndex --------------------------
(* MegascopeIndex on two TUs that include the same header.                   *)
EXTENDS MegascopeIndex, TLC

CONSTANTS a, b, h

MCTUs      == {a, b}
MCOpens    == a :> {h} @@ b :> {h}
AllFiles   == {a, b, h}
Symmetry   == Permutations(TUs)
=============================================================================
