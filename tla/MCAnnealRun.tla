---------------------------- MODULE MCAnnealRun ----------------------------
(* AnnealRun on small instances. TUs are interchangeable: the runs of one    *)
(* command differ only in which of them die, and every choice is explored.   *)
EXTENDS AnnealRun, TLC

TUSymmetry == Permutations(TUs)
=============================================================================
