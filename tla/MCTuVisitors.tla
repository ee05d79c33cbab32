---------------------------- MODULE MCTuVisitors ----------------------------
(* TuVisitors with one call of each kind that some guard tells apart.        *)
EXTENDS TuVisitors

Plain == [form |-> "direct", arg |-> "none", system |-> FALSE, collapsed |-> FALSE,
          assertion |-> "no", spawner |-> FALSE, channel |-> "none"]
MCCalls ==
  {Plain,
   [Plain EXCEPT !.form = "construct", !.arg = "lambda", !.spawner = TRUE],
   [Plain EXCEPT !.form = "maker", !.arg = "variable"],
   [Plain EXCEPT !.form = "indirect", !.arg = "function"],
   [Plain EXCEPT !.assertion = "checked"],
   [Plain EXCEPT !.assertion = "bare"],
   [Plain EXCEPT !.form = "virtual", !.channel = "produce"],
   [Plain EXCEPT !.form = "operator", !.collapsed = TRUE, !.arg = "function"],
   [Plain EXCEPT !.form = "implicit"]}
MCLocalTypes == {"capability", "plain"}
=============================================================================
