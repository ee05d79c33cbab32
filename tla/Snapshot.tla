------------------------------ MODULE Snapshot ------------------------------
(***************************************************************************)
(* The index file as a value (src/callgraph/Snapshot.cpp): what a run  *)
(* records of the TUs it baked, and which TUs a later run has to bake      *)
(* again.                                                                  *)
(*                                                                         *)
(* A file is told apart by the time of its last change.  A TU's stamp      *)
(* keeps that time in full; a dependency's, which the frontend takes when  *)
(* it opens the file, in whole seconds.  (Sizes are left out: the two      *)
(* versions a stamp cannot tell apart are those of equal size.)            *)
(***************************************************************************)
EXTENDS Integers, Sequences, FiniteSets

CONSTANTS TUs, Headers, PerSecond   \* clock ticks in a second

ASSUME FilesAssumption  == TUs \cap Headers = {}
ASSUME SecondAssumption == PerSecond \in Nat \ {0}

Missing == 0                        \* the zero stamp; clocks start later
Sec(v)  == v \div PerSecond

\* What an index holds of a TU: its contributions, in the order they were
\* absorbed; CallGraphIndex shows that absorbing and removing keep TUs apart.
NoGraph == [t \in TUs |-> <<>>]

\* Opened files and their stamps, per TU; <<>> is the function on no file.
NoDeps == [t \in TUs |-> <<>>]

AbsentFile == [kind |-> "absent"]
TornFile   == [kind |-> "torn"]

MinOf(S) == CHOOSE v \in S : \A w \in S : v <= w
MaxOf(S) == CHOOSE v \in S : \A w \in S : v >= w

Users(files, deps, h) == {t \in files : h \in DOMAIN deps[t]}
Recorded(files, deps) == {h \in Headers : Users(files, deps, h) # {}}

\* Faulty variant: the newer of two stamps is kept.
NewestStamps(files, deps) ==
  [h \in Recorded(files, deps) |-> MaxOf({deps[t][h] : t \in Users(files, deps, h)})]

\* recordDependencies: one stamp per opened file; of two parses that saw
\* different versions the older one is kept.
DepStamps(files, deps) ==
  [h \in Recorded(files, deps) |-> MinOf({deps[t][h] : t \in Users(files, deps, h)})]

\* What save() writes.  `skipped` is history: the TUs whose last bake crashed.
WholeFile(files, stamp, deps, cfg, graph, skipped) ==
  [kind |-> "whole", files |-> files, stamp |-> stamp,
   deps |-> DepStamps(files, deps),
   tuDeps |-> [t \in files |-> DOMAIN deps[t]],
   cfg |-> cfg, graph |-> graph, skipped |-> skipped \cap files]

Whole(f)        == f.kind = "whole"
FilesOf(f)      == IF Whole(f) THEN f.files ELSE {}

DependenciesOf(f) ==
  [t \in TUs |-> IF t \in f.files THEN [h \in f.tuDeps[t] |-> f.deps[h]] ELSE <<>>]

\* Faulty variant: a whole-second stamp is compared with the full one.
ChangedToTheTick(f, t, now) ==
  \/ f.stamp[t] # now[t]
  \/ \E h \in f.tuDeps[t] : f.deps[h] # now[h]

\* Own stamp changed, or a file its parse opened did (a file that is gone
\* counts as changed).
Changed(f, t, now) ==
  \/ f.stamp[t] # now[t]
  \/ \E h \in f.tuDeps[t] : f.deps[h] # Sec(now[h])

DirtyTUs(f, files, now) ==
  {t \in files : t \in FilesOf(f) => Changed(f, t, now)}
=============================================================================
