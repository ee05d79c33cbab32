--------------------------- MODULE MegascopeIndex ---------------------------
(***************************************************************************)
(* `megascope index` and `megascope serve` (src/main.cpp) over one     *)
(* index file: load it, find the TUs that changed, bake them, merge, save. *)
(* Files are edited and deleted at any time, runs are killed at any step,  *)
(* and several processes may work on the same index file.                  *)
(*                                                                         *)
(* A bake reads each TU and the headers it opens as they are when its      *)
(* parse runs.  In process or in worker subprocesses makes one difference: *)
(* what is left of a TU whose parse crashes.  Both outcomes are explored.  *)
(***************************************************************************)
EXTENDS Snapshot

CONSTANTS
  Procs,        \* megascope processes that use the index file
  Opens,        \* Opens[t]: the headers t includes
  Configs,      \* build configurations (collapse paths, lock and channel types)
  InitialFiles, \* files that exist at the start
  MaxEdits,     \* bound: edits and deletions
  MaxRuns,      \* bound: runs started
  MaxKills,     \* bound: kills
  MaxFailures,  \* bound: parses that crash, bakes that cannot start, saves that fail
  MaxReindex    \* bound: reindex_tu requests

ASSUME OpensAssumption  == Opens \in [TUs -> SUBSET Headers]
ASSUME ConfigAssumption == Configs # {} /\ InitialFiles \subseteq TUs \cup Headers
ASSUME BoundsAssumption == /\ MaxEdits \in Nat /\ MaxRuns \in Nat /\ MaxKills \in Nat
                           /\ MaxFailures \in Nat /\ MaxReindex \in Nat

VARIABLES
  disk,    \* disk[f]: time of f's last change, or Missing
  clock,
  data,    \* data[i]: contents of inode i
  idx,     \* inode the index path names, 0 for none
  tmp,     \* inode the path + ".tmp" names, 0 for none
  run,     \* run[p]: the process p
  left     \* what is left of the bounds

vars == <<disk, clock, data, idx, tmp, run, left>>

Inodes == 1 .. Cardinality(Procs) + 2

Off == [pc |-> "off"]

Init ==
  /\ clock = PerSecond
  /\ disk = [f \in TUs \cup Headers |-> IF f \in InitialFiles THEN clock ELSE Missing]
  /\ data = [i \in Inodes |-> AbsentFile] /\ idx = 0 /\ tmp = 0
  /\ run = [p \in Procs |-> Off]
  /\ left = [edits |-> MaxEdits, runs |-> MaxRuns, kills |-> MaxKills,
             failures |-> MaxFailures, reindex |-> MaxReindex]

Becomes(p, r) == run' = [run EXCEPT ![p] = r]

\* SnapshotIO::load: a torn file does not load.
Load == IF idx = 0 \/ data[idx] = TornFile THEN AbsentFile ELSE data[idx]
-----------------------------------------------------------------------------
(* Start: load the meta section, select the TUs.                             *)
OnDisk == {t \in TUs : disk[t] # Missing}

\* selectSources: `want` names TUs; with no selection at all the recorded set
\* is refreshed, and without an index what is on disk of the compilation database.
Selected(want, snap) ==
  IF want # {} THEN want ELSE IF FilesOf(snap) # {} THEN FilesOf(snap) ELSE OnDisk

Launch(p) ==
  /\ run[p].pc = "off"
  /\ left.runs > 0 /\ left' = [left EXCEPT !.runs = @ - 1]
  /\ \E verb \in {"index", "serve"}, want \in SUBSET TUs, cfg \in Configs :
       /\ Selected(want, Load) # {}
       /\ Becomes(p, [pc |-> "launched", verb |-> verb, cfg |-> cfg,
                      files |-> Selected(want, Load), snap |-> Load])
  /\ UNCHANGED <<disk, clock, data, idx, tmp>>
-----------------------------------------------------------------------------
(* Stamp the selection, find the dirty TUs and choose how to go on.          *)
(* `at` is history: the edits left when the files were stamped.  `changed`   *)
(* are the TUs the run drops or bakes, `others` whoever has written to the   *)
(* file it is writing.                                                       *)
Stamps(files) == [t \in files |-> disk[t]]

Baking(r, graph, deps, todo, changed, skipped) ==
  [pc |-> "baking", verb |-> r.verb, cfg |-> r.cfg, files |-> r.files,
   stamp |-> Stamps(r.files), at |-> left.edits,
   graph |-> graph, deps |-> deps, todo |-> todo, toBake |-> todo,
   fresh |-> NoGraph, freshDeps |-> NoDeps, changed |-> changed, skipped |-> skipped,
   ino |-> 0, others |-> {}]

Rebuild(r) == Baking(r, NoGraph, NoDeps, r.files, r.files, {})

Dropped(r) == FilesOf(r.snap) \ r.files
Dirty(r)   == DirtyTUs(r.snap, r.files, disk)

\* Faulty variant: dirty TUs are baked again without being removed first.
RemovedDroppedOnly(r) == Dropped(r)

Removed(r) == Dropped(r) \cup (Dirty(r) \cap FilesOf(r.snap))

\* The graph comes from the file as it is now, the meta from the first load.
Refresh(r, full) ==
  Baking(r,
         [t \in TUs |-> IF t \in Removed(r) THEN <<>> ELSE full.graph[t]],
         [t \in TUs |-> IF t \in Dropped(r) \cup Dirty(r) THEN <<>>
                        ELSE DependenciesOf(r.snap)[t]],
         Dirty(r), Dropped(r) \cup Dirty(r),
         r.snap.skipped \ (Dropped(r) \cup Dirty(r)))

\* The conditions of a full rebuild; --force may be given to any run.
MustRebuild(r) ==
  \/ ~Whole(r.snap)
  \/ r.snap.cfg # r.cfg
  \/ 2 * Cardinality(Dirty(r)) > Cardinality(r.files)

Unchanged(r) == Dropped(r) \cup Dirty(r) = {}

DecideRebuild(p) ==
  /\ run[p].pc = "launched"
  /\ Becomes(p, Rebuild(run[p]))      \* MustRebuild(run[p]), or --force
  /\ UNCHANGED <<disk, clock, data, idx, tmp, left>>

\* An unchanged `index` never decodes the graph and does not save.
DecideUnchanged(p) ==
  LET r == run[p]
  IN /\ r.pc = "launched" /\ ~MustRebuild(r)
     /\ Unchanged(r) /\ r.verb = "index"
     /\ Becomes(p, [pc |-> "done", verb |-> r.verb, cfg |-> r.cfg, files |-> r.files,
                    at |-> left.edits, toBake |-> {},
                    graph |-> r.snap.graph, skipped |-> r.snap.skipped])
  /\ UNCHANGED <<disk, clock, data, idx, tmp, left>>

DecideRefresh(p) ==
  LET r == run[p]
  IN /\ r.pc = "launched" /\ ~MustRebuild(r)
     /\ ~(Unchanged(r) /\ r.verb = "index")
     /\ Becomes(p, IF Whole(Load) THEN Refresh(r, Load) ELSE Rebuild(r))
  /\ UNCHANGED <<disk, clock, data, idx, tmp, left>>
-----------------------------------------------------------------------------
(* The bake.                                                                 *)
\* What a parse of t contributes now: the versions it reads.
Content(t, cfg) ==
  [src |-> disk[t], hdr |-> [h \in Opens[t] |-> disk[h]], cfg |-> cfg, complete |-> TRUE]

Contribution(t, cfg) == IF disk[t] = Missing THEN <<>> ELSE <<Content(t, cfg)>>

\* openedFiles: a header that is missing was not opened.
Opened(t) ==
  IF disk[t] = Missing THEN <<>>
  ELSE [h \in {h \in Opens[t] : disk[h] # Missing} |-> Sec(disk[h])]

Parse(p, t) ==
  /\ run[p].pc = "baking" /\ t \in run[p].todo
  /\ run' = [run EXCEPT ![p].todo = @ \ {t},
                        ![p].fresh[t] = Contribution(t, run[p].cfg),
                        ![p].freshDeps[t] = Opened(t)]
  /\ UNCHANGED <<disk, clock, data, idx, tmp, left>>

\* The crash guard skips the TU half-way through its visitors, or its worker
\* dies; dependencies are noted last.
LeftByCrash(t, cfg) == {<<>>, <<[Content(t, cfg) EXCEPT !.complete = FALSE]>>}

CrashedParse(p, t) ==
  /\ run[p].pc = "baking" /\ t \in run[p].todo /\ disk[t] # Missing
  /\ left.failures > 0 /\ left' = [left EXCEPT !.failures = @ - 1]
  /\ \E c \in LeftByCrash(t, run[p].cfg) :
       run' = [run EXCEPT ![p].todo = @ \ {t}, ![p].fresh[t] = c,
                          ![p].skipped = @ \cup {t}]
  /\ UNCHANGED <<disk, clock, data, idx, tmp>>

\* bakeIsolated: no shard directory, nothing is baked.
AbortedBake(p) ==
  /\ run[p].pc = "baking" /\ run[p].todo # {} /\ run[p].todo = run[p].toBake
  /\ left.failures > 0 /\ left' = [left EXCEPT !.failures = @ - 1]
  /\ run' = [run EXCEPT ![p].todo = {}, ![p].skipped = @ \cup run[p].toBake]
  /\ UNCHANGED <<disk, clock, data, idx, tmp>>

AfterSave(r) == IF r.verb = "serve" THEN "serving" ELSE "done"

NewDeps(r) == [t \in TUs |-> IF r.freshDeps[t] # <<>> THEN r.freshDeps[t] ELSE r.deps[t]]

\* All parses are done: merge what they built into the index.
Absorb(p) ==
  LET r == run[p]
  IN /\ r.pc = "baking" /\ r.todo = {}
     /\ run' = [run EXCEPT
          ![p].pc = IF r.changed # {} THEN "saving" ELSE AfterSave(r),
          ![p].graph = [t \in TUs |-> @[t] \o r.fresh[t]],
          ![p].deps = NewDeps(r),
          ![p].fresh = NoGraph, ![p].freshDeps = NoDeps]
  /\ UNCHANGED <<disk, clock, data, idx, tmp, left>>
-----------------------------------------------------------------------------
(* SnapshotIO::save: open path + ".tmp", write it, rename it.                *)
Named == {idx, tmp}
InUse == Named \cup {run[p].ino : p \in {q \in Procs : run[q].pc \in {"writing", "written"}}}
FreeInode == CHOOSE i \in Inodes : i \notin InUse

Writers(i) == {q \in Procs : run[q].pc = "writing" /\ run[q].ino = i}

\* Faulty variant: the index file itself is opened and written.
OpenInPlace(p) ==
  LET i == IF idx # 0 THEN idx ELSE FreeInode
  IN /\ run[p].pc = "saving"
     /\ data' = [data EXCEPT ![i] = TornFile]
     /\ idx' = i
     /\ run' = [run EXCEPT ![p].pc = "writing", ![p].ino = i]
     /\ UNCHANGED <<disk, clock, tmp, left>>

\* The file is truncated if it exists; whoever is writing to it goes on at
\* its own offset.
OpenTmp(p) ==
  LET i == IF tmp # 0 THEN tmp ELSE FreeInode
  IN /\ run[p].pc = "saving"
     /\ data' = [data EXCEPT ![i] = TornFile]
     /\ tmp' = i
     /\ run' = [q \in Procs |->
                  IF q = p THEN [run[p] EXCEPT !.pc = "writing", !.ino = i,
                                               !.others = Writers(i)]
                  ELSE IF q \in Writers(i) THEN [run[q] EXCEPT !.others = @ \cup {p}] ELSE run[q]]
     /\ UNCHANGED <<disk, clock, idx, left>>

Saved(r) == WholeFile(r.files, r.stamp, r.deps, r.cfg, r.graph, r.skipped)

\* Two writers of one file overlay each other's bytes.
WriteTmp(p) ==
  LET r == run[p]
  IN /\ r.pc = "writing"
     /\ \E d \in {Saved(r)} \cup IF r.others = {} THEN {} ELSE {TornFile} :
          data' = [data EXCEPT ![r.ino] = d]
     /\ run' = [run EXCEPT ![p].pc = "written"]
     /\ UNCHANGED <<disk, clock, idx, tmp, left>>

RenameTmp(p) ==
  /\ run[p].pc = "written" /\ tmp # 0
  /\ idx' = tmp /\ tmp' = 0
  /\ run' = [run EXCEPT ![p].pc = AfterSave(run[p]), ![p].ino = 0, ![p].others = {}]
  /\ UNCHANGED <<disk, clock, data, left>>

\* The file cannot be opened, or the rename fails (another process renamed the
\* file first, or for a reason of its own) and the file is removed.  `index`
\* then exits with an error, `serve` goes on.
FailToSave(p) ==
  /\ \/ /\ run[p].pc = "saving" /\ UNCHANGED tmp
        /\ left.failures > 0 /\ left' = [left EXCEPT !.failures = @ - 1]
     \/ /\ run[p].pc = "written" /\ tmp' = 0
        /\ IF tmp = 0 THEN UNCHANGED left
           ELSE left.failures > 0 /\ left' = [left EXCEPT !.failures = @ - 1]
  /\ run' = [run EXCEPT ![p].pc = IF run[p].verb = "serve" THEN "serving" ELSE "failed",
                        ![p].ino = 0, ![p].others = {}]
  /\ UNCHANGED <<disk, clock, data, idx>>
-----------------------------------------------------------------------------
(* The server, and the ways a process ends.                                  *)
\* McpServer::reindexTU: remove the TU's contributions, bake it again.
Reindex(p, t) ==
  /\ run[p].pc = "serving" /\ left.reindex > 0
  /\ \/ /\ run' = [run EXCEPT ![p].graph[t] = Contribution(t, run[p].cfg),
                              ![p].skipped = @ \ {t}]
        /\ left' = [left EXCEPT !.reindex = @ - 1]
     \/ /\ disk[t] # Missing /\ left.failures > 0
        /\ \E c \in LeftByCrash(t, run[p].cfg) :
             run' = [run EXCEPT ![p].graph[t] = c, ![p].skipped = @ \cup {t}]
        /\ left' = [left EXCEPT !.reindex = @ - 1, !.failures = @ - 1]
  /\ UNCHANGED <<disk, clock, data, idx, tmp>>

Exit(p) ==
  /\ run[p].pc \in {"serving", "done", "failed"}
  /\ Becomes(p, Off)
  /\ UNCHANGED <<disk, clock, data, idx, tmp, left>>

Kill(p) ==
  /\ run[p].pc \in {"baking", "saving", "writing", "written"}
  /\ left.kills > 0 /\ left' = [left EXCEPT !.kills = @ - 1]
  /\ Becomes(p, Off)
  /\ UNCHANGED <<disk, clock, data, idx, tmp>>

Edit(f) ==
  /\ left.edits > 0 /\ left' = [left EXCEPT !.edits = @ - 1]
  /\ clock' = clock + 1
  /\ disk' = [disk EXCEPT ![f] = clock + 1]
  /\ UNCHANGED <<data, idx, tmp, run>>

Delete(f) ==
  /\ disk[f] # Missing
  /\ left.edits > 0 /\ left' = [left EXCEPT !.edits = @ - 1]
  /\ disk' = [disk EXCEPT ![f] = Missing]
  /\ UNCHANGED <<clock, data, idx, tmp, run>>

Process(p) ==
  \/ Launch(p) \/ DecideRebuild(p) \/ DecideUnchanged(p) \/ DecideRefresh(p)
  \/ \E t \in TUs : Parse(p, t) \/ CrashedParse(p, t) \/ Reindex(p, t)
  \/ AbortedBake(p) \/ Absorb(p)
  \/ OpenTmp(p) \/ WriteTmp(p) \/ RenameTmp(p) \/ FailToSave(p)
  \/ Exit(p) \/ Kill(p)

Next == \/ \E p \in Procs : Process(p)
        \/ \E f \in TUs \cup Headers : Edit(f) \/ Delete(f)

Spec == Init /\ [][Next]_vars
-----------------------------------------------------------------------------
(* Properties.                                                               *)

Times == {Missing} \cup PerSecond .. PerSecond + MaxEdits

TypeOK ==
  /\ disk \in [TUs \cup Headers -> Times] /\ clock \in Times
  /\ idx \in Inodes \cup {0} /\ tmp \in Inodes \cup {0} /\ (idx = tmp => idx = 0)
  /\ \A i \in Inodes : data[i].kind \in {"absent", "torn", "whole"}
  /\ \A p \in Procs :
       /\ run[p].pc \in {"off", "launched", "baking", "saving", "writing", "written",
                         "serving", "done", "failed"}
       /\ run[p] # Off => run[p].files \subseteq TUs /\ run[p].files # {}
       /\ run[p].pc = "baking" => run[p].todo \subseteq run[p].files

\* Parses told apart as far as stamps can.
ToTheSecond(c) == [c EXCEPT !.hdr = [h \in DOMAIN @ |-> Sec(@[h])]]
SameContent(s, r) ==
  Len(s) = Len(r) /\ \A i \in DOMAIN s : ToTheSecond(s[i]) = ToTheSecond(r[i])

\* A parse that missed a header cannot have noted it as a dependency.
MissedHeader(s) == s # <<>> /\ \E h \in DOMAIN s[1].hdr : s[1].hdr[h] = Missing

\* Whatever was edited, killed or saved before, a TU that a warm start would
\* not bake again is in the index exactly as a cold bake would put it there,
\* once; and the index holds no other TU.  Left out are TUs whose last parse
\* crashed or could not find a header (Snapshot.cpp:1071-1108, main.cpp:1148-1170),
\* and TUs that were not there to be stamped: one created before the parse and
\* deleted after it still has the zero stamp.
CleanMeansFresh ==
  idx # 0 /\ Whole(data[idx]) =>
    LET f == data[idx]
    IN \A t \in TUs :
         IF t \notin f.files THEN f.graph[t] = <<>>
         ELSE t \in DirtyTUs(f, f.files, disk) \cup f.skipped
              \/ f.stamp[t] = Missing
              \/ MissedHeader(f.graph[t])
              \/ SameContent(f.graph[t], Contribution(t, f.cfg))

\* When a run is done and no file changed since it stamped them, what it has
\* in memory (and `index` has saved) is what a cold bake of its selection
\* gives, under its own configuration; reindex_tu keeps it so.  Left out, as
\* above, are missing TUs that it did not bake.
RunEndsFresh ==
  \A p \in Procs : run[p].pc \in {"serving", "done"} /\ run[p].at = left.edits =>
    LET r == run[p]
    IN \A t \in TUs :
         \/ t \in r.skipped \/ MissedHeader(r.graph[t])
         \/ disk[t] = Missing /\ t \notin r.toBake
         \/ SameContent(r.graph[t], IF t \in r.files \/ r.graph[t] # <<>>
                                    THEN Contribution(t, r.cfg) ELSE <<>>)

\* An `index` run that ends with nothing edited since it stamped the files
\* leaves no TU to bake and none to drop: running it again is free.
SettlesDown ==
  \A p \in Procs : run[p].pc = "done" /\ run[p].at = left.edits =>
    Whole(Load) /\ FilesOf(Load) = run[p].files /\ DirtyTUs(Load, run[p].files, disk) = {}

\* "Write to a temp file and rename so a crash mid-write never leaves a torn
\* snapshot" (Snapshot.cpp:502-503).
NeverTorn == idx # 0 => Whole(data[idx])
=============================================================================
