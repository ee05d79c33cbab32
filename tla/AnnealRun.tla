------------------------------ MODULE AnnealRun ------------------------------
(***************************************************************************)
(* runAnalysis with --checkpoint: runs of one anneal command over the same *)
(* TUs, each of which may be killed at any step, die in a parse, or finish,*)
(* and the journal that carries progress from one to the next              *)
(* (src/anneal/Analyzer.cpp, src/anneal/Checkpoint.cpp).           *)
(*                                                                         *)
(* What a parse of a TU produces is a function of what it read: the TU's   *)
(* own version, the version of the headers, and the options of the run.    *)
(* What the analysis of a TU produces depends on the merged index too.     *)
(***************************************************************************)
EXTENDS AnnealCheckpoint, Sequences, FiniteSets

CONSTANTS
  Threads,        \* tasks in flight in the in-process pool
  Options,        \* AnalysisOptions values with distinct fingerprints
  Modes,          \* a run uses --isolate-workers iff it picks TRUE
  MaxEdits,       \* bound: edits of TUs
  MaxHeaderEdits, \* bound: edits of included headers, between runs
  MaxKills,       \* bound: kills from outside (OOM, Ctrl-C, CI timeout)
  MaxTorn,        \* bound: kills and deaths that cut an append short
  MaxReruns,      \* bound: runs started after a run that finished
  MaxDeaths,      \* bound: deaths of one TU's parse since it last completed
  MaxFaults       \* bound: unreadable worker shards

ASSUME ThreadsAssumption == Threads \in Nat \ {0}
ASSUME OptionsAssumption == Options # {}
ASSUME ModesAssumption   == Modes # {} /\ Modes \subseteq BOOLEAN
ASSUME BoundsAssumption  ==
  /\ MaxEdits \in Nat /\ MaxHeaderEdits \in Nat /\ MaxKills \in Nat
  /\ MaxTorn \in Nat /\ MaxReruns \in Nat /\ MaxDeaths \in Nat /\ MaxFaults \in Nat

VARIABLES
  \* the file system
  src,        \* src[t]: t's version; its FileStamp tells two versions apart
  hdr,        \* version of the headers, which no FileStamp of the run covers
  journal,    \* the checkpoint file
  fatal,      \* <<phase, TU, version>> whose parse takes its process down
  \* the run
  pc,         \* "down", "index", "analyze" or "done"
  opts, isolate,
  stamp,      \* stampFor: taken when the run opens the journal
  hdrAt,      \* hdr at that moment (history, for the properties)
  poisoned,   \* TUs phase 1 gave up on
  todo,       \* toIndex / toAnalyze, not started yet
  parsing,    \* parsing[t]: what t's parse in flight has read, or Idle
  index,      \* index[t]: t's contributions to the GlobalIndex, in order
  out,        \* perFile[t], or NoDiags
  \* history, for the properties
  deaths,     \* deaths[p][t]: times t's parse killed the run
  cut,        \* cut[p][t]: times a run ended with t's parse in flight
  finished,   \* finished[p][t]: the key of the last completion that was journaled
  \* what is left of the bounds
  left

fileVars == <<src, hdr, fatal>>
runVars  == <<opts, isolate, stamp, hdrAt>>
histVars == <<deaths, cut, finished>>
vars     == <<fileVars, journal, pc, runVars, poisoned, todo, parsing, index, out,
              histVars, left>>

Idle    == [src |-> 0]     \* no parse in flight: versions start at 1
NoDiags == <<>>
NotYet  == <<>>            \* finished: no completion yet

Running     == {t \in TUs : parsing[t] # Idle}
CurPhase    == IF pc = "index" THEN kPhaseIndex ELSE kPhaseAnalyze

\* What a parse that starts now reads.
Content(t) == [src |-> src[t], hdr |-> hdr, opts |-> opts]

Init ==
  /\ src = [t \in TUs |-> 1] /\ hdr = 1
  /\ fatal \in SUBSET (Phases \X TUs \X {1})
  /\ journal = Fresh("none")
  /\ pc = "down"
  /\ opts \in Options /\ isolate \in Modes
  /\ stamp = src /\ hdrAt = hdr
  /\ poisoned = {} /\ todo = {} /\ parsing = [t \in TUs |-> Idle]
  /\ index = [t \in TUs |-> <<>>] /\ out = [t \in TUs |-> NoDiags]
  /\ deaths = PerTu(0) /\ cut = PerTu(0) /\ finished = PerTu(NotYet)
  /\ left = [edits |-> MaxEdits, headers |-> MaxHeaderEdits, kills |-> MaxKills,
             torn |-> MaxTorn, reruns |-> MaxReruns, faults |-> MaxFaults]
-----------------------------------------------------------------------------
(* Phase 1 begins: open the journal, stamp the TUs, then replay, skip or     *)
(* queue each of them.                                                       *)
SelectPhase1(j, now) ==
  LET replay == {t \in TUs : Replays1(j, t, now[t])}
      skip   == {t \in TUs \ replay : Poisoned(j, kPhaseIndex, t, now[t])}
  IN /\ index' = [t \in TUs |-> IF t \in replay
                                THEN <<j.done[kPhaseIndex][t].payload>> ELSE <<>>]
     /\ poisoned' = skip
     /\ todo' = TUs \ (replay \cup skip)

(* The history counts per journal and per version of the TU: a journal       *)
(* written under other options is discarded, an edited TU starts anew.       *)
Recount(f, fingerprint, now) ==
  [p \in Phases |-> [t \in TUs |->
     IF journal.fingerprint = fingerprint /\ stamp[t] = now[t] THEN f[p][t] ELSE 0]]

Forget(fingerprint, now) ==
  /\ deaths' = Recount(deaths, fingerprint, now)
  /\ cut' = Recount(cut, fingerprint, now)
  /\ finished' = IF journal.fingerprint = fingerprint THEN finished
                 ELSE PerTu(NotYet)

StampFiles == src

Open(o, iso) ==
  /\ journal' = Reopened(journal, o)
  /\ opts' = o /\ isolate' = iso
  /\ stamp' = StampFiles /\ hdrAt' = hdr
  /\ SelectPhase1(Reopened(journal, o), StampFiles)
  /\ parsing' = [t \in TUs |-> Idle] /\ out' = [t \in TUs |-> NoDiags]
  /\ pc' = "index"
  /\ Forget(o, StampFiles)
  /\ UNCHANGED fileVars

Resume == \E iso \in Modes :
  pc = "down" /\ Open(opts, iso) /\ UNCHANGED left

Rerun == \E o \in Options, iso \in Modes :
  /\ pc = "done" /\ left.reruns > 0
  /\ Open(o, iso) /\ left' = [left EXCEPT !.reruns = @ - 1]
-----------------------------------------------------------------------------
(* The per-TU tasks of both phases.                                          *)
Contributing == TUs \ poisoned
(* Faulty variant: TUs that phase 1 gave up on are hashed like the others.   *)
SetHashOfAll == {<<t, stamp[t]>> : t \in TUs}

SetHash      == {<<t, stamp[t]>> : t \in Contributing}   \* annealStampSetHash
PhaseHash    == IF pc = "index" THEN {} ELSE SetHash
Key(t)       == <<stamp[t], PhaseHash>>

(* Faulty variant: the attempt is not on disk when the parse begins.         *)
NothingBeforeParse(t) == journal

\* The in-process pool journals the attempt before the parse; parses in
\* worker subprocesses need no attempt record.
JournaledBeforeParse(t) ==
  IF isolate THEN journal ELSE RecordAttempt(journal, CurPhase, t, stamp[t])

StartTask(t) ==
  /\ pc \in {"index", "analyze"} /\ t \in todo
  /\ isolate \/ Cardinality(Running) < Threads
  /\ journal' = JournaledBeforeParse(t)
  /\ todo' = todo \ {t}
  /\ parsing' = [parsing EXCEPT ![t] = Content(t)]
  /\ UNCHANGED <<fileVars, pc, runVars, poisoned, index, out, histVars, left>>

\* An analyze task holds the merged index while it runs; it is complete then.
Result(t) == IF pc = "index" THEN parsing[t] ELSE <<parsing[t], index>>

JournaledAfterParse(t) ==
  RecordDone(journal, CurPhase, t, stamp[t], PhaseHash, Result(t))

Absorbed(A) ==
  IF pc = "index"
  THEN /\ index' = [t \in TUs |-> IF t \in A THEN Append(index[t], parsing[t]) ELSE index[t]]
       /\ UNCHANGED out
  ELSE /\ out' = [t \in TUs |-> IF t \in A THEN <<parsing[t], index>> ELSE out[t]]
       /\ UNCHANGED index

\* Journaling the completion clears the counters of the TU for the phase.
Cleared(f, A) == [f EXCEPT ![CurPhase] = [t \in TUs |-> IF t \in A THEN 0 ELSE @[t]]]
Finished(A)   == [finished EXCEPT ![CurPhase] = [t \in TUs |-> IF t \in A THEN Key(t) ELSE @[t]]]

FinishTask(t) ==
  /\ t \in Running
  /\ <<CurPhase, t, parsing[t].src>> \notin fatal
  /\ journal' = JournaledAfterParse(t)
  /\ Absorbed({t})
  /\ parsing' = [parsing EXCEPT ![t] = Idle]
  /\ deaths' = Cleared(deaths, {t}) /\ cut' = Cleared(cut, {t})
  /\ finished' = Finished({t})
  /\ UNCHANGED <<fileVars, pc, runVars, poisoned, todo, left>>

(* Isolated: the dispatcher gives up on a TU whose parse kills its worker,   *)
(* or whose shard has nothing that can be read.  Only phase 1 remembers it.  *)
GiveUpOn(t) == poisoned' = IF pc = "index" THEN poisoned \cup {t} ELSE poisoned

PoisonTask(t) ==
  /\ isolate /\ t \in Running
  /\ \/ <<CurPhase, t, parsing[t].src>> \in fatal /\ UNCHANGED left
     \/ left.faults > 0 /\ left' = [left EXCEPT !.faults = @ - 1]
  /\ GiveUpOn(t)
  /\ parsing' = [parsing EXCEPT ![t] = Idle]
  /\ UNCHANGED <<fileVars, journal, pc, runVars, todo, index, out, histVars>>

(* Isolated: a shard fails its check part-way.  Its entries before that      *)
(* point have been journaled and absorbed, the batch is dispatched again     *)
(* without the TU it is blamed on, the last of the batch.                    *)
TornShard(a, u) ==
  /\ isolate /\ left.faults > 0 /\ a \in Running /\ u \in Running \ {a}
  /\ <<CurPhase, a, parsing[a].src>> \notin fatal
  /\ journal' = JournaledAfterParse(a)
  /\ Absorbed({a})
  /\ deaths' = Cleared(deaths, {a}) /\ cut' = Cleared(cut, {a})
  /\ finished' = Finished({a})
  /\ GiveUpOn(u)
  /\ parsing' = [parsing EXCEPT ![u] = Idle, ![a] = Content(a)]
  /\ left' = [left EXCEPT !.faults = @ - 1]
  /\ UNCHANGED <<fileVars, pc, runVars, todo>>

TasksDone == todo = {} /\ Running = {}

(* Phase 2 selection.  The completion and attempt records of phase 2 are     *)
(* those loaded when the journal was opened: this run has appended only      *)
(* phase-1 records so far.  If the merged index cannot be written for the    *)
(* workers, phase 2 degrades to the in-process pool.                         *)
StartPhase2 ==
  /\ pc = "index" /\ TasksDone
  /\ LET replay == {t \in TUs \ poisoned : Replays2(journal, t, stamp[t], SetHash)}
         skip   == {t \in TUs \ (poisoned \cup replay) :
                      Poisoned(journal, kPhaseAnalyze, t, stamp[t])}
     IN /\ out' = [t \in TUs |-> IF t \in replay
                                 THEN journal.done[kPhaseAnalyze][t].payload ELSE NoDiags]
        /\ todo' = TUs \ (poisoned \cup replay \cup skip)
  /\ pc' = "analyze"
  /\ isolate' \in {isolate, FALSE}
  /\ UNCHANGED <<fileVars, journal, opts, stamp, hdrAt, poisoned, parsing, index,
                 histVars, left>>

FinishRun ==
  /\ pc = "analyze" /\ TasksDone
  /\ pc' = "done"
  /\ UNCHANGED <<fileVars, journal, runVars, poisoned, todo, parsing, index, out,
                 histVars, left>>
-----------------------------------------------------------------------------
(* Ways a run ends early.  Only the files survive.  The end may catch        *)
(* another thread in the middle of an append.                                *)
MidAppend(others) ==
  \/ others # {}
  \/ ~isolate /\ todo # {} /\ Cardinality(Running) < Threads

LoseMemory ==
  /\ pc' = "down"
  /\ poisoned' = {} /\ todo' = {} /\ parsing' = [t \in TUs |-> Idle]
  /\ index' = [t \in TUs |-> <<>>] /\ out' = [t \in TUs |-> NoDiags]

CutShort == cut' = [cut EXCEPT ![CurPhase] = [t \in TUs |->
                      IF t \in Running /\ ~isolate THEN @[t] + 1 ELSE @[t]]]

\* What the end of the run leaves of the journal and of the bounds b.
LastWords(others, b) ==
  \/ journal' = journal /\ left' = b
  \/ /\ b.torn > 0 /\ MidAppend(others)
     /\ journal' = CutAppend(journal) /\ left' = [b EXCEPT !.torn = @ - 1]

Kill ==
  /\ pc \in {"index", "analyze"} /\ left.kills > 0
  /\ LastWords(Running, [left EXCEPT !.kills = @ - 1])
  /\ LoseMemory /\ CutShort
  /\ UNCHANGED <<fileVars, runVars, deaths, finished>>

Die(t) ==
  /\ ~isolate /\ t \in Running
  /\ <<CurPhase, t, parsing[t].src>> \in fatal
  /\ deaths[CurPhase][t] < MaxDeaths
  /\ LastWords(Running \ {t}, left)
  /\ LoseMemory /\ CutShort
  /\ deaths' = [deaths EXCEPT ![CurPhase][t] = @ + 1]
  /\ UNCHANGED <<fileVars, runVars, finished>>
-----------------------------------------------------------------------------
(* The user edits files, while a run is going on or between runs.            *)
EditSource(t) ==
  /\ left.edits > 0
  /\ src' = [src EXCEPT ![t] = @ + 1]
  /\ left' = [left EXCEPT !.edits = @ - 1]
  /\ UNCHANGED <<hdr, fatal, journal, pc, runVars, poisoned, todo, parsing, index, out,
                 histVars>>

EditHeader ==
  /\ pc \in {"down", "done"} /\ left.headers > 0
  /\ hdr' = hdr + 1 /\ left' = [left EXCEPT !.headers = @ - 1]
  /\ UNCHANGED <<src, fatal, journal, pc, runVars, poisoned, todo, parsing, index, out,
                 histVars>>

Progress ==
  \/ Resume \/ StartPhase2 \/ FinishRun
  \/ \E t \in TUs : StartTask(t) \/ FinishTask(t) \/ PoisonTask(t) \/ Die(t)

Environment ==
  \/ Rerun \/ Kill \/ EditHeader
  \/ \E t \in TUs : EditSource(t)
  \/ \E a, u \in TUs : TornShard(a, u)

Next == Progress \/ Environment
Spec == Init /\ [][Next]_vars

(* An interrupted command is run again, and a run that is not killed goes    *)
(* on.                                                                       *)
FairSpec == Spec /\ WF_vars(Progress)
-----------------------------------------------------------------------------
(* Properties.                                                               *)

Versions == 1 .. MaxEdits + 1
Contents == [src : Versions, hdr : 1 .. MaxHeaderEdits + 1, opts : Options]
Indexes  == [TUs -> Seq(Contents)]

\* Types; a TU is at most one of queued, in flight, given up on; the
\* in-process pool never runs more tasks than it has threads.
TypeOK ==
  /\ src \in [TUs -> Versions] /\ stamp \in [TUs -> Versions]
  /\ hdr \in 1 .. MaxHeaderEdits + 1 /\ hdrAt \in 1 .. hdr
  /\ fatal \subseteq Phases \X TUs \X {1}
  /\ journal.fingerprint \in Options \cup {"none"}
  /\ pc \in {"down", "index", "analyze", "done"}
  /\ opts \in Options /\ isolate \in Modes \cup {FALSE}
  /\ parsing \in [TUs -> Contents \cup {Idle}]
  /\ index \in Indexes
  /\ \A t \in TUs : out[t] # NoDiags => out[t] \in Contents \X Indexes
  /\ deaths \in [Phases -> [TUs -> 0 .. MaxDeaths]]
  /\ DOMAIN finished = Phases
  /\ poisoned \subseteq TUs /\ todo \subseteq TUs \ (poisoned \cup Running)
  /\ poisoned \cap Running = {}
  /\ ~isolate => Cardinality(Running) <= Threads

Entries(ix) == [t \in TUs |-> {ix[t][i] : i \in DOMAIN ix[t]}]

\* No edit since the run opened the journal.
Undisturbed == pc = "done" /\ src = stamp /\ hdr = hdrAt

\* A finished run that no edit disturbed has merged exactly what a fresh run
\* over the same TUs would have merged, whatever earlier runs left in the
\* journal: between-runs edits invalidate the affected records
\* (Checkpoint.h:52-54, Analyzer.cpp:1341-1363).
IndexIsFresh ==
  Undisturbed => Entries(index) =
    [t \in TUs |-> IF t \in Contributing THEN {Content(t)} ELSE {}]

\* ... and its diagnostics are those of that index and those sources: a
\* phase-2 record is replayed only when no TU of the contributing set has
\* changed (Analyzer.cpp:1457-1463).
DiagnosticsAreFresh ==
  Undisturbed => \A t \in TUs : out[t] # NoDiags =>
    out[t][1] = Content(t) /\ Entries(out[t][2]) = Entries(index)

\* A finished run leaves a TU out only when its parse is deadly, when a worker
\* shard it may be blamed for was unreadable, or when kMaxAttempts runs ended
\* while it was in flight since it last completed at this stamp (Checkpoint.h:124-127: an edit or a
\* completion resets the count).
Suspect(p, t) ==
  \/ cut[p][t] >= kMaxAttempts
  \/ <<p, t, stamp[t]>> \in fatal
  \/ left.faults < MaxFaults

LeftOutOnlyIfSuspect ==
  pc = "done" => \A t \in TUs :
    /\ t \in poisoned => Suspect(kPhaseIndex, t)
    /\ t \notin poisoned /\ out[t] = NoDiags => Suspect(kPhaseAnalyze, t)

\* A TU whose parse dies takes down at most kMaxAttempts runs, then it is
\* skipped "instead of killing every resume at the same place"
\* (Checkpoint.h:54-57).
DeathsBounded ==
  \A p \in Phases, t \in TUs : deaths[p][t] <= kMaxAttempts

\* No task starts that an earlier run has finished and journaled under the
\* same key: the journal is flushed after every append, which survives a
\* kill (Checkpoint.h:59-63).
FinishedWorkIsKept ==
  [][\A t \in TUs : StartTask(t) => finished[CurPhase][t] # Key(t)]_vars

\* However its runs are interrupted, a command that is run again finishes
\* (README.md:219-222), and stays finished once it is not run any more.
Converges == <>[](pc = "done")
=============================================================================
