--------------------------- MODULE AnnealRunProofs ---------------------------
(***************************************************************************)
(* Machine-checked proofs about AnnealRun: what the journal may hold; that *)
(* a finished run has merged and diagnosed what a fresh run would have,    *)
(* whatever earlier runs left in the journal; and what the attempt and     *)
(* completion records guarantee about the runs of one command.  For every  *)
(* set of TUs, every option set and any number of edits, kills, deaths,    *)
(* cut appends and reruns.                                                 *)
(***************************************************************************)
EXTENDS AnnealRun, FiniteSetTheorems, TLAPS

-----------------------------------------------------------------------------
(* What loadRecords can build from a journal file.                           *)

\* Option sets and what a phase records, by phase.
SomeOptions == Options \cup {"none"}
Marks       == [stamp : Nat, count : Nat]
Hashes      == SUBSET (TUs \X Versions)
Records1    == [stamp : Versions, hash : Hashes, payload : Contents]
Records2    == [stamp : Versions, hash : Hashes, payload : Contents \X Indexes]
Done1       == [TUs -> Records1 \cup {NoRecord}]
Done2       == [TUs -> Records2 \cup {NoRecord}]

\* A journal as open() leaves it and the appends extend it.
IsJournal(j) ==
  /\ j = [fingerprint |-> j.fingerprint, torn |-> j.torn,
          attempts |-> j.attempts, done |-> j.done]
  /\ j.fingerprint \in SomeOptions /\ j.torn \in BOOLEAN
  /\ j.attempts \in [Phases -> [TUs -> Marks]]
  /\ j.done = [p \in Phases |-> j.done[p]]
  /\ j.done[kPhaseIndex] \in Done1 /\ j.done[kPhaseAnalyze] \in Done2

\* The two phases.
LEMMA TwoPhases ==
  /\ kPhaseIndex \in Phases /\ kPhaseAnalyze \in Phases /\ kPhaseIndex # kPhaseAnalyze
  /\ \A p \in Phases : p = kPhaseIndex \/ p = kPhaseAnalyze
  /\ CurPhase \in Phases
BY DEF Phases, kPhaseIndex, kPhaseAnalyze, CurPhase

\* A content is never mistaken for the mark of an idle TU.
LEMMA ContentNotIdle == \A c \in Contents : c # Idle /\ c.src \in Nat \ {0}
BY BoundsAssumption DEF Contents, Idle, Versions

\* An empty journal is a journal.
LEMMA FreshIsJournal ==
  ASSUME NEW f \in SomeOptions
  PROVE  /\ IsJournal(Fresh(f))
         /\ \A p \in Phases, t \in TUs : /\ Fresh(f).attempts[p][t] = NoAttempt
                                         /\ Fresh(f).done[p][t] = NoRecord
BY TwoPhases DEF IsJournal, Fresh, PerTu, NoAttempt, NoRecord, NoStamp, Marks, Done1, Done2

\* open() gives a journal with the fingerprint it is called with, either the
\* one on disk or an empty one.
LEMMA ReopenedIsJournal ==
  ASSUME NEW j, IsJournal(j), NEW o \in Options
  PROVE  /\ IsJournal(Reopened(j, o)) /\ Reopened(j, o).fingerprint = o
         /\ Reopened(j, o) = j \/ (j.fingerprint # o /\ Reopened(j, o) = Fresh(o))
BY FreshIsJournal DEF Reopened, IsJournal, Fresh, SomeOptions

\* An attempt record changes one counter, and nothing after a torn tail.
LEMMA AttemptRecorded ==
  ASSUME NEW j, IsJournal(j), NEW p \in Phases, NEW t \in TUs, NEW s \in Nat
  PROVE  LET r == RecordAttempt(j, p, t, s)
         IN /\ IsJournal(r)
            /\ r.fingerprint = j.fingerprint /\ r.torn = j.torn /\ r.done = j.done
            /\ \A q \in Phases, u \in TUs : r.attempts[q][u] =
                 IF ~j.torn /\ q = p /\ u = t THEN Counted(j.attempts[p][t], s)
                                              ELSE j.attempts[q][u]
<1>1. Counted(j.attempts[p][t], s) \in Marks
  BY DEF IsJournal, Counted, Marks
<1>2. QED
  BY <1>1 DEF IsJournal, RecordAttempt

\* A completion record replaces one record and clears one counter, and does
\* nothing after a torn tail.
LEMMA DoneRecorded ==
  ASSUME NEW j, IsJournal(j), NEW p \in Phases, NEW t \in TUs,
         NEW s \in Versions, NEW h \in Hashes, NEW w,
         p = kPhaseIndex => w \in Contents,
         p = kPhaseAnalyze => w \in Contents \X Indexes
  PROVE  LET r == RecordDone(j, p, t, s, h, w)
         IN /\ IsJournal(r)
            /\ r.fingerprint = j.fingerprint /\ r.torn = j.torn
            /\ \A q \in Phases, u \in TUs :
                 /\ r.attempts[q][u] = IF ~j.torn /\ q = p /\ u = t THEN NoAttempt
                                       ELSE j.attempts[q][u]
                 /\ r.done[q][u] = IF ~j.torn /\ q = p /\ u = t
                                   THEN [stamp |-> s, hash |-> h, payload |-> w]
                                   ELSE j.done[q][u]
<1> DEFINE rec == [stamp |-> s, hash |-> h, payload |-> w]
<1>1. NoAttempt \in Marks
  BY DEF NoAttempt, NoStamp, Marks
<1>2. p = kPhaseIndex => rec \in Records1
  BY DEF Records1
<1>3. p = kPhaseAnalyze => rec \in Records2
  BY DEF Records2
<1> HIDE DEF rec
<1>4. CASE j.torn
  BY <1>4 DEF RecordDone
<1>5. CASE ~j.torn
  <2> DEFINE r == RecordDone(j, p, t, s, h, w)
             a == [j.attempts EXCEPT ![p][t] = NoAttempt]
             d == [j.done EXCEPT ![p][t] = rec]
  <2>1. r = [fingerprint |-> j.fingerprint, torn |-> j.torn, attempts |-> a, done |-> d]
    BY <1>5 DEF RecordDone, IsJournal, rec
  <2>2. a \in [Phases -> [TUs -> Marks]]
    BY <1>1 DEF IsJournal
  <2>3. /\ d = [q \in Phases |-> d[q]]
        /\ d[kPhaseIndex] \in Done1 /\ d[kPhaseAnalyze] \in Done2
    <3>1. CASE p = kPhaseIndex
      BY <3>1, <1>2, TwoPhases DEF IsJournal, Done1
    <3>2. CASE p = kPhaseAnalyze
      BY <3>2, <1>3, TwoPhases DEF IsJournal, Done2
    <3>3. QED
      BY <3>1, <3>2, TwoPhases
  <2>4. \A q \in Phases, u \in TUs :
          /\ a[q][u] = IF q = p /\ u = t THEN NoAttempt ELSE j.attempts[q][u]
          /\ d[q][u] = IF q = p /\ u = t THEN rec ELSE j.done[q][u]
    BY TwoPhases DEF IsJournal, Done1, Done2
  <2> HIDE DEF r, a, d
  <2>5. IsJournal(r)
    BY <2>1, <2>2, <2>3 DEF IsJournal
  <2>6. QED
    BY <1>5, <2>1, <2>4, <2>5 DEF r, rec
<1>6. QED
  BY <1>4, <1>5

-----------------------------------------------------------------------------
(* Types of the whole state, with what ties the bounds to the counters.      *)
Budget == [edits : Nat, headers : Nat, kills : Nat, torn : Nat, reruns : Nat, faults : Nat]

\* The files, the options and the bounds.
FilesOK ==
  /\ src \in [TUs -> Versions] /\ hdr \in 1 .. MaxHeaderEdits + 1
  /\ fatal \subseteq Phases \X TUs \X {1}
  /\ left \in Budget /\ left.faults <= MaxFaults
  /\ \A t \in TUs : src[t] + left.edits <= MaxEdits + 1
  /\ hdr + left.headers <= MaxHeaderEdits + 1

\* The run: its phase and what it knows of its TUs.
RunOK ==
  /\ pc \in {"down", "index", "analyze", "done"}
  /\ opts \in Options
  /\ stamp \in [TUs -> Versions] /\ \A t \in TUs : stamp[t] <= src[t]
  /\ hdrAt \in 1 .. hdr
  /\ pc # "down" => journal.fingerprint = opts

\* The mode the run was started in.
ModeOK == isolate \in Modes \cup {FALSE}

\* Tasks in flight and settled.
TasksOK ==
  /\ parsing \in [TUs -> Contents \cup {Idle}]
  /\ poisoned \subseteq TUs /\ todo \subseteq TUs \ (poisoned \cup Running)
  /\ poisoned \cap Running = {}
  /\ pc \in {"down", "done"} => todo = {} /\ Running = {}
  /\ IsFiniteSet(Running)
  /\ ~isolate => Cardinality(Running) <= Threads

\* The index and the diagnostics.
ResultsOK ==
  /\ index \in Indexes
  /\ out \in [TUs -> (Contents \X Indexes) \cup {NoDiags}]

\* The history kept for the properties.
HistoryOK ==
  /\ deaths \in [Phases -> [TUs -> 0 .. MaxDeaths]]
  /\ cut \in [Phases -> [TUs -> Nat]]
  /\ finished \in [Phases -> [TUs -> (Versions \X Hashes) \cup {NotYet}]]

\* The inductive form of TypeOK.
TypeInv == FilesOK /\ RunOK /\ ModeOK /\ TasksOK /\ ResultsOK /\ HistoryOK /\ IsJournal(journal)

\* A pair is not the empty result.
LEMMA PairNotEmpty == \A x, y : <<x, y>> # <<>>
OBVIOUS

\* A version is a positive natural number.
LEMMA VersionsPositive == Versions \subseteq Nat /\ \A v \in Versions : v >= 1
BY BoundsAssumption DEF Versions

\* Spending a budget that is not exhausted.
LEMMA SpendOK ==
  ASSUME NEW b \in Budget
  PROVE  /\ b.edits > 0 => [b EXCEPT !.edits = @ - 1] \in Budget
         /\ b.headers > 0 => [b EXCEPT !.headers = @ - 1] \in Budget
         /\ b.kills > 0 => [b EXCEPT !.kills = @ - 1] \in Budget
         /\ b.torn > 0 => [b EXCEPT !.torn = @ - 1] \in Budget
         /\ b.reruns > 0 => [b EXCEPT !.reruns = @ - 1] \in Budget
         /\ b.faults > 0 => [b EXCEPT !.faults = @ - 1] \in Budget
BY DEF Budget

\* The state after an end that only the files survive.
LEMMA LoseMemoryType ==
  ASSUME LoseMemory
  PROVE  TasksOK' /\ ResultsOK' /\ Running' = {}
<1>1. Running' = {}
  BY DEF LoseMemory, Running
<1>2. IsFiniteSet(Running') /\ Cardinality(Running') = 0
  BY <1>1, FS_EmptySet
<1>3. index' \in Indexes
  BY DEF LoseMemory, Indexes
<1>4. QED
  BY <1>1, <1>2, <1>3, ThreadsAssumption DEF LoseMemory, TasksOK, ResultsOK

\* A cut append keeps what was readable and makes the tail unreadable.
LEMMA CutAppendFacts ==
  ASSUME NEW j, IsJournal(j)
  PROVE  /\ IsJournal(CutAppend(j)) /\ CutAppend(j).torn
         /\ CutAppend(j).fingerprint = j.fingerprint
         /\ CutAppend(j).attempts = j.attempts /\ CutAppend(j).done = j.done
<1>1. \A w : [j EXCEPT !.torn = w] = [fingerprint |-> j.fingerprint, torn |-> w,
                                     attempts |-> j.attempts, done |-> j.done]
  BY DEF IsJournal
<1>2. CutAppend(j) = [fingerprint |-> j.fingerprint, torn |-> TRUE,
                      attempts |-> j.attempts, done |-> j.done]
  BY <1>1, Zenon DEF CutAppend
<1>3. QED
  BY <1>2 DEF IsJournal

\* What the end of a run leaves in the journal: the same records.
LEMMA LastWordsFacts ==
  ASSUME NEW others, NEW b \in Budget, IsJournal(journal), LastWords(others, b)
  PROVE  /\ IsJournal(journal') /\ left' \in Budget
         /\ journal'.fingerprint = journal.fingerprint
         /\ journal'.attempts = journal.attempts /\ journal'.done = journal.done
         /\ left'.edits = b.edits /\ left'.headers = b.headers /\ left'.faults = b.faults
         /\ left'.torn <= b.torn
         /\ b.torn = 0 => journal' = journal
         /\ journal' = journal \/ journal'.torn
<1>1. CASE journal' = journal /\ left' = b
  BY <1>1 DEF Budget
<1>2. CASE b.torn > 0 /\ journal' = CutAppend(journal) /\ left' = [b EXCEPT !.torn = @ - 1]
  <2>1. left' \in Budget
    BY <1>2, SpendOK
  <2>2. /\ left'.edits = b.edits /\ left'.headers = b.headers /\ left'.faults = b.faults
        /\ left'.torn <= b.torn /\ b.torn # 0
    BY <1>2 DEF Budget
  <2>3. QED
    BY <1>2, <2>1, <2>2, CutAppendFacts
<1>3. QED
  BY <1>1, <1>2 DEF LastWords

\* One more attempt cut short per TU in flight.
LEMMA CutShortType ==
  ASSUME HistoryOK, CutShort
  PROVE  /\ cut' \in [Phases -> [TUs -> Nat]]
         /\ \A p \in Phases, t \in TUs : cut'[p][t] =
              IF p = CurPhase /\ t \in Running /\ ~isolate THEN cut[p][t] + 1 ELSE cut[p][t]
BY TwoPhases DEF HistoryOK, CutShort

\* The first state is well typed.
LEMMA TypeInit == Init => TypeInv
<1> SUFFICES ASSUME Init PROVE TypeInv
  OBVIOUS
<1>1. FilesOK
  BY BoundsAssumption DEF Init, FilesOK, Versions, Budget
<1>2. IsJournal(journal)
  BY FreshIsJournal DEF Init, SomeOptions
<1>3. RunOK
  BY BoundsAssumption DEF Init, RunOK, Versions
<1>31. ModeOK
  BY Zenon DEF Init, ModeOK
<1>4. Running = {}
  BY DEF Init, Running
<1>5. TasksOK
  BY <1>4, FS_EmptySet, ThreadsAssumption DEF Init, TasksOK
<1>6. ResultsOK
  BY DEF Init, ResultsOK, Indexes
<1>7. HistoryOK
  BY BoundsAssumption DEF Init, HistoryOK, PerTu
<1>8. QED
  BY <1>1, <1>2, <1>3, <1>31, <1>5, <1>6, <1>7 DEF TypeInv

\* Opening the journal: its records have the types of what they replay.
LEMMA TypeOpen ==
  ASSUME TypeInv, NEW o \in Options, NEW iso \in Modes, Open(o, iso), FilesOK'
  PROVE  TypeInv'
<1> DEFINE j == Reopened(journal, o)
<1>1. IsJournal(j) /\ journal' = j /\ j.fingerprint = o
  BY ReopenedIsJournal DEF TypeInv, Open, j
<1> HIDE DEF j
<1>2. RunOK'
  <2>1. opts' = o /\ stamp' = src /\ hdrAt' = hdr /\ pc' = "index" /\ src' = src /\ hdr' = hdr
    BY DEF Open, fileVars, StampFiles
  <2>2. stamp' \in [TUs -> Versions] /\ \A t \in TUs : stamp'[t] <= src'[t]
    <3>1. src \in [TUs -> Versions]
      BY DEF TypeInv, FilesOK
    <3>2. \A t \in TUs : src[t] \in Nat
      BY <3>1, VersionsPositive
    <3>3. QED
      BY <2>1, <3>1, <3>2
  <2>3. QED
    BY <1>1, <2>1, <2>2, BoundsAssumption DEF TypeInv, FilesOK, RunOK
<1>21. ModeOK'
  BY Zenon DEF Open, ModeOK
<1>3. Running' = {}
  BY DEF Open, Running
<1>4. TasksOK'
  BY <1>3, FS_EmptySet, ThreadsAssumption DEF Open, SelectPhase1, TasksOK
<1>5. index' \in Indexes
  <2> DEFINE replay == {t \in TUs : Replays1(j, t, src[t])}
  <2>1. index' = [t \in TUs |-> IF t \in replay
                                THEN <<j.done[kPhaseIndex][t].payload>> ELSE <<>>]
    BY DEF Open, SelectPhase1, StampFiles, j
  <2>2. ASSUME NEW t \in replay PROVE j.done[kPhaseIndex][t].payload \in Contents
    <3>1. j.done[kPhaseIndex][t] \in Records1 \cup {NoRecord}
      BY <1>1 DEF IsJournal, Done1
    <3>2. j.done[kPhaseIndex][t].stamp = src[t] /\ src[t] # 0
      BY VersionsPositive DEF Replays1, TypeInv, FilesOK
    <3>3. QED
      BY <3>1, <3>2 DEF Records1, NoRecord, NoStamp
  <2>3. QED
    BY <2>1, <2>2 DEF Indexes
<1>6. ResultsOK'
  BY <1>5 DEF ResultsOK, Open
<1>7. HistoryOK'
  BY BoundsAssumption, TwoPhases DEF TypeInv, HistoryOK, Open, Forget, Recount, PerTu
<1>8. QED
  BY <1>1, <1>2, <1>21, <1>4, <1>6, <1>7 DEF TypeInv

\* A started task reads a content, and fits in the pool.
LEMMA TypeStartTask ==
  ASSUME TypeInv, NEW t \in TUs, StartTask(t)
  PROVE  TypeInv' /\ Running' = Running \cup {t} /\ Content(t) \in Contents /\ t \notin Running
<1>1. Content(t) \in Contents /\ Content(t) # Idle
  BY ContentNotIdle, VersionsPositive DEF TypeInv, FilesOK, RunOK, Content, Contents
<1>2. Running' = Running \cup {t} /\ parsing' \in [TUs -> Contents \cup {Idle}]
  BY <1>1 DEF TypeInv, TasksOK, StartTask, Running
<1>3. t \notin Running /\ t \in todo
  BY DEF TypeInv, TasksOK, StartTask
<1>4. /\ IsFiniteSet(Running') /\ Cardinality(Running) \in Nat
      /\ Cardinality(Running') = Cardinality(Running) + 1
  BY <1>2, <1>3, FS_AddElement, FS_CardinalityType DEF TypeInv, TasksOK
<1>5. TasksOK'
  BY <1>2, <1>3, <1>4, ThreadsAssumption DEF TypeInv, TasksOK, StartTask, runVars
<1>6. IsJournal(journal') /\ journal'.fingerprint = journal.fingerprint
  <2>1. stamp[t] \in Nat /\ IsJournal(journal)
    BY VersionsPositive DEF TypeInv, RunOK
  <2>2. LET r == RecordAttempt(journal, CurPhase, t, stamp[t])
        IN IsJournal(r) /\ r.fingerprint = journal.fingerprint
    BY <2>1, TwoPhases, AttemptRecorded
  <2>3. QED
    BY <2>1, <2>2 DEF StartTask, JournaledBeforeParse
<1>7. FilesOK' /\ RunOK' /\ ModeOK' /\ ResultsOK' /\ HistoryOK'
  BY <1>6 DEF TypeInv, FilesOK, RunOK, ModeOK, ResultsOK, HistoryOK, StartTask, fileVars, runVars, histVars
<1>8. QED
  BY <1>1, <1>2, <1>3, <1>5, <1>6, <1>7 DEF TypeInv

\* What a task in flight has read, and the key its result is journaled under.
LEMMA InFlight ==
  ASSUME TypeInv, NEW t \in Running
  PROVE  /\ t \in TUs /\ pc \in {"index", "analyze"} /\ parsing[t] \in Contents
         /\ t \notin todo /\ t \notin poisoned
         /\ PhaseHash \in Hashes /\ stamp[t] \in Versions
         /\ pc = "index" => Result(t) \in Contents /\ CurPhase = kPhaseIndex
         /\ pc = "analyze" => Result(t) \in Contents \X Indexes /\ CurPhase = kPhaseAnalyze
<1>1. t \in TUs /\ parsing[t] \in Contents
  BY DEF TypeInv, TasksOK, Running
<1>2. pc \in {"index", "analyze"} /\ t \notin todo /\ t \notin poisoned
  BY DEF TypeInv, TasksOK, RunOK
<1>3. stamp \in [TUs -> Versions]
  BY DEF TypeInv, RunOK
<1>4. PhaseHash \in Hashes
  BY <1>3 DEF PhaseHash, SetHash, Contributing, Hashes
<1>5. QED
  BY <1>1, <1>2, <1>3, <1>4 DEF Result, CurPhase, TypeInv, ResultsOK

\* The journal after the completion of a task.
LEMMA CompletionJournaled ==
  ASSUME TypeInv, NEW t \in Running
  PROVE  LET r == JournaledAfterParse(t)
         IN /\ IsJournal(r)
            /\ r.fingerprint = journal.fingerprint /\ r.torn = journal.torn
            /\ \A q \in Phases, u \in TUs :
                 /\ r.attempts[q][u] = IF ~journal.torn /\ q = CurPhase /\ u = t
                                       THEN NoAttempt ELSE journal.attempts[q][u]
                 /\ r.done[q][u] = IF ~journal.torn /\ q = CurPhase /\ u = t
                                   THEN [stamp |-> stamp[t], hash |-> PhaseHash,
                                         payload |-> Result(t)]
                                   ELSE journal.done[q][u]
<1>1. /\ t \in TUs /\ CurPhase \in Phases /\ stamp[t] \in Versions /\ PhaseHash \in Hashes
      /\ IsJournal(journal)
  BY InFlight, TwoPhases DEF TypeInv
<1>2. /\ CurPhase = kPhaseIndex => Result(t) \in Contents
      /\ CurPhase = kPhaseAnalyze => Result(t) \in Contents \X Indexes
  BY InFlight, TwoPhases
<1>3. QED
  BY <1>1, <1>2, DoneRecorded DEF JournaledAfterParse

\* Results that are merged are contents, or diagnostics of a merged index.
LEMMA AbsorbedType ==
  ASSUME TypeInv, NEW A \in SUBSET Running, Absorbed(A)
  PROVE  ResultsOK'
<1>1. \A t \in A : parsing[t] \in Contents
  BY InFlight
<1>2. CASE pc = "index"
  <2>1. \A t \in TUs : index[t] \in Seq(Contents)
    BY DEF TypeInv, ResultsOK, Indexes
  <2>2. index' \in Indexes
    <3>1. ASSUME NEW t \in A PROVE Append(index[t], parsing[t]) \in Seq(Contents)
      <4>1. index[t] \in Seq(Contents) /\ parsing[t] \in Contents
        BY <1>1, <2>1 DEF Running
      <4>2. QED
        BY <4>1
    <3>2. QED
      BY <1>2, <2>1, <3>1 DEF Absorbed, Indexes
  <2>3. QED
    BY <1>2, <2>2 DEF Absorbed, TypeInv, ResultsOK
<1>3. CASE pc # "index"
  BY <1>1, <1>3 DEF Absorbed, TypeInv, ResultsOK
<1>4. QED
  BY <1>2, <1>3

\* The counters and the keys after completions.
LEMMA ClearedType ==
  ASSUME TypeInv, NEW A \in SUBSET Running,
         deaths' = Cleared(deaths, A), cut' = Cleared(cut, A), finished' = Finished(A)
  PROVE  /\ HistoryOK'
         /\ \A p \in Phases, t \in TUs :
              /\ deaths'[p][t] = IF p = CurPhase /\ t \in A THEN 0 ELSE deaths[p][t]
              /\ cut'[p][t] = IF p = CurPhase /\ t \in A THEN 0 ELSE cut[p][t]
              /\ finished'[p][t] = IF p = CurPhase /\ t \in A THEN Key(t) ELSE finished[p][t]
<1>1. \A t \in A : Key(t) \in Versions \X Hashes
  BY InFlight DEF Key
<1>2. CurPhase \in Phases
  BY TwoPhases
<1>3. QED
  BY <1>1, <1>2, BoundsAssumption DEF TypeInv, HistoryOK, Cleared, Finished

\* FinishTask keeps the types.
LEMMA TypeFinishTask ==
  ASSUME TypeInv, NEW t \in TUs, FinishTask(t)
  PROVE  TypeInv' /\ Running' = Running \ {t}
<1>1. t \in Running
  BY DEF FinishTask
<1>2. Running' = Running \ {t}
  BY DEF FinishTask, Running, TypeInv, TasksOK
<1>3. IsFiniteSet(Running') /\ Cardinality(Running') <= Cardinality(Running)
  BY <1>2, FS_Subset, Running' \subseteq Running DEF TypeInv, TasksOK
<1>4. TasksOK'
  <2>1. Cardinality(Running') \in Nat /\ Cardinality(Running) \in Nat
    BY <1>3, FS_CardinalityType DEF TypeInv, TasksOK
  <2>2. QED
    BY <1>2, <1>3, <2>1, ThreadsAssumption DEF TypeInv, TasksOK, FinishTask, runVars
<1>5. IsJournal(journal') /\ journal'.fingerprint = journal.fingerprint
  BY <1>1, CompletionJournaled DEF FinishTask
<1>6. ResultsOK' /\ HistoryOK'
  BY <1>1, AbsorbedType, ClearedType DEF FinishTask
<1>7. FilesOK' /\ RunOK' /\ ModeOK'
  BY <1>5 DEF TypeInv, FilesOK, RunOK, ModeOK, FinishTask, fileVars, runVars
<1>8. QED
  BY <1>2, <1>4, <1>5, <1>6, <1>7 DEF TypeInv

\* PoisonTask keeps the types.
LEMMA TypePoisonTask ==
  ASSUME TypeInv, NEW t \in TUs, PoisonTask(t)
  PROVE  TypeInv' /\ Running' = Running \ {t}
<1>1. t \in Running /\ t \notin todo
  BY InFlight DEF PoisonTask
<1>2. Running' = Running \ {t}
  BY DEF PoisonTask, Running, TypeInv, TasksOK
<1>3. IsFiniteSet(Running') /\ Cardinality(Running') <= Cardinality(Running)
  BY <1>2, FS_Subset, Running' \subseteq Running DEF TypeInv, TasksOK
<1>4. TasksOK'
  <2>1. Cardinality(Running') \in Nat /\ Cardinality(Running) \in Nat
    BY <1>3, FS_CardinalityType DEF TypeInv, TasksOK
  <2>2. pc' = pc /\ todo' = todo /\ isolate' = isolate
    BY DEF PoisonTask, runVars
  <2>3. poisoned' \subseteq poisoned \cup {t} /\ poisoned \subseteq poisoned'
    BY DEF PoisonTask, GiveUpOn
  <2>4. QED
    BY <1>1, <1>2, <1>3, <2>1, <2>2, <2>3, ThreadsAssumption DEF TypeInv, TasksOK, PoisonTask
<1>5. FilesOK'
  <2>1. left' \in Budget /\ left'.edits = left.edits /\ left'.headers = left.headers
        /\ left'.faults <= left.faults
    <3>1. left \in Budget
      BY DEF TypeInv, FilesOK
    <3>2. CASE left' = left
      BY <3>1, <3>2 DEF Budget
    <3>3. CASE left.faults > 0 /\ left' = [left EXCEPT !.faults = @ - 1]
      BY <3>1, <3>3, SpendOK DEF Budget
    <3>4. QED
      BY <3>2, <3>3 DEF PoisonTask
  <2>2. QED
    BY <2>1, BoundsAssumption DEF TypeInv, FilesOK, PoisonTask, fileVars, Budget
<1>6. RunOK' /\ ModeOK' /\ ResultsOK' /\ HistoryOK' /\ IsJournal(journal')
  BY DEF TypeInv, RunOK, ModeOK, ResultsOK, HistoryOK, PoisonTask, fileVars, runVars, histVars
<1>7. QED
  BY <1>2, <1>4, <1>5, <1>6 DEF TypeInv

\* TornShard keeps the types: the TU whose entries were read is parsed again,
\* the last of the batch is given up on.
LEMMA TypeTornShard ==
  ASSUME TypeInv, NEW a \in TUs, NEW u \in TUs, TornShard(a, u)
  PROVE  TypeInv' /\ Running' = Running \ {u} /\ Content(a) \in Contents
<1>1. a \in Running /\ u \in Running /\ u # a /\ u \notin todo /\ a \notin poisoned
  BY InFlight DEF TornShard
<1>2. Content(a) \in Contents /\ Content(a) # Idle
  BY ContentNotIdle, VersionsPositive DEF TypeInv, FilesOK, RunOK, Content, Contents
<1>3. Running' = Running \ {u} /\ parsing' \in [TUs -> Contents \cup {Idle}]
  BY <1>1, <1>2 DEF TornShard, Running, TypeInv, TasksOK
<1>4. IsFiniteSet(Running') /\ Cardinality(Running') <= Cardinality(Running)
  BY <1>3, FS_Subset, Running' \subseteq Running DEF TypeInv, TasksOK
<1>5. TasksOK'
  <2>1. Cardinality(Running') \in Nat /\ Cardinality(Running) \in Nat
    BY <1>4, FS_CardinalityType DEF TypeInv, TasksOK
  <2>2. pc' = pc /\ todo' = todo /\ isolate' = isolate
    BY DEF TornShard, runVars
  <2>3. poisoned' \subseteq poisoned \cup {u} /\ poisoned \subseteq poisoned'
    BY DEF TornShard, GiveUpOn
  <2>4. QED
    BY <1>1, <1>3, <1>4, <2>1, <2>2, <2>3, ThreadsAssumption DEF TypeInv, TasksOK
<1>6. FilesOK'
  <2>1. left \in Budget /\ left.faults > 0 /\ left' = [left EXCEPT !.faults = @ - 1]
    BY DEF TypeInv, FilesOK, TornShard
  <2>2. left' \in Budget /\ left'.edits = left.edits /\ left'.headers = left.headers
        /\ left'.faults <= left.faults
    BY <2>1, SpendOK DEF Budget
  <2>3. QED
    BY <2>2, BoundsAssumption DEF TypeInv, FilesOK, TornShard, fileVars, Budget
<1>7. IsJournal(journal') /\ journal'.fingerprint = journal.fingerprint
  BY <1>1, CompletionJournaled DEF TornShard
<1>8. ResultsOK' /\ HistoryOK'
  BY <1>1, AbsorbedType, ClearedType DEF TornShard
<1>9. RunOK' /\ ModeOK'
  BY <1>7 DEF TypeInv, RunOK, ModeOK, TornShard, fileVars, runVars
<1>10. QED
  BY <1>2, <1>3, <1>5, <1>6, <1>7, <1>8, <1>9 DEF TypeInv

\* A phase-2 record that is replayed has diagnostics in it.
LEMMA Replayed2 ==
  ASSUME TypeInv, NEW t \in TUs, NEW h, Replays2(journal, t, stamp[t], h)
  PROVE  /\ journal.done[kPhaseAnalyze][t] \in Records2
         /\ journal.done[kPhaseAnalyze][t] # NoRecord
         /\ journal.done[kPhaseAnalyze][t].payload \in Contents \X Indexes
         /\ journal.done[kPhaseAnalyze][t].payload # NoDiags
<1>1. journal.done[kPhaseAnalyze][t] \in Records2 \cup {NoRecord}
  BY DEF TypeInv, IsJournal, Done2
<1>2. journal.done[kPhaseAnalyze][t].stamp = stamp[t] /\ stamp[t] # 0
  BY VersionsPositive DEF TypeInv, RunOK, Replays2
<1>3. journal.done[kPhaseAnalyze][t] \in Records2 /\ journal.done[kPhaseAnalyze][t] # NoRecord
  BY <1>1, <1>2 DEF NoRecord, NoStamp
<1>4. journal.done[kPhaseAnalyze][t].payload \in Contents \X Indexes
  BY <1>3 DEF Records2
<1>5. QED
  BY <1>3, <1>4, PairNotEmpty DEF NoDiags

\* The selection of phase 2 keeps the types.
LEMMA TypeStartPhase2 ==
  ASSUME TypeInv, StartPhase2
  PROVE  TypeInv' /\ Running = {} /\ Running' = {} /\ todo = {}
<1>1. Running = {} /\ Running' = {} /\ todo = {}
  BY DEF StartPhase2, TasksDone, Running
<1>2. TasksOK'
  BY <1>1, FS_EmptySet, ThreadsAssumption DEF TypeInv, TasksOK, StartPhase2
<1>3. ResultsOK'
  <2> DEFINE replay == {t \in TUs \ poisoned : Replays2(journal, t, stamp[t], SetHash)}
  <2>1. out' = [t \in TUs |-> IF t \in replay
                              THEN journal.done[kPhaseAnalyze][t].payload ELSE NoDiags]
    BY DEF StartPhase2
  <2>2. \A t \in replay : journal.done[kPhaseAnalyze][t].payload \in Contents \X Indexes
    BY Replayed2
  <2> HIDE DEF replay
  <2>3. QED
    BY <2>1, <2>2 DEF TypeInv, ResultsOK, StartPhase2
<1>4. ModeOK'
  BY Zenon DEF TypeInv, ModeOK, StartPhase2
<1>5. FilesOK' /\ RunOK' /\ HistoryOK' /\ IsJournal(journal')
  BY DEF TypeInv, FilesOK, RunOK, HistoryOK, StartPhase2, fileVars, histVars
<1>6. QED
  BY <1>1, <1>2, <1>3, <1>4, <1>5 DEF TypeInv

\* The end of a run keeps the types, whether it finishes, is killed or dies.
LEMMA TypeFinishRun ==
  ASSUME TypeInv, FinishRun
  PROVE  TypeInv' /\ Running = {} /\ Running' = {} /\ todo = {}
<1>1. Running = {} /\ Running' = {} /\ todo = {}
  BY DEF FinishRun, TasksDone, Running
<1>2. TasksOK'
  BY <1>1, FS_EmptySet, ThreadsAssumption DEF TypeInv, TasksOK, FinishRun
<1>3. FilesOK' /\ RunOK' /\ ModeOK' /\ ResultsOK' /\ HistoryOK' /\ IsJournal(journal')
  BY DEF TypeInv, FilesOK, RunOK, ModeOK, ResultsOK, HistoryOK, FinishRun, fileVars, runVars, histVars
<1>4. QED
  BY <1>1, <1>2, <1>3 DEF TypeInv

\* A killed run leaves the records of the journal as they are.
LEMMA TypeKill ==
  ASSUME TypeInv, Kill
  PROVE  /\ TypeInv' /\ left'.faults = left.faults /\ left'.torn <= left.torn
         /\ left.torn = 0 => journal' = journal
         /\ journal'.attempts = journal.attempts /\ journal'.done = journal.done
         /\ journal'.fingerprint = journal.fingerprint
         /\ journal' = journal \/ journal'.torn
<1> DEFINE b == [left EXCEPT !.kills = @ - 1]
<1>1. left \in Budget /\ left.kills > 0
  BY DEF TypeInv, FilesOK, Kill
<1>2. b \in Budget /\ b.edits = left.edits /\ b.headers = left.headers
      /\ b.faults = left.faults /\ b.torn = left.torn
  BY <1>1, SpendOK DEF Budget
<1>3. LastWords(Running, b)
  BY DEF Kill
<1> HIDE DEF b
<1>4. /\ IsJournal(journal') /\ left' \in Budget
      /\ journal'.fingerprint = journal.fingerprint
      /\ journal'.attempts = journal.attempts /\ journal'.done = journal.done
      /\ left'.edits = left.edits /\ left'.headers = left.headers /\ left'.faults = left.faults
      /\ left'.torn <= left.torn
      /\ left.torn = 0 => journal' = journal
      /\ journal' = journal \/ journal'.torn
  BY <1>2, <1>3, LastWordsFacts DEF TypeInv
<1>5. TasksOK' /\ ResultsOK'
  BY LoseMemoryType DEF Kill
<1>6. FilesOK' /\ RunOK' /\ ModeOK'
  BY <1>4 DEF TypeInv, FilesOK, RunOK, ModeOK, Kill, LoseMemory, fileVars, runVars
<1>7. HistoryOK'
  BY CutShortType DEF TypeInv, HistoryOK, Kill
<1>8. QED
  BY <1>4, <1>5, <1>6, <1>7 DEF TypeInv

\* So does a run that dies in a parse.
LEMMA TypeDie ==
  ASSUME TypeInv, NEW t \in TUs, Die(t)
  PROVE  /\ TypeInv' /\ left'.faults = left.faults /\ left'.torn <= left.torn
         /\ left.torn = 0 => journal' = journal
         /\ journal'.attempts = journal.attempts /\ journal'.done = journal.done
         /\ journal'.fingerprint = journal.fingerprint
         /\ journal' = journal \/ journal'.torn
<1>1. left \in Budget /\ LastWords(Running \ {t}, left)
  BY DEF TypeInv, FilesOK, Die
<1>2. /\ IsJournal(journal') /\ left' \in Budget
      /\ journal'.fingerprint = journal.fingerprint
      /\ journal'.attempts = journal.attempts /\ journal'.done = journal.done
      /\ left'.edits = left.edits /\ left'.headers = left.headers /\ left'.faults = left.faults
      /\ left'.torn <= left.torn
      /\ left.torn = 0 => journal' = journal
      /\ journal' = journal \/ journal'.torn
  BY <1>1, LastWordsFacts DEF TypeInv
<1>3. TasksOK' /\ ResultsOK'
  BY LoseMemoryType DEF Die
<1>4. FilesOK' /\ RunOK' /\ ModeOK'
  BY <1>2 DEF TypeInv, FilesOK, RunOK, ModeOK, Die, LoseMemory, fileVars, runVars
<1>5. HistoryOK'
  <2>1. deaths' \in [Phases -> [TUs -> 0 .. MaxDeaths]]
    BY TwoPhases, BoundsAssumption DEF TypeInv, HistoryOK, Die
  <2>2. QED
    BY <2>1, CutShortType DEF TypeInv, HistoryOK, Die
<1>6. QED
  BY <1>2, <1>3, <1>4, <1>5 DEF TypeInv

\* The user's edits stay within their bounds.
LEMMA TypeEditSource ==
  ASSUME TypeInv, NEW t \in TUs, EditSource(t)
  PROVE  TypeInv' /\ Running' = Running /\ \A u \in TUs : src[u] <= src'[u]
<1>1. Running' = Running
  BY DEF EditSource, Running
<1>2. /\ left \in Budget /\ left.edits > 0 /\ left' = [left EXCEPT !.edits = @ - 1]
      /\ src \in [TUs -> Versions] /\ src' = [src EXCEPT ![t] = @ + 1]
      /\ \A u \in TUs : src[u] + left.edits <= MaxEdits + 1
  BY DEF TypeInv, FilesOK, EditSource
<1>3. /\ left' \in Budget /\ left'.edits = left.edits - 1 /\ left'.headers = left.headers
      /\ left'.faults = left.faults /\ left.edits \in Nat
  BY <1>2, SpendOK DEF Budget
<1>4. \A u \in TUs : src[u] \in Nat /\ src[u] >= 1
  BY <1>2, VersionsPositive
<1>5. /\ \A u \in TUs : /\ src'[u] \in Nat /\ src'[u] >= 1 /\ src[u] <= src'[u]
                        /\ src'[u] + left'.edits <= MaxEdits + 1
      /\ DOMAIN src' = TUs
  BY <1>2, <1>3, <1>4, BoundsAssumption
<1>6. src' \in [TUs -> Versions]
  BY <1>2, <1>3, <1>5, BoundsAssumption DEF Versions
<1>7. FilesOK'
  BY <1>3, <1>5, <1>6 DEF TypeInv, FilesOK, EditSource
<1>8. RunOK'
  <2>1. \A u \in TUs : stamp[u] \in Nat
    BY VersionsPositive DEF TypeInv, RunOK
  <2>2. QED
    BY <1>4, <1>5, <2>1 DEF TypeInv, RunOK, EditSource, runVars
<1>9. ModeOK' /\ TasksOK' /\ ResultsOK' /\ HistoryOK' /\ IsJournal(journal')
  BY <1>1 DEF TypeInv, ModeOK, TasksOK, ResultsOK, HistoryOK, EditSource, runVars, histVars
<1>10. QED
  BY <1>1, <1>5, <1>7, <1>8, <1>9 DEF TypeInv

\* Header edits, too.
LEMMA TypeEditHeader ==
  ASSUME TypeInv, EditHeader
  PROVE  TypeInv' /\ Running' = Running
<1>1. Running' = Running
  BY DEF EditHeader, Running
<1>2. left \in Budget /\ left.headers > 0 /\ left' = [left EXCEPT !.headers = @ - 1]
  BY DEF TypeInv, FilesOK, EditHeader
<1>3. /\ left' \in Budget /\ left'.headers = left.headers - 1 /\ left'.edits = left.edits
      /\ left'.faults = left.faults /\ left.headers \in Nat
  BY <1>2, SpendOK DEF Budget
<1>4. FilesOK'
  BY <1>3, BoundsAssumption DEF TypeInv, FilesOK, EditHeader
<1>5. RunOK'
  BY BoundsAssumption DEF TypeInv, FilesOK, RunOK, EditHeader, runVars
<1>6. ModeOK' /\ TasksOK' /\ ResultsOK' /\ HistoryOK' /\ IsJournal(journal')
  BY <1>1 DEF TypeInv, ModeOK, TasksOK, ResultsOK, HistoryOK, EditHeader, runVars, histVars
<1>7. QED
  BY <1>1, <1>4, <1>5, <1>6 DEF TypeInv

\* A new run, after an interrupted or a finished one, keeps the types.
LEMMA TypeNewRun ==
  ASSUME TypeInv, Resume \/ Rerun
  PROVE  /\ TypeInv' /\ left'.faults = left.faults /\ left'.torn = left.torn
         /\ \E o \in Options, iso \in Modes : Open(o, iso)
<1>1. PICK o \in Options, iso \in Modes : Open(o, iso)
  BY DEF Resume, Rerun, TypeInv, RunOK
<1>2. left \in Budget /\ (left' = left \/ (left.reruns > 0 /\ left' = [left EXCEPT !.reruns = @ - 1]))
  <2>1. left \in Budget
    BY DEF TypeInv, FilesOK
  <2>2. left' = left \/ (left.reruns > 0 /\ left' = [left EXCEPT !.reruns = @ - 1])
    <3>1. CASE Resume
      <4>1. left' = left
        BY <3>1, Zenon DEF Resume
      <4>2. QED
        BY <4>1
    <3>2. CASE Rerun
      BY <3>2, Zenon DEF Rerun
    <3>3. QED
      BY <3>1, <3>2
  <2>3. QED
    BY <2>1, <2>2
<1>3. /\ left' \in Budget /\ left'.edits = left.edits /\ left'.headers = left.headers
      /\ left'.faults = left.faults /\ left'.torn = left.torn
  <2>1. CASE left' = left
    BY <1>2, <2>1
  <2>2. CASE left.reruns > 0 /\ left' = [left EXCEPT !.reruns = @ - 1]
    BY <1>2, <2>2, SpendOK DEF Budget
  <2>3. QED
    BY <1>2, <2>1, <2>2
<1>4. FilesOK'
  BY <1>1, <1>3 DEF TypeInv, FilesOK, Open, fileVars
<1>5. QED
  BY <1>1, <1>3, <1>4, TypeOpen

\* Every step keeps the types.
LEMMA TypeStep == TypeInv /\ [Next]_vars => TypeInv'
<1> SUFFICES ASSUME TypeInv, [Next]_vars PROVE TypeInv'
  OBVIOUS
<1>1. CASE Resume \/ Rerun
  BY <1>1, TypeNewRun
<1>2. CASE StartPhase2
  BY <1>2, TypeStartPhase2
<1>3. CASE FinishRun
  BY <1>3, TypeFinishRun
<1>4. ASSUME NEW t \in TUs, StartTask(t) PROVE TypeInv'
  BY <1>4, TypeStartTask
<1>5. ASSUME NEW t \in TUs, FinishTask(t) PROVE TypeInv'
  BY <1>5, TypeFinishTask
<1>6. ASSUME NEW t \in TUs, PoisonTask(t) PROVE TypeInv'
  BY <1>6, TypePoisonTask
<1>7. ASSUME NEW t \in TUs, Die(t) PROVE TypeInv'
  BY <1>7, TypeDie
<1>8. CASE Kill
  BY <1>8, TypeKill
<1>9. CASE EditHeader
  BY <1>9, TypeEditHeader
<1>10. ASSUME NEW t \in TUs, EditSource(t) PROVE TypeInv'
  BY <1>10, TypeEditSource
<1>11. ASSUME NEW a \in TUs, NEW u \in TUs, TornShard(a, u) PROVE TypeInv'
  BY <1>11, TypeTornShard
<1>12. CASE UNCHANGED vars
  BY <1>12 DEF TypeInv, FilesOK, RunOK, ModeOK, TasksOK, ResultsOK, HistoryOK, Running,
     vars, fileVars, runVars, histVars
<1>13. QED
  BY <1>1, <1>2, <1>3, <1>4, <1>5, <1>6, <1>7, <1>8, <1>9, <1>10, <1>11, <1>12
  DEF Next, Progress, Environment

\* TypeInv holds in every state.
LEMMA TypeAlways == Spec => []TypeInv
BY TypeInit, TypeStep, PTL DEF Spec

\* Every state is well typed, a TU is never in two of the run's lists, and the
\* in-process pool never has more tasks in flight than threads: for any number
\* of TUs, threads and faults (runPerTuTasks, Analyzer.cpp).
THEOREM TypeCorrect == Spec => []TypeOK
<1>1. TypeInv => TypeOK
  BY DEF TypeInv, FilesOK, RunOK, ModeOK, TasksOK, ResultsOK, HistoryOK, TypeOK, IsJournal,
     SomeOptions
<1>2. QED
  BY <1>1, TypeAlways, PTL

-----------------------------------------------------------------------------
(* What a finished run has merged and diagnosed, as long as no header is     *)
(* edited (no stamp of the journal covers headers).                          *)

\* c is what a parse of t, under options o, read at some moment since t was at
\* version s.
Since(c, t, s, o) == s <= c.src /\ c.src <= src[t] /\ c.opts = o

\* Parses in flight, and what has been merged, began after the run took its
\* stamps; the payload of a record began after the record's stamp was taken.
FlightSince  == \A t \in Running : Since(parsing[t], t, stamp[t], opts)
IndexSince   == \A t \in TUs : \A i \in DOMAIN index[t] : Since(index[t][i], t, stamp[t], opts)
\* So are the entries of phase 1 in the journal.
Record1Since ==
  \A t \in TUs : LET r == journal.done[kPhaseIndex][t]
                 IN r # NoRecord => Since(r.payload, t, r.stamp, journal.fingerprint)

\* A TU that phase 1 is through with, and did not give up on, is in the index.
Contributed ==
  /\ pc = "index" => \A t \in TUs \ (todo \cup poisoned \cup Running) : index[t] # <<>>
  /\ pc \in {"analyze", "done"} => \A t \in Contributing : index[t] # <<>>

\* The invariant of phase 1.
FreshInv == FlightSince /\ IndexSince /\ Record1Since /\ Contributed

\* A record of phase 1 and its payload.
LEMMA Record1Type ==
  ASSUME NEW j, IsJournal(j), NEW t \in TUs, j.done[kPhaseIndex][t] # NoRecord
  PROVE  /\ j.done[kPhaseIndex][t].payload \in Contents
         /\ j.done[kPhaseIndex][t].stamp \in Versions
BY DEF IsJournal, Done1, Records1

\* Versions only grow: what was read since version s still was.
LEMMA SinceKept ==
  ASSUME TypeInv, NEW t \in TUs, src[t] <= src'[t], src'[t] \in Nat,
         NEW c \in Contents, NEW s, NEW o, Since(c, t, s, o)
  PROVE  Since(c, t, s, o)'
<1>1. c.src \in Nat /\ src[t] \in Nat
  BY ContentNotIdle, VersionsPositive DEF TypeInv, FilesOK
<1>2. QED
  BY <1>1 DEF Since

\* The files are as they were.
LEMMA SinceSame ==
  ASSUME src' = src, NEW c, NEW t, NEW s, NEW o
  PROVE  Since(c, t, s, o)' <=> Since(c, t, s, o)
BY DEF Since

\* What a parse that starts now reads.
LEMMA ContentSince ==
  ASSUME TypeInv, NEW t \in TUs
  PROVE  stamp[t] <= Content(t).src /\ Content(t).src <= src[t] /\ Content(t).opts = opts
<1>1. src[t] \in Nat /\ stamp[t] <= src[t]
  BY VersionsPositive DEF TypeInv, FilesOK, RunOK
<1>2. Content(t).src = src[t] /\ Content(t).opts = opts
  BY DEF Content
<1>3. QED
  BY <1>1, <1>2

\* A sequence with one element more.
LEMMA Appended ==
  ASSUME NEW S, NEW x \in Seq(S), NEW e \in S
  PROVE  /\ Append(x, e) # <<>> /\ Len(x) \in Nat
         /\ DOMAIN Append(x, e) = 1 .. Len(x) + 1 /\ DOMAIN x = 1 .. Len(x)
         /\ \A i \in 1 .. Len(x) : Append(x, e)[i] = x[i]
         /\ Append(x, e)[Len(x) + 1] = e
OBVIOUS

\* The first state has read nothing.
LEMMA FreshInit == Init => FreshInv
<1> SUFFICES ASSUME Init PROVE FreshInv
  OBVIOUS
<1>1. Running = {} /\ \A t \in TUs : index[t] = <<>>
  BY DEF Init, Running
<1>2. \A t \in TUs : journal.done[kPhaseIndex][t] = NoRecord
  BY TwoPhases, FreshIsJournal DEF Init, SomeOptions
<1>3. QED
  BY <1>1, <1>2 DEF FreshInv, FlightSince, IndexSince, Record1Since, Contributed, Init

\* What open() leaves of the records of phase 1.
LEMMA OpenRecords1 ==
  ASSUME TypeInv, Record1Since, NEW o \in Options, NEW iso \in Modes, Open(o, iso)
  PROVE  Record1Since'
<1>1. src' = src /\ journal' = Reopened(journal, o)
  BY DEF Open, fileVars
<1>2. CASE journal' = journal
  BY <1>1, <1>2, SinceSame DEF Record1Since
<1>3. CASE journal' = Fresh(o)
  <2>1. \A t \in TUs : Fresh(o).done[kPhaseIndex][t] = NoRecord
    BY FreshIsJournal, TwoPhases DEF SomeOptions
  <2>2. QED
    BY <1>3, <2>1 DEF Record1Since
<1>4. QED
  BY <1>1, <1>2, <1>3, ReopenedIsJournal DEF TypeInv

\* A run starts with what the records of the very versions it sees hold.
LEMMA FreshOpen ==
  ASSUME TypeInv, FreshInv, NEW o \in Options, NEW iso \in Modes, Open(o, iso)
  PROVE  FreshInv'
<1> DEFINE j == Reopened(journal, o)
           replay == {t \in TUs : Replays1(j, t, src[t])}
<1>1. /\ src' = src /\ journal' = j /\ opts' = o /\ stamp' = src /\ pc' = "index"
      /\ Running' = {}
  BY DEF Open, fileVars, StampFiles, Running
<1>2. /\ index' = [t \in TUs |-> IF t \in replay
                                 THEN <<j.done[kPhaseIndex][t].payload>> ELSE <<>>]
      /\ poisoned' = {t \in TUs \ replay : Poisoned(j, kPhaseIndex, t, src[t])}
      /\ todo' = TUs \ (replay \cup poisoned')
  BY DEF Open, SelectPhase1, StampFiles
<1>3. Record1Since' /\ IsJournal(j) /\ j.fingerprint = o
  BY OpenRecords1, ReopenedIsJournal DEF FreshInv, TypeInv
<1> HIDE DEF j
<1>4. ASSUME NEW t \in TUs, NEW i \in DOMAIN index'[t]
      PROVE  Since(index[t][i], t, stamp[t], opts)'
  <2>1. t \in replay /\ index'[t] = <<j.done[kPhaseIndex][t].payload>> /\ i = 1
    BY <1>2
  <2>2. j.done[kPhaseIndex][t].stamp = src[t] /\ src[t] # 0
    BY <2>1, VersionsPositive DEF Replays1, TypeInv, FilesOK
  <2>3. j.done[kPhaseIndex][t] # NoRecord
    BY <2>2 DEF NoRecord, NoStamp
  <2>4. LET c == j.done[kPhaseIndex][t].payload
        IN src[t] <= c.src /\ c.src <= src[t] /\ c.opts = o
    BY <1>1, <1>3, <2>2, <2>3 DEF Record1Since, Since
  <2>5. QED
    BY <1>1, <2>1, <2>4 DEF Since
<1>5. \A t \in TUs \ (todo' \cup poisoned') : index'[t] # <<>>
  BY <1>2
<1>6. QED
  BY <1>1, <1>3, <1>4, <1>5 DEF FreshInv, FlightSince, IndexSince, Contributed

\* What a task in flight holds.
LEMMA InFlightSince ==
  ASSUME TypeInv, FreshInv, NEW a \in Running
  PROVE  /\ a \in TUs /\ pc \in {"index", "analyze"} /\ parsing[a] \in Contents
         /\ Since(parsing[a], a, stamp[a], opts) /\ journal.fingerprint = opts
<1>1. a \in TUs /\ pc \in {"index", "analyze"} /\ parsing[a] \in Contents
  BY InFlight
<1>2. Since(parsing[a], a, stamp[a], opts)
  BY <1>1 DEF FreshInv, FlightSince
<1>3. journal.fingerprint = opts
  BY <1>1 DEF TypeInv, RunOK
<1>4. QED
  BY <1>1, <1>2, <1>3

\* What a completed task adds to the journal and to the index began after the
\* stamps were taken.
LEMMA FreshCompletion ==
  ASSUME TypeInv, FreshInv, NEW a \in Running,
         journal' = JournaledAfterParse(a), Absorbed({a}),
         src' = src, pc' = pc, opts' = opts, stamp' = stamp
  PROVE  /\ Record1Since' /\ IndexSince'
         /\ \A t \in TUs : index[t] # <<>> => index'[t] # <<>>
         /\ pc = "index" => index'[a] # <<>>
<1>1. /\ a \in TUs /\ pc \in {"index", "analyze"} /\ parsing[a] \in Contents
      /\ Since(parsing[a], a, stamp[a], opts) /\ journal.fingerprint = opts
  BY InFlightSince
<1>2. Record1Since'
  <2>1. /\ journal'.fingerprint = journal.fingerprint
        /\ \A t \in TUs : journal'.done[kPhaseIndex][t] =
             IF ~journal.torn /\ pc = "index" /\ t = a
             THEN [stamp |-> stamp[a], hash |-> PhaseHash, payload |-> parsing[a]]
             ELSE journal.done[kPhaseIndex][t]
    <3>1. /\ journal'.fingerprint = journal.fingerprint
          /\ \A q \in Phases, u \in TUs :
               journal'.done[q][u] = IF ~journal.torn /\ q = CurPhase /\ u = a
                                     THEN [stamp |-> stamp[a], hash |-> PhaseHash,
                                           payload |-> Result(a)]
                                     ELSE journal.done[q][u]
      BY CompletionJournaled
    <3>2. /\ kPhaseIndex \in Phases /\ (kPhaseIndex = CurPhase <=> pc = "index")
          /\ pc = "index" => Result(a) = parsing[a]
      BY TwoPhases DEF CurPhase, Result
    <3> QED BY <3>1, <3>2
  <2>2. ASSUME NEW t \in TUs, journal'.done[kPhaseIndex][t] # NoRecord
        PROVE  Since(journal.done[kPhaseIndex][t].payload, t,
                     journal.done[kPhaseIndex][t].stamp, journal.fingerprint)'
    <3>1. CASE journal'.done[kPhaseIndex][t] = journal.done[kPhaseIndex][t]
      BY <2>1, <2>2, <3>1 DEF FreshInv, Record1Since, Since
    <3>2. CASE /\ t = a
               /\ journal'.done[kPhaseIndex][t] =
                    [stamp |-> stamp[a], hash |-> PhaseHash, payload |-> parsing[a]]
      <4>1. /\ journal'.done[kPhaseIndex][t].stamp = stamp[a]
            /\ journal'.done[kPhaseIndex][t].payload = parsing[a]
        BY <3>2
      <4>2. QED
        BY <1>1, <2>1, <3>2, <4>1 DEF Since
    <3>3. QED
      BY <2>1, <3>1, <3>2
  <2>3. QED
    BY <2>2 DEF Record1Since
<1>3. CASE pc = "index"
  <2>1. \A t \in TUs : index'[t] = IF t = a THEN Append(index[t], parsing[t]) ELSE index[t]
    BY <1>3 DEF Absorbed
  <2>2. index[a] \in Seq(Contents)
    BY <1>1 DEF TypeInv, ResultsOK, Indexes
  <2>3. /\ index'[a] # <<>> /\ DOMAIN index'[a] = 1 .. Len(index[a]) + 1
        /\ DOMAIN index[a] = 1 .. Len(index[a]) /\ Len(index[a]) \in Nat
        /\ \A i \in 1 .. Len(index[a]) : index'[a][i] = index[a][i]
        /\ index'[a][Len(index[a]) + 1] = parsing[a]
    <3>1. index'[a] = Append(index[a], parsing[a])
      BY <1>1, <2>1
    <3>2. QED
      BY <1>1, <2>2, <3>1, Appended
  <2>4. ASSUME NEW t \in TUs, NEW i \in DOMAIN index'[t]
        PROVE  Since(index[t][i], t, stamp[t], opts)'
    <3>1. CASE t = a /\ i = Len(index[a]) + 1
      BY <1>1, <2>3, <3>1 DEF Since
    <3>2. CASE ~(t = a /\ i = Len(index[a]) + 1)
      <4>1. i \in DOMAIN index[t] /\ index'[t][i] = index[t][i]
        BY <2>1, <2>3, <3>2
      <4>2. QED
        BY <4>1 DEF Since, FreshInv, IndexSince
    <3>3. QED
      BY <3>1, <3>2
  <2>5. QED
    BY <1>2, <2>1, <2>3, <2>4 DEF IndexSince
<1>4. CASE pc = "analyze"
  <2>1. index' = index
    BY <1>4 DEF Absorbed
  <2>2. QED
    BY <1>2, <1>4, <2>1 DEF IndexSince, FreshInv, Since
<1>5. QED
  BY <1>1, <1>3, <1>4

\* Starting a task: it reads what is there now.
LEMMA FreshStartTask ==
  ASSUME TypeInv, FreshInv, NEW t \in TUs, StartTask(t)
  PROVE  FreshInv'
<1>1. /\ src' = src /\ pc' = pc /\ opts' = opts /\ stamp' = stamp /\ index' = index
      /\ poisoned' = poisoned /\ todo' = todo \ {t} /\ t \in todo
      /\ parsing' = [parsing EXCEPT ![t] = Content(t)]
  BY DEF StartTask, fileVars, runVars
<1>2. Running' = Running \cup {t} /\ t \notin Running
  BY TypeStartTask
<1>3. FlightSince'
  <2>1. stamp[t] <= Content(t).src /\ Content(t).src <= src[t] /\ Content(t).opts = opts
    BY ContentSince
  <2>2. \A u \in Running' : parsing'[u] = IF u = t THEN Content(t) ELSE parsing[u]
    BY <1>1 DEF TypeInv, TasksOK, Running
  <2>3. QED
    BY <1>1, <1>2, <2>1, <2>2 DEF FreshInv, FlightSince, Since
<1>4. journal'.done = journal.done /\ journal'.fingerprint = journal.fingerprint
  <2>1. stamp[t] \in Nat /\ IsJournal(journal) /\ CurPhase \in Phases
    BY VersionsPositive, TwoPhases DEF TypeInv, RunOK
  <2>2. LET r == RecordAttempt(journal, CurPhase, t, stamp[t])
        IN r.done = journal.done /\ r.fingerprint = journal.fingerprint
    BY <2>1, AttemptRecorded
  <2>3. QED
    BY <2>1, <2>2 DEF StartTask, JournaledBeforeParse
<1>5. Record1Since' /\ IndexSince'
  BY <1>1, <1>4 DEF FreshInv, Record1Since, IndexSince, Since
<1>6. Contributed'
  BY <1>1, <1>2 DEF FreshInv, Contributed, Contributing
<1>7. QED
  BY <1>3, <1>5, <1>6 DEF FreshInv

\* A task that finishes puts its TU in the index.
LEMMA FreshFinishTask ==
  ASSUME TypeInv, FreshInv, NEW t \in TUs, FinishTask(t)
  PROVE  FreshInv'
<1>1. /\ src' = src /\ pc' = pc /\ opts' = opts /\ stamp' = stamp
      /\ poisoned' = poisoned /\ todo' = todo
      /\ parsing' = [parsing EXCEPT ![t] = Idle]
      /\ t \in Running /\ journal' = JournaledAfterParse(t) /\ Absorbed({t})
  BY DEF FinishTask, fileVars, runVars
<1>2. Running' = Running \ {t} /\ pc \in {"index", "analyze"}
  BY <1>1, TypeFinishTask, InFlight
<1>3. /\ Record1Since' /\ IndexSince'
      /\ \A u \in TUs : index[u] # <<>> => index'[u] # <<>>
      /\ pc = "index" => index'[t] # <<>>
  BY <1>1, FreshCompletion
<1>4. FlightSince'
  BY <1>1, <1>2 DEF FreshInv, FlightSince, Since, TypeInv, TasksOK, Running
<1>5. Contributed'
  BY <1>1, <1>2, <1>3 DEF FreshInv, Contributed, Contributing
<1>6. QED
  BY <1>3, <1>4, <1>5 DEF FreshInv

\* Giving up on a task.
LEMMA FreshPoisonTask ==
  ASSUME TypeInv, FreshInv, NEW t \in TUs, PoisonTask(t)
  PROVE  FreshInv'
<1>1. /\ src' = src /\ pc' = pc /\ opts' = opts /\ stamp' = stamp /\ index' = index
      /\ journal' = journal /\ todo' = todo /\ t \in Running
      /\ parsing' = [parsing EXCEPT ![t] = Idle]
      /\ poisoned' = IF pc = "index" THEN poisoned \cup {t} ELSE poisoned
  BY DEF PoisonTask, GiveUpOn, fileVars, runVars
<1>2. Running' = Running \ {t}
  BY TypePoisonTask
<1>3. FlightSince'
  BY <1>1, <1>2 DEF FreshInv, FlightSince, Since, TypeInv, TasksOK, Running
<1>4. Record1Since' /\ IndexSince'
  BY <1>1 DEF FreshInv, Record1Since, IndexSince, Since
<1>5. Contributed'
  BY <1>1, <1>2 DEF FreshInv, Contributed, Contributing
<1>6. QED
  BY <1>3, <1>4, <1>5 DEF FreshInv

\* A torn shard: the TU read from it is merged, then parsed again.
LEMMA FreshTornShard ==
  ASSUME TypeInv, FreshInv, NEW a \in TUs, NEW u \in TUs, TornShard(a, u)
  PROVE  FreshInv'
<1>1. /\ src' = src /\ pc' = pc /\ opts' = opts /\ stamp' = stamp /\ todo' = todo
      /\ parsing' = [parsing EXCEPT ![u] = Idle, ![a] = Content(a)]
      /\ poisoned' = IF pc = "index" THEN poisoned \cup {u} ELSE poisoned
      /\ a \in Running /\ u \in Running /\ u # a
      /\ journal' = JournaledAfterParse(a) /\ Absorbed({a})
  BY DEF TornShard, GiveUpOn, fileVars, runVars
<1>2. Running' = Running \ {u} /\ pc \in {"index", "analyze"}
  BY <1>1, TypeTornShard, InFlight
<1>3. /\ Record1Since' /\ IndexSince'
      /\ \A v \in TUs : index[v] # <<>> => index'[v] # <<>>
  BY <1>1, FreshCompletion
<1>4. FlightSince'
  <2>1. stamp[a] <= Content(a).src /\ Content(a).src <= src[a] /\ Content(a).opts = opts
    BY ContentSince
  <2>2. \A v \in Running' : parsing'[v] = IF v = a THEN Content(a) ELSE parsing[v]
    BY <1>1, <1>2 DEF TypeInv, TasksOK, Running
  <2>3. QED
    BY <1>1, <1>2, <2>1, <2>2 DEF FreshInv, FlightSince, Since
<1>5. Contributed'
  BY <1>1, <1>2, <1>3 DEF FreshInv, Contributed, Contributing
<1>6. QED
  BY <1>3, <1>4, <1>5 DEF FreshInv

\* Phase 1 is over when no TU is left to index, so each contributing one is in.
LEMMA FreshNextPhase ==
  ASSUME TypeInv, FreshInv, StartPhase2 \/ FinishRun
  PROVE  FreshInv'
<1>1. /\ src' = src /\ opts' = opts /\ stamp' = stamp /\ index' = index /\ journal' = journal
      /\ poisoned' = poisoned
      /\ (pc = "index" /\ pc' = "analyze") \/ (pc = "analyze" /\ pc' = "done")
  BY DEF StartPhase2, FinishRun, fileVars, runVars
<1>2. Running = {} /\ Running' = {} /\ todo = {}
  BY TypeStartPhase2, TypeFinishRun
<1>3. QED
  BY <1>1, <1>2 DEF FreshInv, FlightSince, IndexSince, Record1Since, Contributed,
     Contributing, Since

\* An end that only the files survive leaves nothing in flight or merged.
LEMMA FreshEnd ==
  ASSUME TypeInv, FreshInv, Kill \/ \E t \in TUs : Die(t)
  PROVE  FreshInv'
<1>1. LoseMemory /\ src' = src
  BY DEF Kill, Die, fileVars
<1>2. journal'.done = journal.done /\ journal'.fingerprint = journal.fingerprint
  BY TypeKill, TypeDie
<1>3. Running' = {} /\ pc' = "down" /\ \A t \in TUs : index'[t] = <<>>
  BY <1>1, LoseMemoryType DEF LoseMemory
<1>4. Record1Since'
  BY <1>1, <1>2 DEF FreshInv, Record1Since, Since
<1>5. QED
  BY <1>3, <1>4 DEF FreshInv, FlightSince, IndexSince, Contributed

\* Edits only make versions grow.
LEMMA FreshEdit ==
  ASSUME TypeInv, FreshInv, NEW t \in TUs, EditSource(t)
  PROVE  FreshInv'
<1>1. /\ UNCHANGED <<journal, pc, opts, stamp, poisoned, todo, parsing, index>>
      /\ Running' = Running /\ TypeInv' /\ \A u \in TUs : src[u] <= src'[u]
  BY TypeEditSource DEF EditSource, runVars
<1>2. \A u \in TUs : src'[u] \in Nat
  BY <1>1, VersionsPositive DEF TypeInv, FilesOK
<1>3. FlightSince'
  BY <1>1, <1>2, InFlight, SinceKept DEF FreshInv, FlightSince
<1>4. IndexSince'
  <2>1. \A u \in TUs : \A i \in DOMAIN index[u] : index[u][i] \in Contents
    BY DEF TypeInv, ResultsOK, Indexes
  <2>2. QED
    BY <1>1, <1>2, <2>1, SinceKept DEF FreshInv, IndexSince
<1>5. Record1Since'
  BY <1>1, <1>2, Record1Type, SinceKept DEF FreshInv, Record1Since, TypeInv
<1>6. Contributed'
  BY <1>1 DEF FreshInv, Contributed, Contributing
<1>7. QED
  BY <1>3, <1>4, <1>5, <1>6 DEF FreshInv

\* Every step keeps FreshInv.
LEMMA FreshStep == TypeInv /\ FreshInv /\ [Next]_vars => FreshInv'
<1> SUFFICES ASSUME TypeInv, FreshInv, [Next]_vars PROVE FreshInv'
  OBVIOUS
<1>1. CASE Resume \/ Rerun
  BY <1>1, TypeNewRun, FreshOpen
<1>2. CASE StartPhase2 \/ FinishRun
  BY <1>2, FreshNextPhase
<1>3. ASSUME NEW t \in TUs, StartTask(t) PROVE FreshInv'
  BY <1>3, FreshStartTask
<1>4. ASSUME NEW t \in TUs, FinishTask(t) PROVE FreshInv'
  BY <1>4, FreshFinishTask
<1>5. ASSUME NEW t \in TUs, PoisonTask(t) PROVE FreshInv'
  BY <1>5, FreshPoisonTask
<1>6. CASE Kill \/ \E t \in TUs : Die(t)
  BY <1>6, FreshEnd
<1>7. CASE EditHeader \/ UNCHANGED vars
  <2>1. /\ UNCHANGED <<src, journal, pc, opts, stamp, poisoned, todo, parsing, index>>
        /\ Running' = Running
    BY <1>7 DEF EditHeader, vars, fileVars, runVars, Running
  <2>2. QED
    BY <2>1 DEF FreshInv, FlightSince, IndexSince, Record1Since, Contributed, Contributing, Since
<1>8. ASSUME NEW t \in TUs, EditSource(t) PROVE FreshInv'
  BY <1>8, FreshEdit
<1>9. ASSUME NEW a \in TUs, NEW u \in TUs, TornShard(a, u) PROVE FreshInv'
  BY <1>9, FreshTornShard
<1>10. QED
  BY <1>1, <1>2, <1>3, <1>4, <1>5, <1>6, <1>7, <1>8, <1>9 DEF Next, Progress, Environment

\* FreshInv holds in every state.
LEMMA FreshAlways == Spec => []FreshInv
BY TypeAlways, FreshInit, FreshStep, PTL DEF Spec

-----------------------------------------------------------------------------
\* When no header is edited, a content that was read since t was at its
\* current version is t's current content.
LEMMA SinceNow ==
  ASSUME MaxHeaderEdits = 0, TypeInv, NEW t \in TUs, NEW c \in Contents,
         Since(c, t, src[t], opts)
  PROVE  c = Content(t)
<1>1. c.src \in Nat /\ src[t] \in Nat
  BY ContentNotIdle, VersionsPositive DEF TypeInv, FilesOK
<1>2. c.src = src[t] /\ c.opts = opts
  BY <1>1 DEF Since
<1>3. hdr = 1 /\ c.hdr = 1
  BY DEF TypeInv, FilesOK, Contents
<1>4. QED
  BY <1>2, <1>3 DEF Content, Contents

\* A finished run that no edit disturbed has merged, of each TU it did not give
\* up on, exactly what a parse of its current version gives, however many
\* worker shards were unreadable on the way (Analyzer.cpp:1341-1423).
ContributionsFresh ==
  Undisturbed => \A t \in Contributing : Entries(index)[t] = {Content(t)}

\* ContributionsFresh follows from the invariant.
LEMMA ContributionsFromInv ==
  ASSUME MaxHeaderEdits = 0, TypeInv, FreshInv
  PROVE  ContributionsFresh
<1> SUFFICES ASSUME Undisturbed, NEW t \in Contributing
             PROVE  Entries(index)[t] = {Content(t)}
  BY DEF ContributionsFresh
<1>1. t \in TUs /\ index[t] \in Seq(Contents) /\ index[t] # <<>> /\ stamp[t] = src[t]
  BY DEF Contributing, TypeInv, ResultsOK, Indexes, FreshInv, Contributed, Undisturbed
<1>2. 1 \in DOMAIN index[t] /\ \A i \in DOMAIN index[t] : index[t][i] \in Contents
  BY <1>1
<1>3. \A i \in DOMAIN index[t] : index[t][i] = Content(t)
  BY <1>1, <1>2, SinceNow DEF FreshInv, IndexSince
<1>4. Entries(index)[t] = {index[t][i] : i \in DOMAIN index[t]}
  BY <1>1 DEF Entries
<1>5. QED
  BY <1>2, <1>3, <1>4

\* Without header edits, and for any number of everything else, every finished
\* undisturbed run has merged exactly the current contents of the TUs it did
\* not give up on.
THEOREM ContributionsAreFresh ==
  ASSUME MaxHeaderEdits = 0
  PROVE  Spec => []ContributionsFresh
<1>1. TypeInv /\ FreshInv => ContributionsFresh
  BY ContributionsFromInv
<1>2. QED
  BY <1>1, TypeAlways, FreshAlways, PTL

-----------------------------------------------------------------------------
(* A TU the run gave up on has nothing in the index, as long as at most one  *)
(* shard is unreadable: with two, a TU merged from the first may be blamed   *)
(* for the second.                                                           *)
NoStrays ==
  /\ pc = "index" =>
       /\ \A t \in poisoned \cup todo : index[t] = <<>>
       /\ left.faults = MaxFaults => \A t \in Running : index[t] = <<>>
       /\ \A t \in Running : index[t] # <<>> => <<kPhaseIndex, t, parsing[t].src>> \notin fatal
  /\ pc \in {"analyze", "done"} => \A t \in poisoned : index[t] = <<>>

\* A parse that starts later than a parse that went well goes well too: deadly
\* parses are those of the first version.
LEMMA NotDeadlyLater ==
  ASSUME TypeInv, NEW t \in TUs, NEW c \in Contents, c.src <= src[t],
         NEW p \in Phases, <<p, t, c.src>> \notin fatal
  PROVE  <<p, t, src[t]>> \notin fatal
<1>1. c.src \in Nat \ {0} /\ src[t] \in Nat
  BY ContentNotIdle, VersionsPositive DEF TypeInv, FilesOK
<1>2. fatal \subseteq Phases \X TUs \X {1}
  BY DEF TypeInv, FilesOK
<1>3. CASE src[t] = 1
  BY <1>1, <1>3
<1>4. CASE src[t] # 1
  BY <1>2, <1>4
<1>5. QED
  BY <1>3, <1>4

\* Nothing is merged twice or from a TU given up on: the first state.
LEMMA StraysInit == Init => NoStrays
BY DEF Init, NoStrays

\* Every step keeps NoStrays.
LEMMA StraysStep ==
  ASSUME MaxFaults <= 1, TypeInv, FreshInv, NoStrays, [Next]_vars
  PROVE  NoStrays'
<1>0. /\ left.faults \in Nat /\ left.faults <= MaxFaults /\ MaxFaults \in Nat
      /\ left.faults > 0 => left.faults = MaxFaults
  BY BoundsAssumption DEF TypeInv, FilesOK, Budget
<1>1. ASSUME NEW o \in Options, NEW iso \in Modes, Open(o, iso) PROVE NoStrays'
  <2>1. pc' = "index" /\ Running' = {}
    BY <1>1 DEF Open, Running
  <2>2. \A t \in poisoned' \cup todo' : index'[t] = <<>>
    BY <1>1 DEF Open, SelectPhase1
  <2>3. QED
    BY <2>1, <2>2 DEF NoStrays
<1>2. CASE StartPhase2 \/ FinishRun
  <2>1. /\ index' = index /\ poisoned' = poisoned
        /\ (pc = "index" /\ pc' = "analyze") \/ (pc = "analyze" /\ pc' = "done")
    BY <1>2 DEF StartPhase2, FinishRun
  <2>2. QED
    BY <2>1 DEF NoStrays
<1>3. ASSUME NEW t \in TUs, StartTask(t) PROVE NoStrays'
  <2>1. /\ UNCHANGED <<pc, index, poisoned, left, fatal>>
        /\ todo' = todo \ {t} /\ t \in todo /\ t \notin Running
        /\ Running' = Running \cup {t} /\ \A u \in Running : parsing'[u] = parsing[u]
    <3>1. Running' = Running \cup {t} /\ t \notin Running
      BY <1>3, TypeStartTask
    <3>2. /\ UNCHANGED <<pc, index, poisoned, left, fatal>>
          /\ todo' = todo \ {t} /\ t \in todo
          /\ parsing' = [parsing EXCEPT ![t] = Content(t)]
      BY <1>3 DEF StartTask, fileVars
    <3>3. \A u \in Running : parsing'[u] = parsing[u]
      <4>1. DOMAIN parsing = TUs
        BY DEF TypeInv, TasksOK
      <4> QED BY <4>1, <3>1, <3>2 DEF Running
    <3> QED BY <3>1, <3>2, <3>3
  <2>2. QED
    BY <2>1 DEF NoStrays
<1>4. ASSUME NEW t \in TUs, FinishTask(t) PROVE NoStrays'
  <2>1. /\ UNCHANGED <<pc, poisoned, left, fatal, todo>>
        /\ t \in Running /\ t \notin todo /\ t \notin poisoned /\ Absorbed({t})
        /\ Running' = Running \ {t} /\ \A u \in Running' : parsing'[u] = parsing[u]
    BY <1>4, InFlight, TypeFinishTask DEF FinishTask, fileVars, Running, TypeInv, TasksOK
  <2>2. \A u \in TUs \ {t} : index'[u] = index[u]
    BY <2>1 DEF Absorbed
  <2>3. Running \subseteq TUs /\ poisoned \subseteq TUs /\ todo \subseteq TUs
    BY DEF Running, TypeInv, TasksOK
  <2>4. QED
    BY <2>1, <2>2, <2>3 DEF NoStrays
<1>5. ASSUME NEW t \in TUs, PoisonTask(t) PROVE NoStrays'
  <2>1. /\ UNCHANGED <<pc, index, fatal, todo>> /\ t \in Running
        /\ Running' = Running \ {t} /\ \A u \in Running' : parsing'[u] = parsing[u]
        /\ poisoned' = IF pc = "index" THEN poisoned \cup {t} ELSE poisoned
    BY <1>5, TypePoisonTask DEF PoisonTask, GiveUpOn, fileVars, Running, TypeInv, TasksOK
  <2>2. pc = "index" => index[t] = <<>>
    <3>1. CASE <<CurPhase, t, parsing[t].src>> \in fatal
      BY <2>1, <3>1 DEF NoStrays, CurPhase
    <3>2. CASE left.faults > 0
      BY <1>0, <2>1, <3>2 DEF NoStrays
    <3>3. QED
      BY <1>5, <3>1, <3>2 DEF PoisonTask
  <2>3. left'.faults = MaxFaults => left.faults = MaxFaults
    <3>1. CASE left' = left
      BY <3>1
    <3>2. CASE left.faults > 0
      BY <1>0, <3>2
    <3>3. QED
      BY <1>5, <3>1, <3>2 DEF PoisonTask
  <2>4. QED
    BY <2>1, <2>2, <2>3 DEF NoStrays
<1>6. ASSUME NEW a \in TUs, NEW u \in TUs, TornShard(a, u) PROVE NoStrays'
  <2>1. /\ UNCHANGED <<pc, fatal, todo>> /\ a \in Running /\ u \in Running /\ u # a
        /\ left.faults > 0 /\ left'.faults = left.faults - 1 /\ Absorbed({a})
        /\ <<CurPhase, a, parsing[a].src>> \notin fatal
        /\ parsing' = [parsing EXCEPT ![u] = Idle, ![a] = Content(a)]
        /\ poisoned' = IF pc = "index" THEN poisoned \cup {u} ELSE poisoned
        /\ Running' = Running \ {u}
    BY <1>6, TypeTornShard DEF TornShard, GiveUpOn, fileVars, TypeInv, FilesOK, Budget
  <2>2. \A v \in TUs \ {a} : index'[v] = index[v]
    BY <2>1 DEF Absorbed
  <2>3. /\ Running \subseteq TUs /\ poisoned \subseteq TUs /\ todo \subseteq TUs
        /\ a \notin todo /\ a \notin poisoned
    BY <2>1, InFlight DEF Running, TypeInv, TasksOK
  <2>4. left'.faults # MaxFaults /\ left.faults = MaxFaults
    BY <1>0, <2>1
  <2>5. CASE pc = "index"
    <3>1. \A v \in Running : index[v] = <<>>
      BY <2>4, <2>5 DEF NoStrays
    <3>2. \A v \in Running' : index'[v] # <<>> => v = a
      BY <2>1, <2>2, <2>3, <3>1
    <3>3. parsing'[a].src = src[a]
      BY <2>1 DEF TypeInv, TasksOK, Content
    <3>4. <<kPhaseIndex, a, src[a]>> \notin fatal
      <4>1. <<kPhaseIndex, a, parsing[a].src>> \notin fatal /\ parsing[a] \in Contents
        BY <2>1, <2>5, InFlight DEF CurPhase
      <4>2. parsing[a].src <= src[a]
        BY <2>1 DEF FreshInv, FlightSince, Since
      <4>3. QED
        BY <4>1, <4>2, NotDeadlyLater, TwoPhases
    <3>5. \A v \in poisoned' \cup todo' : index'[v] = <<>>
      BY <2>1, <2>2, <2>3, <2>5, <3>1 DEF NoStrays
    <3>6. \A v \in Running' : index'[v] # <<>> => <<kPhaseIndex, v, parsing'[v].src>> \notin fatal
      BY <3>2, <3>3, <3>4
    <3>7. pc' = "index" /\ fatal' = fatal
      BY <2>1, <2>5
    <3>8. QED
      BY <2>4, <3>5, <3>6, <3>7 DEF NoStrays
  <2>6. CASE pc # "index"
    <3>1. index' = index
      BY <2>6, <2>1 DEF Absorbed
    <3>2. QED
      BY <2>1, <2>6, <3>1 DEF NoStrays
  <2>7. QED
    BY <2>5, <2>6
<1>7. CASE Kill \/ \E t \in TUs : Die(t)
  <2>1. pc' = "down"
    BY <1>7 DEF Kill, Die, LoseMemory
  <2>2. QED
    BY <2>1 DEF NoStrays
<1>8. CASE EditHeader \/ (\E t \in TUs : EditSource(t)) \/ UNCHANGED vars
  <2>1. UNCHANGED <<pc, poisoned, todo, index, parsing, fatal, Running>>
    BY <1>8 DEF EditHeader, EditSource, vars, fileVars, Running
  <2>2. left'.faults = left.faults
    <3>1. left \in Budget
      BY DEF TypeInv, FilesOK
    <3>2. CASE UNCHANGED vars
      BY <3>2 DEF vars
    <3>3. CASE EditHeader
      BY <3>1, <3>3 DEF EditHeader, Budget
    <3>4. CASE \E t \in TUs : EditSource(t)
      BY <3>1, <3>4 DEF EditSource, Budget
    <3>5. QED
      BY <1>8, <3>2, <3>3, <3>4
  <2>3. QED
    BY <2>1, <2>2 DEF NoStrays
<1>9. QED
  BY <1>1, <1>2, <1>3, <1>4, <1>5, <1>6, <1>7, <1>8, TypeNewRun DEF Next, Progress, Environment

\* NoStrays holds in every state.
LEMMA StraysAlways ==
  ASSUME MaxFaults <= 1
  PROVE  Spec => []NoStrays
<1>1. TypeInv /\ FreshInv /\ NoStrays /\ [Next]_vars => NoStrays'
  BY StraysStep
<1>2. QED
  BY <1>1, StraysInit, TypeAlways, FreshAlways, PTL DEF Spec

\* IndexIsFresh follows from the invariants.
LEMMA IndexFromInv ==
  ASSUME MaxHeaderEdits = 0, TypeInv, FreshInv, NoStrays
  PROVE  IndexIsFresh
<1> SUFFICES ASSUME Undisturbed
             PROVE  Entries(index) = [t \in TUs |-> IF t \in Contributing THEN {Content(t)} ELSE {}]
  BY DEF IndexIsFresh
<1>1. \A t \in Contributing : Entries(index)[t] = {Content(t)}
  BY ContributionsFromInv DEF ContributionsFresh
<1>2. ASSUME NEW t \in TUs \ Contributing PROVE Entries(index)[t] = {}
  <2>1. index[t] = <<>>
    BY DEF Contributing, NoStrays, Undisturbed
  <2>2. QED
    BY <2>1 DEF Entries
<1>3. Entries(index) = [t \in TUs |-> Entries(index)[t]]
  BY DEF Entries
<1>4. QED
  BY <1>1, <1>2, <1>3, Zenon

\* A finished run that no edit disturbed has merged exactly what a fresh run
\* over the same TUs would have merged, for every set of TUs and options and
\* any number of edits, kills, deaths, cut appends and reruns, when no header
\* is edited and at most one worker shard is unreadable.
THEOREM IndexCorrect ==
  ASSUME MaxHeaderEdits = 0, MaxFaults <= 1
  PROVE  Spec => []IndexIsFresh
<1>1. TypeInv /\ FreshInv /\ NoStrays => IndexIsFresh
  BY IndexFromInv
<1>2. QED
  BY <1>1, TypeAlways, FreshAlways, StraysAlways, PTL

-----------------------------------------------------------------------------
(* Phase 2: the index that a record's diagnostics were made from is the one  *)
(* its hash stands for.                                                      *)

\* ix holds parses of the TUs of the stamp set h, each begun since its stamp,
\* and of no other TU.
Matches(ix, h, o) ==
  \A u \in TUs :
    /\ \A v \in Versions : <<u, v>> \in h =>
         ix[u] # <<>> /\ \A i \in DOMAIN ix[u] : Since(ix[u][i], u, v, o)
    /\ (\A v \in Versions : <<u, v>> \notin h) => ix[u] = <<>>

\* The diagnostics in the journal are those of a stamp and an index that were current.
Record2Since ==
  \A t \in TUs : LET r == journal.done[kPhaseAnalyze][t]
                 IN r # NoRecord => /\ Since(r.payload[1], t, r.stamp, journal.fingerprint)
                                    /\ Matches(r.payload[2], r.hash, journal.fingerprint)

\* So are the diagnostics of the run.
OutSince ==
  \A t \in TUs : out[t] # NoDiags => /\ pc \in {"analyze", "done"}
                                     /\ Since(out[t][1], t, stamp[t], opts)
                                     /\ Matches(out[t][2], SetHash, opts)

\* The invariant of phase 2.
DiagInv == Record2Since /\ OutSince

\* The stamps that the hash of the contributing set covers.
LEMMA InSetHash ==
  ASSUME TypeInv
  PROVE  \A u \in TUs, v \in Versions :
           <<u, v>> \in SetHash <=> u \in Contributing /\ v = stamp[u]
BY DEF SetHash, Contributing, TypeInv, RunOK

\* After phase 1 the merged index matches the hash of the contributing set.
LEMMA IndexMatches ==
  ASSUME TypeInv, FreshInv, NoStrays, pc \in {"analyze", "done"}
  PROVE  Matches(index, SetHash, opts)
<1> SUFFICES ASSUME NEW u \in TUs
             PROVE  /\ \A v \in Versions : <<u, v>> \in SetHash =>
                         /\ index[u] # <<>>
                         /\ \A i \in DOMAIN index[u] : Since(index[u][i], u, v, opts)
                    /\ (\A v \in Versions : <<u, v>> \notin SetHash) => index[u] = <<>>
  BY DEF Matches
<1>1. CASE u \in Contributing
  <2>1. index[u] # <<>> /\ \A i \in DOMAIN index[u] : Since(index[u][i], u, stamp[u], opts)
    BY <1>1 DEF FreshInv, IndexSince, Contributed
  <2>2. stamp[u] \in Versions /\ <<u, stamp[u]>> \in SetHash
    BY <1>1, InSetHash DEF TypeInv, RunOK
  <2>3. QED
    BY <2>1, <2>2, InSetHash
<1>2. CASE u \in poisoned
  <2>1. index[u] = <<>>
    BY <1>2 DEF NoStrays
  <2>2. \A v \in Versions : <<u, v>> \notin SetHash
    BY <1>2, InSetHash DEF Contributing
  <2>3. QED
    BY <2>1, <2>2
<1>3. QED
  BY <1>1, <1>2 DEF Contributing

\* Versions only grow: an index that matched a stamp set still does.
LEMMA MatchesKept ==
  ASSUME TypeInv, \A u \in TUs : src[u] <= src'[u] /\ src'[u] \in Nat,
         NEW ix \in Indexes, NEW h, NEW o, Matches(ix, h, o)
  PROVE  Matches(ix, h, o)'
<1>1. \A u \in TUs : \A i \in DOMAIN ix[u] : ix[u][i] \in Contents
  BY DEF Indexes
<1>2. \A u \in TUs : \A i \in DOMAIN ix[u] : \A v :
        Since(ix[u][i], u, v, o) => Since(ix[u][i], u, v, o)'
  BY <1>1, SinceKept
<1>3. QED
  BY <1>2 DEF Matches

\* A record of phase 2 and its payload.
LEMMA Record2Type ==
  ASSUME NEW j, IsJournal(j), NEW t \in TUs, j.done[kPhaseAnalyze][t] # NoRecord
  PROVE  /\ j.done[kPhaseAnalyze][t].payload[1] \in Contents
         /\ j.done[kPhaseAnalyze][t].payload[2] \in Indexes
         /\ j.done[kPhaseAnalyze][t].stamp \in Versions
<1>1. j.done[kPhaseAnalyze][t] \in Records2
  BY DEF IsJournal, Done2
<1>2. QED
  BY <1>1 DEF Records2

\* Journals with the same records, over files that only grew.
LEMMA Records2Kept ==
  ASSUME TypeInv, Record2Since, \A u \in TUs : src[u] <= src'[u] /\ src'[u] \in Nat,
         \A t \in TUs : journal'.done[kPhaseAnalyze][t] = journal.done[kPhaseAnalyze][t],
         journal'.fingerprint = journal.fingerprint
  PROVE  Record2Since'
<1> SUFFICES ASSUME NEW t \in TUs, journal'.done[kPhaseAnalyze][t] # NoRecord
             PROVE  /\ Since(journal.done[kPhaseAnalyze][t].payload[1], t,
                             journal.done[kPhaseAnalyze][t].stamp, journal.fingerprint)'
                    /\ Matches(journal.done[kPhaseAnalyze][t].payload[2],
                               journal.done[kPhaseAnalyze][t].hash, journal.fingerprint)'
  BY DEF Record2Since
<1> DEFINE r == journal.done[kPhaseAnalyze][t]
<1>1. r # NoRecord /\ r' = r
  OBVIOUS
<1>2. r.payload[1] \in Contents /\ r.payload[2] \in Indexes
  BY <1>1, Record2Type DEF TypeInv
<1>3. /\ Since(r.payload[1], t, r.stamp, journal.fingerprint)
      /\ Matches(r.payload[2], r.hash, journal.fingerprint)
  BY <1>1 DEF Record2Since
<1> HIDE DEF r
<1>4. ASSUME NEW c, NEW ix, NEW s, NEW h, NEW o, c = r.payload[1], ix = r.payload[2],
             s = r.stamp, h = r.hash, o = journal.fingerprint
      PROVE  Since(c, t, s, o)' /\ Matches(ix, h, o)'
  BY <1>2, <1>3, <1>4, SinceKept, MatchesKept
<1>5. /\ Since(r.payload[1], t, r.stamp, journal.fingerprint)'
      /\ Matches(r.payload[2], r.hash, journal.fingerprint)'
  <2>1. Since(r.payload[1], t, r.stamp, journal.fingerprint)'
    BY <1>1, <1>4 DEF Since
  <2>2. Matches(r.payload[2], r.hash, journal.fingerprint)'
    BY <1>1, <1>4 DEF Since, Matches
  <2> QED BY <2>1, <2>2
<1>6. QED
  BY <1>5 DEF r

\* The same diagnostics, over files that only grew.
LEMMA OutKept ==
  ASSUME TypeInv, OutSince, \A u \in TUs : src[u] <= src'[u] /\ src'[u] \in Nat,
         stamp' = stamp, opts' = opts, poisoned' = poisoned,
         NEW t \in TUs, out'[t] = out[t], out[t] # NoDiags
  PROVE  /\ Since(out[t][1], t, stamp[t], opts)'
         /\ Matches(out[t][2], SetHash, opts)'
<1>1. out[t] \in Contents \X Indexes
  BY DEF TypeInv, ResultsOK
<1>2. /\ out[t][1] \in Contents /\ out[t][2] \in Indexes
      /\ Since(out[t][1], t, stamp[t], opts) /\ Matches(out[t][2], SetHash, opts)
  BY <1>1 DEF OutSince
<1>3. SetHash' = SetHash
  BY DEF SetHash, Contributing
<1>4. ASSUME NEW c, NEW ix, NEW s, NEW h, NEW o, c = out[t][1], ix = out[t][2],
             s = stamp[t], h = SetHash, o = opts
      PROVE  Since(c, t, s, o)' /\ Matches(ix, h, o)'
  BY <1>2, <1>4, SinceKept, MatchesKept
<1>5. QED
  BY <1>3, <1>4 DEF Since, Matches

\* Before phase 2 there are no diagnostics.
LEMMA NoOutBeforePhase2 ==
  ASSUME OutSince, pc \notin {"analyze", "done"}
  PROVE  \A t \in TUs : out[t] = NoDiags
BY DEF OutSince

\* Files that are as they were have not shrunk.
LEMMA FilesSame ==
  ASSUME TypeInv, src' = src
  PROVE  \A u \in TUs : src[u] <= src'[u] /\ src'[u] \in Nat
<1>1. \A u \in TUs : src[u] \in Nat
  BY VersionsPositive DEF TypeInv, FilesOK
<1>2. QED
  BY <1>1

\* A completed analysis holds the index that its hash stands for.
LEMMA DiagCompletion ==
  ASSUME TypeInv, FreshInv, NoStrays, DiagInv, NEW a \in Running,
         journal' = JournaledAfterParse(a), Absorbed({a}),
         src' = src, pc' = pc, opts' = opts, stamp' = stamp,
         pc = "analyze" => poisoned' = poisoned
  PROVE  DiagInv'
<1>1. /\ a \in TUs /\ pc \in {"index", "analyze"} /\ journal.fingerprint = opts
      /\ Since(parsing[a], a, stamp[a], opts)
  BY InFlightSince
<1>2. \A u \in TUs : src[u] <= src'[u] /\ src'[u] \in Nat
  BY FilesSame
<1>3. /\ journal'.fingerprint = journal.fingerprint
      /\ \A t \in TUs : journal'.done[kPhaseAnalyze][t] =
           IF ~journal.torn /\ pc = "analyze" /\ t = a
           THEN [stamp |-> stamp[a], hash |-> SetHash, payload |-> <<parsing[a], index>>]
           ELSE journal.done[kPhaseAnalyze][t]
  <2>1. /\ journal'.fingerprint = journal.fingerprint
        /\ \A q \in Phases, u \in TUs :
             journal'.done[q][u] = IF ~journal.torn /\ q = CurPhase /\ u = a
                                   THEN [stamp |-> stamp[a], hash |-> PhaseHash,
                                         payload |-> Result(a)]
                                   ELSE journal.done[q][u]
    BY CompletionJournaled
  <2>2. /\ kPhaseAnalyze \in Phases /\ (kPhaseAnalyze = CurPhase <=> pc = "analyze")
        /\ pc = "analyze" => Result(a) = <<parsing[a], index>> /\ PhaseHash = SetHash
    BY <1>1, TwoPhases DEF CurPhase, Result, PhaseHash
  <2> QED BY <2>1, <2>2
<1>4. CASE pc = "index"
  <2>1. Record2Since'
    BY <1>2, <1>3, <1>4, Records2Kept DEF DiagInv
  <2>2. \A t \in TUs : out'[t] = NoDiags
    BY <1>4, NoOutBeforePhase2 DEF DiagInv, Absorbed
  <2>3. QED
    BY <2>1, <2>2 DEF DiagInv, OutSince
<1>5. CASE pc = "analyze"
  <2>1. Matches(index, SetHash, opts)
    BY <1>5, IndexMatches
  <2>2. index' = index /\ poisoned' = poisoned /\ SetHash' = SetHash
    BY <1>5 DEF Absorbed, SetHash, Contributing
  <2>3. ASSUME NEW t \in TUs, journal'.done[kPhaseAnalyze][t] # NoRecord
        PROVE  /\ Since(journal.done[kPhaseAnalyze][t].payload[1], t,
                        journal.done[kPhaseAnalyze][t].stamp, journal.fingerprint)'
               /\ Matches(journal.done[kPhaseAnalyze][t].payload[2],
                          journal.done[kPhaseAnalyze][t].hash, journal.fingerprint)'
    <3>1. CASE journal'.done[kPhaseAnalyze][t] = journal.done[kPhaseAnalyze][t]
      <4>1. /\ Since(journal.done[kPhaseAnalyze][t].payload[1], t,
                     journal.done[kPhaseAnalyze][t].stamp, journal.fingerprint)
            /\ Matches(journal.done[kPhaseAnalyze][t].payload[2],
                       journal.done[kPhaseAnalyze][t].hash, journal.fingerprint)
        BY <2>3, <3>1 DEF DiagInv, Record2Since
      <4>2. Since(journal.done[kPhaseAnalyze][t].payload[1], t,
                  journal.done[kPhaseAnalyze][t].stamp, journal.fingerprint)'
        BY <1>3, <3>1, <4>1 DEF Since
      <4>3. Matches(journal.done[kPhaseAnalyze][t].payload[2],
                    journal.done[kPhaseAnalyze][t].hash, journal.fingerprint)'
        <5>1. ASSUME NEW ix, NEW h, NEW o, Matches(ix, h, o)
              PROVE  Matches(ix, h, o)'
          BY <5>1 DEF Since, Matches
        <5>2. PICK ix, h, o : /\ ix = journal.done[kPhaseAnalyze][t].payload[2]
                              /\ h = journal.done[kPhaseAnalyze][t].hash
                              /\ o = journal.fingerprint /\ o = journal'.fingerprint
                              /\ ix = journal'.done[kPhaseAnalyze][t].payload[2]
                              /\ h = journal'.done[kPhaseAnalyze][t].hash
          BY <1>3, <3>1
        <5>3. Matches(ix, h, o)'
          BY <4>1, <5>1, <5>2
        <5> QED BY <5>2, <5>3 DEF Matches, Since
      <4> QED BY <4>2, <4>3
    <3>2. CASE /\ t = a
               /\ journal'.done[kPhaseAnalyze][t] =
                    [stamp |-> stamp[a], hash |-> SetHash, payload |-> <<parsing[a], index>>]
      <4>1. /\ journal'.done[kPhaseAnalyze][t].stamp = stamp[a]
            /\ journal'.done[kPhaseAnalyze][t].hash = SetHash
            /\ journal'.done[kPhaseAnalyze][t].payload[1] = parsing[a]
            /\ journal'.done[kPhaseAnalyze][t].payload[2] = index
        BY <3>2
      <4>2. QED
        BY <1>1, <1>3, <2>1, <3>2, <4>1 DEF Since, Matches
    <3>3. QED
      BY <1>3, <3>1, <3>2
  <2>4. ASSUME NEW t \in TUs, out'[t] # NoDiags
        PROVE  /\ Since(out[t][1], t, stamp[t], opts)'
               /\ Matches(out[t][2], SetHash, opts)'
    <3>1. CASE t # a
      <4>1. out'[t] = out[t]
        BY <1>5, <3>1 DEF Absorbed
      <4>2. QED
        BY <1>2, <2>2, <2>4, <4>1, OutKept DEF DiagInv
    <3>2. CASE t = a
      <4>1. out'[t][1] = parsing[a] /\ out'[t][2] = index
        BY <1>1, <1>5, <3>2 DEF Absorbed
      <4>2. QED
        BY <1>1, <2>1, <2>2, <3>2, <4>1 DEF Since, Matches
    <3>3. QED
      BY <3>1, <3>2
  <2>5. QED
    BY <1>5, <2>3, <2>4 DEF DiagInv, Record2Since, OutSince
<1>6. QED
  BY <1>1, <1>4, <1>5

\* Phase 2 replays what was made from the same index.
LEMMA DiagStartPhase2 ==
  ASSUME TypeInv, DiagInv, StartPhase2
  PROVE  DiagInv'
<1> DEFINE replay == {t \in TUs \ poisoned : Replays2(journal, t, stamp[t], SetHash)}
<1>1. /\ UNCHANGED <<src, opts, stamp, journal, poisoned>> /\ pc = "index" /\ pc' = "analyze"
      /\ out' = [t \in TUs |-> IF t \in replay
                               THEN journal.done[kPhaseAnalyze][t].payload ELSE NoDiags]
  BY DEF StartPhase2, fileVars
<1>2. journal.fingerprint = opts /\ SetHash' = SetHash
  BY <1>1 DEF TypeInv, RunOK, SetHash, Contributing
<1>3. Record2Since'
  BY <1>1, FilesSame, Records2Kept DEF DiagInv
<1>4. ASSUME NEW t \in TUs, out'[t] # NoDiags
      PROVE  /\ Since(out[t][1], t, stamp[t], opts)'
             /\ Matches(out[t][2], SetHash, opts)'
  <2>1. t \in replay /\ out'[t] = journal.done[kPhaseAnalyze][t].payload
    BY <1>1, <1>4
  <2>2. /\ journal.done[kPhaseAnalyze][t].stamp = stamp[t]
        /\ journal.done[kPhaseAnalyze][t].hash = SetHash
        /\ journal.done[kPhaseAnalyze][t] # NoRecord
    BY <2>1, Replayed2 DEF Replays2
  <2>3. /\ Since(out'[t][1], t, stamp[t], opts) /\ Matches(out'[t][2], SetHash, opts)
    BY <1>2, <2>1, <2>2 DEF DiagInv, Record2Since
  <2>4. QED
    BY <1>1, <1>2, <2>3 DEF Since, Matches
<1>5. QED
  BY <1>1, <1>3, <1>4 DEF DiagInv, OutSince

\* The first state has no records and no diagnostics.
LEMMA DiagInit == Init => DiagInv
<1> SUFFICES ASSUME Init PROVE DiagInv
  OBVIOUS
<1>1. \A t \in TUs : journal.done[kPhaseAnalyze][t] = NoRecord /\ out[t] = NoDiags
  BY TwoPhases, FreshIsJournal DEF Init, SomeOptions
<1>2. QED
  BY <1>1 DEF DiagInv, Record2Since, OutSince

\* Every step keeps DiagInv.
LEMMA DiagStep ==
  ASSUME TypeInv, FreshInv, NoStrays, DiagInv, [Next]_vars
  PROVE  DiagInv'
<1>1. ASSUME NEW o \in Options, NEW iso \in Modes, Open(o, iso) PROVE DiagInv'
  <2>1. src' = src /\ journal' = Reopened(journal, o) /\ \A t \in TUs : out'[t] = NoDiags
    BY <1>1 DEF Open, fileVars
  <2>2. CASE journal' = journal
    BY <2>1, <2>2, FilesSame, Records2Kept DEF DiagInv, OutSince
  <2>3. CASE journal' = Fresh(o)
    <3>1. \A t \in TUs : Fresh(o).done[kPhaseAnalyze][t] = NoRecord
      BY FreshIsJournal, TwoPhases DEF SomeOptions
    <3>2. QED
      BY <2>1, <2>3, <3>1 DEF DiagInv, Record2Since, OutSince
  <2>4. QED
    BY <2>1, <2>2, <2>3, ReopenedIsJournal DEF TypeInv
<1>2. CASE StartPhase2
  BY <1>2, DiagStartPhase2
<1>3. ASSUME NEW t \in TUs, FinishTask(t) PROVE DiagInv'
  BY <1>3, DiagCompletion DEF FinishTask, fileVars, runVars
<1>4. ASSUME NEW a \in TUs, NEW u \in TUs, TornShard(a, u) PROVE DiagInv'
  <2>1. pc = "analyze" => poisoned' = poisoned
    BY <1>4 DEF TornShard, GiveUpOn
  <2>2. QED
    BY <1>4, <2>1, DiagCompletion DEF TornShard, fileVars, runVars
<1>5. ASSUME NEW t \in TUs, PoisonTask(t) PROVE DiagInv'
  <2>1. /\ UNCHANGED <<src, journal, pc, opts, stamp, out>>
        /\ pc = "index" \/ poisoned' = poisoned
    BY <1>5 DEF PoisonTask, GiveUpOn, fileVars, runVars
  <2>2. Record2Since'
    BY <2>1, FilesSame, Records2Kept DEF DiagInv
  <2>3. CASE pc = "index"
    BY <2>1, <2>2, <2>3, NoOutBeforePhase2 DEF DiagInv, OutSince
  <2>4. CASE poisoned' = poisoned
    <3>1. OutSince'
      BY <2>1, <2>4, FilesSame, OutKept DEF DiagInv, OutSince
    <3>2. QED
      BY <2>2, <3>1 DEF DiagInv
  <2>5. QED
    BY <2>1, <2>3, <2>4
<1>6. ASSUME NEW t \in TUs, StartTask(t) PROVE DiagInv'
  <2>1. UNCHANGED <<src, pc, opts, stamp, out, poisoned>>
    BY <1>6 DEF StartTask, fileVars, runVars
  <2>2. journal'.done = journal.done /\ journal'.fingerprint = journal.fingerprint
    <3>1. stamp[t] \in Nat /\ IsJournal(journal) /\ CurPhase \in Phases
      BY VersionsPositive, TwoPhases DEF TypeInv, RunOK
    <3>2. LET r == RecordAttempt(journal, CurPhase, t, stamp[t])
          IN r.done = journal.done /\ r.fingerprint = journal.fingerprint
      BY <3>1, AttemptRecorded
    <3>3. QED
      BY <1>6, <3>1, <3>2 DEF StartTask, JournaledBeforeParse
  <2>3. Record2Since'
    BY <2>1, <2>2, FilesSame, Records2Kept DEF DiagInv
  <2>4. OutSince'
    BY <2>1, FilesSame, OutKept DEF DiagInv, OutSince
  <2>5. QED
    BY <2>3, <2>4 DEF DiagInv
<1>7. CASE Kill \/ \E t \in TUs : Die(t)
  <2>1. src' = src /\ \A t \in TUs : out'[t] = NoDiags
    BY <1>7 DEF Kill, Die, LoseMemory, fileVars
  <2>2. journal'.done = journal.done /\ journal'.fingerprint = journal.fingerprint
    BY <1>7, TypeKill, TypeDie
  <2>3. QED
    BY <2>1, <2>2, FilesSame, Records2Kept DEF DiagInv, OutSince
<1>8. CASE FinishRun \/ EditHeader \/ (\E t \in TUs : EditSource(t)) \/ UNCHANGED vars
  <2>1. /\ UNCHANGED <<journal, opts, stamp, out, poisoned>>
        /\ pc \in {"analyze", "done"} => pc' \in {"analyze", "done"}
    BY <1>8 DEF FinishRun, EditHeader, EditSource, vars, runVars
  <2>2. \A u \in TUs : src[u] <= src'[u] /\ src'[u] \in Nat
    <3>1. CASE \E t \in TUs : EditSource(t)
      <4>1. TypeInv' /\ \A u \in TUs : src[u] <= src'[u]
        BY <3>1, TypeEditSource
      <4>2. QED
        BY <4>1, VersionsPositive DEF TypeInv, FilesOK
    <3>2. CASE FinishRun \/ EditHeader \/ UNCHANGED vars
      <4>1. src' = src
        BY <3>2 DEF FinishRun, EditHeader, vars, fileVars
      <4>2. QED
        BY <4>1, FilesSame
    <3>3. QED
      BY <1>8, <3>1, <3>2
  <2>3. Record2Since'
    BY <2>1, <2>2, Records2Kept DEF DiagInv
  <2>4. OutSince'
    BY <2>1, <2>2, OutKept DEF DiagInv, OutSince
  <2>5. QED
    BY <2>3, <2>4 DEF DiagInv
<1>9. QED
  BY <1>1, <1>2, <1>3, <1>4, <1>5, <1>6, <1>7, <1>8, TypeNewRun DEF Next, Progress, Environment

\* DiagnosticsAreFresh follows from the invariants.
LEMMA DiagnosticsFromInv ==
  ASSUME MaxHeaderEdits = 0, TypeInv, FreshInv, NoStrays, DiagInv
  PROVE  DiagnosticsAreFresh
<1> SUFFICES ASSUME Undisturbed, NEW t \in TUs, out[t] # NoDiags
             PROVE  out[t][1] = Content(t) /\ Entries(out[t][2]) = Entries(index)
  BY DEF DiagnosticsAreFresh
<1>1. stamp = src /\ pc = "done"
  BY DEF Undisturbed
<1>2. /\ out[t][1] \in Contents /\ out[t][2] \in Indexes
      /\ Since(out[t][1], t, src[t], opts) /\ Matches(out[t][2], SetHash, opts)
  <2>1. out[t] \in Contents \X Indexes
    BY DEF TypeInv, ResultsOK
  <2>2. QED
    BY <1>1, <2>1 DEF DiagInv, OutSince
<1>3. out[t][1] = Content(t)
  BY <1>2, SinceNow
<1>4. ASSUME NEW ix \in Indexes, Matches(ix, SetHash, opts), NEW u \in TUs
      PROVE  Entries(ix)[u] = IF u \in Contributing THEN {Content(u)} ELSE {}
  <2>1. Entries(ix)[u] = {ix[u][i] : i \in DOMAIN ix[u]} /\ ix[u] \in Seq(Contents)
    BY DEF Entries, Indexes
  <2>2. CASE u \in Contributing
    <3>1. src[u] \in Versions /\ <<u, src[u]>> \in SetHash
      BY <1>1, <2>2, InSetHash DEF TypeInv, FilesOK
    <3>2. ix[u] # <<>> /\ \A i \in DOMAIN ix[u] : Since(ix[u][i], u, src[u], opts)
      BY <1>4, <3>1 DEF Matches
    <3>3. 1 \in DOMAIN ix[u] /\ \A i \in DOMAIN ix[u] : ix[u][i] \in Contents
      BY <2>1, <3>2
    <3>4. \A i \in DOMAIN ix[u] : ix[u][i] = Content(u)
      BY <3>2, <3>3, SinceNow
    <3>5. QED
      BY <2>1, <2>2, <3>3, <3>4
  <2>3. CASE u \notin Contributing
    <3>1. \A v \in Versions : <<u, v>> \notin SetHash
      BY <2>3, InSetHash
    <3>2. ix[u] = <<>>
      BY <1>4, <3>1 DEF Matches
    <3>3. QED
      BY <2>1, <2>3, <3>2
  <2>4. QED
    BY <2>2, <2>3
<1>5. index \in Indexes /\ Matches(index, SetHash, opts)
  BY <1>1, IndexMatches DEF TypeInv, ResultsOK
<1>6. \A u \in TUs : Entries(out[t][2])[u] = Entries(index)[u]
  BY <1>2, <1>4, <1>5
<1>7. QED
  BY <1>3, <1>6 DEF Entries

\* The diagnostics of a finished, undisturbed run are those of the current
\* sources and of the index a fresh run would merge, whatever records phase 2
\* replayed: any number of edits, kills, deaths, cut appends and reruns, no
\* header edits, at most one unreadable shard.
THEOREM DiagnosticsCorrect ==
  ASSUME MaxHeaderEdits = 0, MaxFaults <= 1
  PROVE  Spec => []DiagnosticsAreFresh
<1>1. TypeInv /\ FreshInv /\ NoStrays /\ DiagInv => DiagnosticsAreFresh
  BY DiagnosticsFromInv
<1>2. TypeInv /\ FreshInv /\ NoStrays /\ DiagInv /\ [Next]_vars => DiagInv'
  BY DiagStep
<1>3. QED
  BY <1>1, <1>2, DiagInit, TypeAlways, FreshAlways, StraysAlways, PTL DEF Spec

-----------------------------------------------------------------------------
(* Which TUs are left out, how often a deadly parse can kill a run, and that *)
(* finished work is not done again.                                          *)

\* A parse in flight whose attempt record is on disk.
Attempted(p, t) == t \in Running /\ ~isolate /\ p = CurPhase

\* The attempts counted for the TU's current stamp are runs that ended, or may
\* end, with its parse in flight; after a torn tail the count is frozen, below
\* the limit if the TU has completed since.
AttemptsWereCut ==
  \A p \in Phases, t \in TUs :
    /\ journal.attempts[p][t].stamp <= stamp[t]
    /\ journal.attempts[p][t].stamp = stamp[t] =>
         \/ journal.attempts[p][t].count <= cut[p][t] + (IF Attempted(p, t) THEN 1 ELSE 0)
         \/ journal.torn /\ journal.attempts[p][t].count < kMaxAttempts

\* With a torn journal no record is read any more: what is queued or in flight
\* was below the limit when it was selected, and stays so.
FrozenBelowLimit ==
  pc \in {"index", "analyze"} /\ journal.torn =>
    \A t \in todo \cup Running : ~Poisoned(journal, CurPhase, t, stamp[t])

\* A TU that has been left out is suspect already.
OnlySuspectsOut ==
  /\ \A t \in poisoned : Suspect(kPhaseIndex, t)
  /\ pc \in {"analyze", "done"} =>
       \A t \in TUs \ (poisoned \cup todo \cup Running) :
         out[t] = NoDiags => Suspect(kPhaseAnalyze, t)

\* The invariant of what is left out.
SuspectInv == AttemptsWereCut /\ FrozenBelowLimit /\ OnlySuspectsOut

\* The attempt counters of a journal.
LEMMA MarkType ==
  ASSUME NEW j, IsJournal(j), NEW p \in Phases, NEW t \in TUs
  PROVE  j.attempts[p][t].stamp \in Nat /\ j.attempts[p][t].count \in Nat
BY DEF IsJournal, Marks

\* A TU is skipped for the attempts at this very stamp.
LEMMA PoisonedMeans ==
  ASSUME NEW j, NEW p, NEW t, NEW s
  PROVE  Poisoned(j, p, t, s) <=> /\ j.attempts[p][t].stamp = s
                                  /\ j.attempts[p][t].count >= kMaxAttempts
BY DEF Poisoned, Attempts, kMaxAttempts

\* Stamps are positive natural numbers, and counters natural numbers.
LEMMA StampType ==
  ASSUME TypeInv
  PROVE  /\ \A t \in TUs : /\ stamp[t] \in Nat /\ stamp[t] # 0 /\ src[t] \in Nat
                           /\ stamp[t] <= src[t]
         /\ \A p \in Phases, t \in TUs : cut[p][t] \in Nat /\ deaths[p][t] \in Nat
<1>1. \A t \in TUs : stamp[t] \in Versions /\ src[t] \in Versions /\ stamp[t] <= src[t]
  BY DEF TypeInv, FilesOK, RunOK
<1>2. \A v \in Versions : v \in Nat /\ v # 0
  BY VersionsPositive
<1>3. \A p \in Phases, t \in TUs : cut[p][t] \in Nat /\ deaths[p][t] \in Nat
  BY BoundsAssumption DEF TypeInv, HistoryOK
<1>4. QED
  BY <1>1, <1>2, <1>3

\* The first state counts nothing.
LEMMA SuspectInit == Init => SuspectInv
<1> SUFFICES ASSUME Init PROVE SuspectInv
  OBVIOUS
<1>1. \A p \in Phases, t \in TUs : journal.attempts[p][t] = NoAttempt
  BY FreshIsJournal DEF Init, SomeOptions
<1>2. \A t \in TUs : stamp[t] = 1
  BY DEF Init
<1>3. QED
  BY <1>1, <1>2 DEF Init, SuspectInv, AttemptsWereCut, FrozenBelowLimit, OnlySuspectsOut,
     NoAttempt, NoStamp

\* What the counters of a reopened journal say of the versions seen now.
LEMMA ReopenedAttempts ==
  ASSUME TypeInv, NEW o \in Options, NEW iso \in Modes, Open(o, iso)
  PROVE  \A p \in Phases, t \in TUs :
           \/ journal'.attempts[p][t].stamp = 0
           \/ /\ journal' = journal /\ journal.fingerprint = o
              /\ cut'[p][t] = IF stamp[t] = src[t] THEN cut[p][t] ELSE 0
              /\ deaths'[p][t] = IF stamp[t] = src[t] THEN deaths[p][t] ELSE 0
<1>1. IsJournal(journal) /\ journal' = Reopened(journal, o)
  BY DEF TypeInv, Open
<1>2. CASE journal.fingerprint = o
  BY <1>1, <1>2 DEF Reopened, Open, Forget, Recount, StampFiles
<1>3. CASE journal.fingerprint # o
  BY <1>1, <1>3, FreshIsJournal DEF Reopened, SomeOptions, NoAttempt, NoStamp
<1>4. QED
  BY <1>2, <1>3

\* Opening the journal: a TU is skipped only if enough runs were cut short.
LEMMA SuspectOpen ==
  ASSUME TypeInv, SuspectInv, NEW o \in Options, NEW iso \in Modes, Open(o, iso),
         pc \in {"down", "done"}, TypeInv'
  PROVE  SuspectInv'
<1>1. /\ pc' = "index" /\ stamp' = src /\ Running' = {} /\ Running = {}
      /\ journal' = Reopened(journal, o)
  BY DEF Open, Running, StampFiles, TypeInv, TasksOK
<1>11. \A p \in Phases, t \in TUs : cut'[p][t] \in Nat
  BY DEF TypeInv, HistoryOK
<1>2. AttemptsWereCut'
  <2> SUFFICES ASSUME NEW p \in Phases, NEW t \in TUs
               PROVE  /\ journal'.attempts[p][t].stamp <= src[t]
                      /\ journal'.attempts[p][t].stamp = src[t] =>
                           \/ journal'.attempts[p][t].count <= cut'[p][t]
                           \/ journal'.torn /\ journal'.attempts[p][t].count < kMaxAttempts
    BY <1>1, <1>11 DEF AttemptsWereCut, Attempted
  <2>1. src[t] \in Nat /\ stamp[t] \in Nat /\ stamp[t] # 0 /\ stamp[t] <= src[t]
    BY StampType
  <2>2. CASE journal'.attempts[p][t].stamp = 0
    BY <2>1, <2>2
  <2>3. CASE /\ journal' = journal
             /\ cut'[p][t] = IF stamp[t] = src[t] THEN cut[p][t] ELSE 0
    <3>1. /\ journal.attempts[p][t].stamp <= stamp[t]
          /\ journal.attempts[p][t].stamp = stamp[t] =>
               \/ journal.attempts[p][t].count <= cut[p][t]
               \/ journal.torn /\ journal.attempts[p][t].count < kMaxAttempts
      BY <1>1, StampType DEF SuspectInv, AttemptsWereCut, Attempted
    <3>2. journal.attempts[p][t].stamp \in Nat
      BY MarkType DEF TypeInv
    <3>3. QED
      BY <2>1, <2>3, <3>1, <3>2
  <2>4. QED
    BY <2>2, <2>3, ReopenedAttempts
<1>3. FrozenBelowLimit'
  <2>1. \A t \in todo' : ~Poisoned(journal', kPhaseIndex, t, src[t])
    BY <1>1 DEF Open, SelectPhase1, StampFiles
  <2>2. QED
    BY <1>1, <2>1 DEF FrozenBelowLimit, CurPhase, Poisoned, Attempts
<1>4. OnlySuspectsOut'
  <2>1. \A t \in poisoned' : t \in TUs /\ Poisoned(journal', kPhaseIndex, t, src[t])
    BY <1>1 DEF Open, SelectPhase1, StampFiles
  <2>2. ASSUME NEW t \in poisoned' PROVE Suspect(kPhaseIndex, t)'
    <3>1. /\ t \in TUs /\ journal'.attempts[kPhaseIndex][t].stamp = src[t]
          /\ journal'.attempts[kPhaseIndex][t].count >= kMaxAttempts
      BY <2>1, PoisonedMeans
    <3>2. /\ journal'.attempts[kPhaseIndex][t].count \in Nat
          /\ cut'[kPhaseIndex][t] \in Nat /\ kMaxAttempts \in Nat
      BY <3>1, MarkType, StampType, TwoPhases DEF TypeInv, HistoryOK, kMaxAttempts
    <3>3. journal'.attempts[kPhaseIndex][t].count <= cut'[kPhaseIndex][t]
      BY <1>1, <1>2, <3>1, <3>2, TwoPhases DEF AttemptsWereCut, Attempted
    <3>4. QED
      BY <3>1, <3>2, <3>3 DEF Suspect
  <2>3. QED
    BY <1>1, <2>2 DEF OnlySuspectsOut
<1>5. QED
  BY <1>2, <1>3, <1>4 DEF SuspectInv

\* Starting a task adds at most the attempt that is now in flight.
LEMMA SuspectStartTask ==
  ASSUME TypeInv, SuspectInv, NEW t \in TUs, StartTask(t)
  PROVE  SuspectInv'
<1>1. /\ UNCHANGED <<pc, isolate, stamp, fatal, poisoned, out, cut, left>>
      /\ t \in todo /\ todo' = todo \ {t}
      /\ journal' = JournaledBeforeParse(t) /\ pc \in {"index", "analyze"}
  BY DEF StartTask, fileVars, runVars, histVars
<1>2. TypeInv' /\ Running' = Running \cup {t} /\ t \notin Running
  BY TypeStartTask
<1>3. stamp[t] \in Nat /\ IsJournal(journal) /\ CurPhase \in Phases /\ CurPhase' = CurPhase
  BY <1>1, StampType, TwoPhases DEF TypeInv, CurPhase
<1>4. /\ journal'.torn = journal.torn
      /\ \A q \in Phases, u \in TUs : journal'.attempts[q][u] =
           IF ~isolate /\ ~journal.torn /\ q = CurPhase /\ u = t
           THEN Counted(journal.attempts[q][u], stamp[u]) ELSE journal.attempts[q][u]
  <2>1. LET r == RecordAttempt(journal, CurPhase, t, stamp[t])
        IN /\ r.torn = journal.torn
           /\ \A q \in Phases, u \in TUs : r.attempts[q][u] =
                IF ~journal.torn /\ q = CurPhase /\ u = t
                THEN Counted(journal.attempts[CurPhase][t], stamp[t]) ELSE journal.attempts[q][u]
    BY <1>3, AttemptRecorded
  <2>2. QED
    BY <1>1, <2>1 DEF JournaledBeforeParse
<1>5. AttemptsWereCut'
  <2> SUFFICES ASSUME NEW q \in Phases, NEW u \in TUs
               PROVE  /\ journal'.attempts[q][u].stamp <= stamp[u]
                      /\ journal'.attempts[q][u].stamp = stamp[u] =>
                           \/ journal'.attempts[q][u].count
                                <= cut[q][u] + (IF Attempted(q, u)' THEN 1 ELSE 0)
                           \/ journal'.torn /\ journal'.attempts[q][u].count < kMaxAttempts
    BY <1>1 DEF AttemptsWereCut
  <2>1. /\ journal.attempts[q][u].stamp \in Nat /\ journal.attempts[q][u].count \in Nat
        /\ cut[q][u] \in Nat /\ stamp[u] \in Nat
    BY MarkType, StampType DEF TypeInv
  <2>2. Attempted(q, u)' <=> Attempted(q, u) \/ (q = CurPhase /\ u = t /\ ~isolate)
    BY <1>1, <1>2, <1>3 DEF Attempted
  <2>3. /\ journal.attempts[q][u].stamp <= stamp[u]
        /\ journal.attempts[q][u].stamp = stamp[u] =>
             \/ journal.attempts[q][u].count <= cut[q][u] + (IF Attempted(q, u) THEN 1 ELSE 0)
             \/ journal.torn /\ journal.attempts[q][u].count < kMaxAttempts
    BY DEF SuspectInv, AttemptsWereCut
  <2>4. CASE ~isolate /\ ~journal.torn /\ q = CurPhase /\ u = t
    <3>1. ~Attempted(q, u) /\ Attempted(q, u)'
      BY <1>2, <2>2, <2>4 DEF Attempted
    <3>2. journal'.attempts[q][u] = Counted(journal.attempts[q][u], stamp[u])
      BY <1>4, <2>4
    <3>3. CASE journal.attempts[q][u].stamp = stamp[u]
      <4>1. /\ journal'.attempts[q][u].stamp = stamp[u]
            /\ journal'.attempts[q][u].count = journal.attempts[q][u].count + 1
        BY <1>3, <3>2, <3>3 DEF Counted, IsJournal, Marks
      <4>2. QED
        BY <2>1, <2>3, <2>4, <3>1, <3>3, <4>1
    <3>4. CASE journal.attempts[q][u].stamp # stamp[u]
      <4>1. journal'.attempts[q][u].stamp = stamp[u] /\ journal'.attempts[q][u].count = 1
        BY <3>2, <3>4 DEF Counted
      <4>2. QED
        BY <2>1, <3>1, <4>1
    <3>5. QED
      BY <3>3, <3>4
  <2>5. CASE ~(~isolate /\ ~journal.torn /\ q = CurPhase /\ u = t)
    <3>1. journal'.attempts[q][u] = journal.attempts[q][u] /\ journal'.torn = journal.torn
      BY <1>4, <2>5
    <3>2. QED
      BY <2>1, <2>2, <2>3, <3>1
  <2>6. QED
    BY <2>4, <2>5
<1>6. FrozenBelowLimit'
  <2> SUFFICES ASSUME journal.torn, NEW u \in todo \cup Running
               PROVE  ~Poisoned(journal', CurPhase, u, stamp[u])
    BY <1>1, <1>2, <1>3, <1>4 DEF FrozenBelowLimit, Poisoned, Attempts
  <2>1. u \in TUs /\ journal'.attempts[CurPhase][u] = journal.attempts[CurPhase][u]
    BY <1>3, <1>4 DEF TypeInv, TasksOK, Running
  <2>2. ~Poisoned(journal, CurPhase, u, stamp[u])
    BY <1>1 DEF SuspectInv, FrozenBelowLimit
  <2>3. QED
    BY <2>1, <2>2 DEF Poisoned, Attempts
<1>7. OnlySuspectsOut'
  BY <1>1, <1>2 DEF SuspectInv, OnlySuspectsOut, Suspect
<1>8. QED
  BY <1>5, <1>6, <1>7 DEF SuspectInv

\* The counters and the key of one TU that has completed.
LEMMA ClearedOne ==
  ASSUME TypeInv, NEW a \in Running
  PROVE  \A p \in Phases, t \in TUs :
           /\ Cleared(deaths, {a})[p][t] = IF p = CurPhase /\ t = a THEN 0 ELSE deaths[p][t]
           /\ Cleared(cut, {a})[p][t] = IF p = CurPhase /\ t = a THEN 0 ELSE cut[p][t]
           /\ Finished({a})[p][t] = IF p = CurPhase /\ t = a THEN Key(t) ELSE finished[p][t]
BY TwoPhases DEF TypeInv, HistoryOK, Cleared, Finished

\* A completion clears the counter, on disk unless the journal is torn.
LEMMA SuspectCompletion ==
  ASSUME TypeInv, SuspectInv, NEW a \in Running,
         journal' = JournaledAfterParse(a), cut' = Cleared(cut, {a}),
         deaths' = Cleared(deaths, {a}), finished' = Finished({a}),
         pc' = pc, isolate' = isolate, stamp' = stamp, todo' = todo,
         Running' \subseteq Running, isolate \/ Running' = Running \ {a}
  PROVE  AttemptsWereCut' /\ FrozenBelowLimit'
<1>1. a \in TUs /\ pc \in {"index", "analyze"} /\ CurPhase \in Phases /\ CurPhase' = CurPhase
  BY InFlight, TwoPhases DEF CurPhase
<1>2. /\ journal'.torn = journal.torn
      /\ \A q \in Phases, u \in TUs : journal'.attempts[q][u] =
           IF ~journal.torn /\ q = CurPhase /\ u = a THEN NoAttempt ELSE journal.attempts[q][u]
  BY CompletionJournaled
<1>3. \A q \in Phases, u \in TUs : cut'[q][u] = IF q = CurPhase /\ u = a THEN 0 ELSE cut[q][u]
  BY <1>1, ClearedOne
<1>4. AttemptsWereCut'
  <2> SUFFICES ASSUME NEW q \in Phases, NEW u \in TUs
               PROVE  /\ journal'.attempts[q][u].stamp <= stamp[u]
                      /\ journal'.attempts[q][u].stamp = stamp[u] =>
                           \/ journal'.attempts[q][u].count
                                <= cut'[q][u] + (IF Attempted(q, u)' THEN 1 ELSE 0)
                           \/ journal'.torn /\ journal'.attempts[q][u].count < kMaxAttempts
    BY DEF AttemptsWereCut
  <2>1. /\ journal.attempts[q][u].stamp \in Nat /\ journal.attempts[q][u].count \in Nat
        /\ cut[q][u] \in Nat /\ stamp[u] \in Nat /\ stamp[u] # 0
    BY MarkType, StampType DEF TypeInv
  <2>2. /\ journal.attempts[q][u].stamp <= stamp[u]
        /\ journal.attempts[q][u].stamp = stamp[u] =>
             \/ journal.attempts[q][u].count <= cut[q][u] + (IF Attempted(q, u) THEN 1 ELSE 0)
             \/ journal.torn /\ journal.attempts[q][u].count < kMaxAttempts
    BY DEF SuspectInv, AttemptsWereCut
  <2>3. CASE ~journal.torn /\ q = CurPhase /\ u = a
    <3>1. journal'.attempts[q][u].stamp = 0
      BY <1>2, <2>3 DEF NoAttempt, NoStamp
    <3>2. QED
      BY <2>1, <3>1
  <2>4. CASE journal.torn /\ q = CurPhase /\ u = a
    <3>1. journal'.attempts[q][u] = journal.attempts[q][u] /\ journal'.torn
      BY <1>2, <2>4
    <3>2. ~Poisoned(journal, q, u, stamp[u])
      BY <1>1, <2>4 DEF SuspectInv, FrozenBelowLimit
    <3>3. journal.attempts[q][u].stamp = stamp[u] => journal.attempts[q][u].count < kMaxAttempts
      BY <2>1, <3>2, PoisonedMeans DEF kMaxAttempts
    <3>4. QED
      BY <2>2, <3>1, <3>3
  <2>5. CASE ~(q = CurPhase /\ u = a)
    <3>1. /\ journal'.attempts[q][u] = journal.attempts[q][u] /\ journal'.torn = journal.torn
          /\ cut'[q][u] = cut[q][u]
      BY <1>2, <1>3, <2>5
    <3>2. QED
      <4>1. Attempted(q, u)' <=> Attempted(q, u)
        BY <1>1, <2>5 DEF Attempted
      <4>2. QED
        BY <2>2, <3>1, <4>1
  <2>6. QED
    BY <2>3, <2>4, <2>5
<1>5. FrozenBelowLimit'
  <2> SUFFICES ASSUME journal.torn, NEW u \in todo \cup Running
               PROVE  ~Poisoned(journal', CurPhase, u, stamp[u])
    BY <1>1, <1>2 DEF FrozenBelowLimit, Poisoned, Attempts
  <2>1. u \in TUs /\ journal'.attempts[CurPhase][u] = journal.attempts[CurPhase][u]
    BY <1>1, <1>2 DEF TypeInv, TasksOK, Running
  <2>2. ~Poisoned(journal, CurPhase, u, stamp[u])
    BY <1>1 DEF SuspectInv, FrozenBelowLimit
  <2>3. QED
    BY <2>1, <2>2 DEF Poisoned, Attempts
<1>6. QED
  BY <1>4, <1>5

\* A task that finishes has a result.
LEMMA SuspectFinishTask ==
  ASSUME TypeInv, SuspectInv, NEW t \in TUs, FinishTask(t)
  PROVE  SuspectInv'
<1>1. /\ UNCHANGED <<pc, isolate, stamp, fatal, poisoned, todo, left>>
      /\ t \in Running /\ journal' = JournaledAfterParse(t) /\ Absorbed({t})
      /\ cut' = Cleared(cut, {t}) /\ deaths' = Cleared(deaths, {t}) /\ finished' = Finished({t})
  BY DEF FinishTask, fileVars, runVars
<1>2. TypeInv' /\ Running' = Running \ {t} /\ pc \in {"index", "analyze"}
      /\ t \notin poisoned /\ t \notin todo
  BY <1>1, TypeFinishTask, InFlight
<1>3. AttemptsWereCut' /\ FrozenBelowLimit'
  BY <1>1, <1>2, SuspectCompletion
<1>4. \A p \in Phases, u \in TUs \ {t} : cut'[p][u] = cut[p][u]
  BY <1>1, ClearedOne
<1>5. pc = "analyze" => out'[t] # NoDiags /\ \A u \in TUs \ {t} : out'[u] = out[u]
  BY <1>1, PairNotEmpty DEF Absorbed, NoDiags
<1>6. OnlySuspectsOut'
  <2>1. ASSUME NEW u \in poisoned PROVE Suspect(kPhaseIndex, u)'
    BY <1>1, <1>2, <1>4, TwoPhases DEF SuspectInv, OnlySuspectsOut, Suspect, TypeInv, TasksOK
  <2>2. ASSUME pc = "analyze", NEW u \in TUs \ (poisoned \cup todo \cup Running'),
               out'[u] = NoDiags
        PROVE  Suspect(kPhaseAnalyze, u)'
    <3>1. u # t
      BY <1>5, <2>2
    <3>2. Suspect(kPhaseAnalyze, u)
      BY <1>2, <1>5, <2>2, <3>1 DEF SuspectInv, OnlySuspectsOut
    <3>3. QED
      BY <1>1, <1>4, <3>1, <3>2, TwoPhases DEF Suspect
  <2>3. QED
    BY <1>1, <1>2, <2>1, <2>2 DEF OnlySuspectsOut
<1>7. QED
  BY <1>3, <1>6 DEF SuspectInv

\* After an unreadable shard every TU is suspect.
LEMMA AllSuspect ==
  ASSUME TypeInv, left.faults > 0, left' = [left EXCEPT !.faults = @ - 1]
  PROVE  \A p, t : Suspect(p, t)'
<1>1. left'.faults = left.faults - 1 /\ left.faults \in Nat /\ left.faults <= MaxFaults
  BY DEF TypeInv, FilesOK, Budget
<1>2. QED
  BY <1>1, BoundsAssumption DEF Suspect

\* Nobody's attempt is on disk when the parses run in workers.
LEMMA IsolatedCounts ==
  ASSUME TypeInv, SuspectInv, isolate, Running' \subseteq Running,
         UNCHANGED <<journal, pc, isolate, stamp, todo, cut>>
  PROVE  AttemptsWereCut' /\ FrozenBelowLimit'
<1>1. \A p, t : ~Attempted(p, t) /\ ~Attempted(p, t)'
  BY DEF Attempted
<1>2. QED
  BY <1>1 DEF SuspectInv, AttemptsWereCut, FrozenBelowLimit, CurPhase, Poisoned, Attempts

\* Giving up on a TU whose parse is deadly, or whose shard could not be read.
LEMMA SuspectPoisonTask ==
  ASSUME TypeInv, FreshInv, SuspectInv, NEW t \in TUs, PoisonTask(t)
  PROVE  SuspectInv'
<1>1. /\ UNCHANGED <<journal, pc, isolate, stamp, fatal, todo, out, cut>>
      /\ isolate /\ t \in Running
      /\ poisoned' = IF pc = "index" THEN poisoned \cup {t} ELSE poisoned
  BY DEF PoisonTask, GiveUpOn, fileVars, runVars, histVars
<1>2. TypeInv' /\ Running' = Running \ {t} /\ pc \in {"index", "analyze"}
  BY <1>1, TypePoisonTask, InFlight
<1>3. AttemptsWereCut' /\ FrozenBelowLimit'
  BY <1>1, <1>2, IsolatedCounts
<1>4. CASE <<CurPhase, t, parsing[t].src>> \in fatal /\ left' = left
  <2>1. <<CurPhase, t, stamp[t]>> \in fatal
    <3>1. parsing[t].src = 1
      BY <1>4 DEF TypeInv, FilesOK
    <3>2. stamp[t] <= parsing[t].src /\ stamp[t] \in Nat /\ stamp[t] # 0
      BY <1>1, StampType DEF FreshInv, FlightSince, Since
    <3>3. QED
      BY <1>4, <3>1, <3>2
  <2>2. \A p, u : Suspect(p, u)' <=> Suspect(p, u)
    BY <1>1, <1>4 DEF Suspect
  <2>3. Suspect(CurPhase, t)
    BY <2>1 DEF Suspect
  <2>4. OnlySuspectsOut'
    BY <1>1, <1>2, <2>2, <2>3 DEF SuspectInv, OnlySuspectsOut, CurPhase
  <2>5. QED
    BY <1>3, <2>4 DEF SuspectInv
<1>5. CASE left.faults > 0 /\ left' = [left EXCEPT !.faults = @ - 1]
  BY <1>3, <1>5, AllSuspect DEF SuspectInv, OnlySuspectsOut
<1>6. QED
  BY <1>4, <1>5 DEF PoisonTask

\* A torn shard.
LEMMA SuspectTornShard ==
  ASSUME TypeInv, SuspectInv, NEW a \in TUs, NEW u \in TUs, TornShard(a, u)
  PROVE  SuspectInv'
<1>1. /\ UNCHANGED <<pc, isolate, stamp, todo>> /\ isolate /\ a \in Running
      /\ journal' = JournaledAfterParse(a) /\ cut' = Cleared(cut, {a})
      /\ deaths' = Cleared(deaths, {a}) /\ finished' = Finished({a})
      /\ left.faults > 0 /\ left' = [left EXCEPT !.faults = @ - 1]
  BY DEF TornShard, fileVars, runVars
<1>2. Running' \subseteq Running
  BY TypeTornShard
<1>3. AttemptsWereCut' /\ FrozenBelowLimit'
  BY <1>1, <1>2, SuspectCompletion
<1>4. QED
  BY <1>1, <1>3, AllSuspect DEF SuspectInv, OnlySuspectsOut

\* Phase 2 skips a TU only if enough runs were cut short in its analysis.
LEMMA SuspectStartPhase2 ==
  ASSUME TypeInv, SuspectInv, StartPhase2
  PROVE  SuspectInv'
<1> DEFINE replay == {t \in TUs \ poisoned : Replays2(journal, t, stamp[t], SetHash)}
           skip   == {t \in TUs \ (poisoned \cup replay) :
                        Poisoned(journal, kPhaseAnalyze, t, stamp[t])}
<1>1. /\ UNCHANGED <<journal, stamp, poisoned, cut, left, fatal>>
      /\ pc = "index" /\ pc' = "analyze"
      /\ out' = [t \in TUs |-> IF t \in replay
                               THEN journal.done[kPhaseAnalyze][t].payload ELSE NoDiags]
      /\ todo' = TUs \ (poisoned \cup replay \cup skip)
  BY DEF StartPhase2, fileVars, histVars
<1>2. Running = {} /\ Running' = {} /\ todo = {}
  BY TypeStartPhase2
<1>3. \A p, t : ~Attempted(p, t) /\ ~Attempted(p, t)'
  BY <1>2 DEF Attempted
<1>4. AttemptsWereCut'
  BY <1>1, <1>3 DEF SuspectInv, AttemptsWereCut
<1>5. FrozenBelowLimit'
  BY <1>1, <1>2 DEF FrozenBelowLimit, CurPhase, Poisoned, Attempts
<1>6. ASSUME NEW t \in TUs \ (poisoned \cup todo'), out'[t] = NoDiags
      PROVE  Suspect(kPhaseAnalyze, t)'
  <2>1. t \in skip
    BY <1>1, <1>6, Replayed2
  <2>2. /\ journal.attempts[kPhaseAnalyze][t].stamp = stamp[t]
        /\ journal.attempts[kPhaseAnalyze][t].count >= kMaxAttempts
    BY <2>1, PoisonedMeans
  <2>3. /\ journal.attempts[kPhaseAnalyze][t].count \in Nat /\ cut[kPhaseAnalyze][t] \in Nat
        /\ kMaxAttempts \in Nat
    BY MarkType, StampType, TwoPhases DEF TypeInv, kMaxAttempts
  <2>4. journal.attempts[kPhaseAnalyze][t].count <= cut[kPhaseAnalyze][t]
    BY <1>3, <2>2, <2>3, TwoPhases DEF SuspectInv, AttemptsWereCut
  <2>5. QED
    BY <1>1, <2>2, <2>3, <2>4 DEF Suspect
<1>7. OnlySuspectsOut'
  <2>1. \A t \in poisoned' : Suspect(kPhaseIndex, t)'
    BY <1>1 DEF SuspectInv, OnlySuspectsOut, Suspect
  <2>2. QED
    BY <1>1, <1>2, <1>6, <2>1 DEF OnlySuspectsOut
<1>8. QED
  BY <1>4, <1>5, <1>7 DEF SuspectInv

\* A run that is cut short counts against what it had in flight.
LEMMA SuspectEnd ==
  ASSUME TypeInv, SuspectInv, Kill \/ \E t \in TUs : Die(t)
  PROVE  SuspectInv'
<1>1. LoseMemory /\ CutShort /\ stamp' = stamp
  BY DEF Kill, Die, runVars
<1>2. journal'.attempts = journal.attempts /\ (journal' = journal \/ journal'.torn)
  BY TypeKill, TypeDie
<1>3. Running' = {} /\ pc' = "down" /\ poisoned' = {}
  BY <1>1, LoseMemoryType DEF LoseMemory
<1>4. \A p \in Phases, t \in TUs : cut'[p][t] =
        IF p = CurPhase /\ t \in Running /\ ~isolate THEN cut[p][t] + 1 ELSE cut[p][t]
  BY <1>1, CutShortType DEF TypeInv
<1>5. AttemptsWereCut'
  <2> SUFFICES ASSUME NEW p \in Phases, NEW t \in TUs
               PROVE  /\ journal'.attempts[p][t].stamp <= stamp[t]
                      /\ journal'.attempts[p][t].stamp = stamp[t] =>
                           \/ journal'.attempts[p][t].count <= cut'[p][t] + 0
                           \/ journal'.torn /\ journal'.attempts[p][t].count < kMaxAttempts
    BY <1>1, <1>3 DEF AttemptsWereCut, Attempted
  <2>1. cut[p][t] \in Nat
    BY StampType
  <2>2. cut'[p][t] = cut[p][t] + (IF Attempted(p, t) THEN 1 ELSE 0)
    BY <1>4, <2>1 DEF Attempted
  <2>3. QED
    BY <1>2, <2>1, <2>2 DEF SuspectInv, AttemptsWereCut
<1>6. QED
  BY <1>3, <1>5 DEF SuspectInv, FrozenBelowLimit, OnlySuspectsOut

\* Every step keeps SuspectInv.
LEMMA SuspectStep ==
  ASSUME TypeInv, FreshInv, SuspectInv, [Next]_vars
  PROVE  SuspectInv'
<1>1. CASE Resume \/ Rerun
  <2>1. pc \in {"down", "done"}
    BY <1>1 DEF Resume, Rerun
  <2>2. QED
    BY <1>1, <2>1, TypeNewRun, SuspectOpen
<1>2. CASE StartPhase2
  BY <1>2, SuspectStartPhase2
<1>3. ASSUME NEW t \in TUs, StartTask(t) PROVE SuspectInv'
  BY <1>3, SuspectStartTask
<1>4. ASSUME NEW t \in TUs, FinishTask(t) PROVE SuspectInv'
  BY <1>4, SuspectFinishTask
<1>5. ASSUME NEW t \in TUs, PoisonTask(t) PROVE SuspectInv'
  BY <1>5, SuspectPoisonTask
<1>6. CASE Kill \/ \E t \in TUs : Die(t)
  BY <1>6, SuspectEnd
<1>7. CASE FinishRun
  <2>1. /\ UNCHANGED <<journal, stamp, isolate, poisoned, todo, out, cut, left, fatal>>
        /\ pc = "analyze" /\ pc' = "done" /\ Running' = {} /\ Running = {}
    BY <1>7, TypeFinishRun DEF FinishRun, fileVars, runVars, histVars
  <2>2. QED
    BY <2>1 DEF SuspectInv, AttemptsWereCut, FrozenBelowLimit, OnlySuspectsOut, Attempted, Suspect
<1>8. CASE EditHeader \/ (\E t \in TUs : EditSource(t)) \/ UNCHANGED vars
  <2>1. UNCHANGED <<journal, pc, stamp, isolate, poisoned, todo, out, cut, fatal, Running, CurPhase>>
    BY <1>8 DEF EditHeader, EditSource, vars, fileVars, runVars, histVars, Running, CurPhase
  <2>2. left'.faults = left.faults
    <3>1. left \in Budget
      BY DEF TypeInv, FilesOK
    <3>2. CASE UNCHANGED vars
      BY <3>2 DEF vars
    <3>3. CASE EditHeader
      BY <3>1, <3>3 DEF EditHeader, Budget
    <3>4. CASE \E t \in TUs : EditSource(t)
      BY <3>1, <3>4 DEF EditSource, Budget
    <3>5. QED
      BY <1>8, <3>2, <3>3, <3>4
  <2>3. QED
    BY <2>1, <2>2 DEF SuspectInv, AttemptsWereCut, FrozenBelowLimit, OnlySuspectsOut, Attempted,
       Suspect, Poisoned, Attempts
<1>9. ASSUME NEW a \in TUs, NEW u \in TUs, TornShard(a, u) PROVE SuspectInv'
  BY <1>9, SuspectTornShard
<1>10. QED
  BY <1>1, <1>2, <1>3, <1>4, <1>5, <1>6, <1>7, <1>8, <1>9 DEF Next, Progress, Environment

\* A finished run leaves a TU out only when its parse is deadly, a shard it may
\* be blamed for was unreadable, or kMaxAttempts runs ended with it in flight
\* since it last completed: for all sets of TUs, any edits (of headers too),
\* kills, deaths, cut appends, unreadable shards and reruns.
THEOREM LeftOutCorrect == Spec => []LeftOutOnlyIfSuspect
<1>1. TypeInv /\ SuspectInv => LeftOutOnlyIfSuspect
  BY DEF TypeInv, TasksOK, SuspectInv, OnlySuspectsOut, LeftOutOnlyIfSuspect
<1>2. TypeInv /\ FreshInv /\ SuspectInv /\ [Next]_vars => SuspectInv'
  BY SuspectStep
<1>3. QED
  BY <1>1, <1>2, SuspectInit, TypeAlways, FreshAlways, PTL DEF Spec

-----------------------------------------------------------------------------
(* With appends that are never cut short (MaxTorn = 0) every record counts.  *)
Intact == left.torn = 0 /\ ~journal.torn

\* Every death of a parse is on disk as an attempt at the current stamp, and so
\* is the attempt in flight; nothing that reached the limit is started.
DeathsCounted ==
  /\ \A p \in Phases, t \in TUs :
       /\ deaths[p][t] <= kMaxAttempts
       /\ deaths[p][t] + (IF Attempted(p, t) THEN 1 ELSE 0) <= Attempts(journal, p, t, stamp[t])
  /\ pc \in {"index", "analyze"} =>
       /\ \A t \in todo : Attempts(journal, CurPhase, t, stamp[t]) < kMaxAttempts
       /\ \A t \in Running : Attempts(journal, CurPhase, t, stamp[t]) <= kMaxAttempts

\* The last completion of a TU is the record on disk, and what is queued has no
\* record that could be replayed.
CompletionsOnDisk ==
  /\ \A p \in Phases, t \in TUs : finished[p][t] # NotYet =>
       finished[p][t] = <<journal.done[p][t].stamp, journal.done[p][t].hash>>
  /\ pc = "index" => \A t \in todo : ~Replays1(journal, t, stamp[t])
  /\ pc = "analyze" => \A t \in todo : ~Replays2(journal, t, stamp[t], SetHash)

\* The invariant of a journal nothing of which is torn.
WholeInv == Intact /\ DeathsCounted /\ CompletionsOnDisk

\* A count of attempts.
LEMMA AttemptsType ==
  ASSUME NEW j, IsJournal(j), NEW p \in Phases, NEW t \in TUs, NEW s
  PROVE  Attempts(j, p, t, s) \in Nat
BY DEF IsJournal, Marks, Attempts

\* The first state.
LEMMA WholeInit ==
  ASSUME MaxTorn = 0, Init
  PROVE  WholeInv
<1>1. Intact
  BY DEF Init, Intact, Fresh
<1>2. IsJournal(journal) /\ Running = {}
  BY FreshIsJournal DEF Init, SomeOptions, Running
<1>3. \A p \in Phases, t \in TUs : deaths[p][t] = 0 /\ finished[p][t] = NotYet
  BY DEF Init, PerTu
<1>4. QED
  BY <1>1, <1>2, <1>3, AttemptsType
  DEF Init, WholeInv, DeathsCounted, CompletionsOnDisk, Attempted, kMaxAttempts

\* Opening the journal.
LEMMA WholeOpen ==
  ASSUME TypeInv, WholeInv, NEW o \in Options, NEW iso \in Modes, Open(o, iso),
         pc \in {"down", "done"}, TypeInv', left'.torn = left.torn
  PROVE  WholeInv'
<1> DEFINE j == Reopened(journal, o)
           replay == {t \in TUs : Replays1(j, t, src[t])}
<1>1. /\ pc' = "index" /\ stamp' = src /\ Running' = {} /\ Running = {} /\ journal' = j
      /\ poisoned' = {t \in TUs \ replay : Poisoned(j, kPhaseIndex, t, src[t])}
      /\ todo' = TUs \ (replay \cup poisoned')
      /\ finished' = IF journal.fingerprint = o THEN finished ELSE PerTu(NotYet)
  BY DEF Open, Running, StampFiles, TypeInv, TasksOK, SelectPhase1, Forget
<1>2. /\ IsJournal(j) /\ (j = journal \/ j = Fresh(o))
      /\ journal.fingerprint = o => j = journal
  BY ReopenedIsJournal DEF TypeInv, Reopened
<1> HIDE DEF j
<1>3. Intact'
  BY <1>1, <1>2 DEF WholeInv, Intact, Fresh
<1>4. DeathsCounted'
  <2>1. ASSUME NEW p \in Phases, NEW t \in TUs
        PROVE  deaths'[p][t] <= kMaxAttempts /\ deaths'[p][t] <= Attempts(j, p, t, src[t])
    <3>1. Attempts(j, p, t, src[t]) \in Nat
      BY <1>2, AttemptsType
    <3>2. CASE journal.fingerprint = o /\ stamp[t] = src[t]
      <4>1. deaths'[p][t] = deaths[p][t]
        BY <3>2 DEF Open, Forget, Recount, StampFiles
      <4>2. deaths[p][t] \in Nat /\ ~Attempted(p, t)
        BY <1>1, StampType DEF Attempted
      <4>3. QED
        BY <1>2, <3>2, <4>1, <4>2 DEF WholeInv, DeathsCounted
    <3>3. CASE ~(journal.fingerprint = o /\ stamp[t] = src[t])
      <4>1. deaths'[p][t] = 0
        BY <3>3 DEF Open, Forget, Recount, StampFiles
      <4>2. QED
        BY <3>1, <4>1 DEF kMaxAttempts
    <3>4. QED
      BY <3>2, <3>3
  <2>2. \A t \in todo' : Attempts(j, kPhaseIndex, t, src[t]) < kMaxAttempts
    <3>1. \A t \in todo' : t \in TUs /\ ~Poisoned(j, kPhaseIndex, t, src[t])
      BY <1>1
    <3>2. \A t \in TUs : Attempts(j, kPhaseIndex, t, src[t]) \in Nat
      BY <1>2, AttemptsType, TwoPhases
    <3>3. QED
      BY <3>1, <3>2 DEF Poisoned, kMaxAttempts
  <2>3. \A p \in Phases, t \in TUs : deaths'[p][t] \in Nat
    BY BoundsAssumption DEF TypeInv, HistoryOK
  <2>4. QED
    BY <1>1, <2>1, <2>2, <2>3 DEF DeathsCounted, Attempted, CurPhase
<1>5. CompletionsOnDisk'
  <2>1. ASSUME NEW p \in Phases, NEW t \in TUs, finished'[p][t] # NotYet
        PROVE  finished'[p][t] = <<j.done[p][t].stamp, j.done[p][t].hash>>
    <3>1. CASE journal.fingerprint = o
      BY <1>1, <1>2, <2>1, <3>1 DEF WholeInv, CompletionsOnDisk
    <3>2. CASE journal.fingerprint # o
      BY <1>1, <2>1, <3>2 DEF PerTu
    <3>3. QED
      BY <3>1, <3>2
  <2>2. QED
    BY <1>1, <2>1 DEF CompletionsOnDisk, Replays1
<1>6. QED
  BY <1>3, <1>4, <1>5 DEF WholeInv

\* Starting a task: its attempt is on disk before it can kill the run.
LEMMA WholeStartTask ==
  ASSUME TypeInv, WholeInv, NEW t \in TUs, StartTask(t)
  PROVE  WholeInv'
<1>1. /\ UNCHANGED <<pc, isolate, stamp, poisoned, deaths, finished, left>>
      /\ t \in todo /\ todo' = todo \ {t}
      /\ journal' = JournaledBeforeParse(t) /\ pc \in {"index", "analyze"}
  BY DEF StartTask, fileVars, runVars, histVars
<1>2. TypeInv' /\ Running' = Running \cup {t} /\ t \notin Running
  BY TypeStartTask
<1>3. /\ stamp[t] \in Nat /\ IsJournal(journal) /\ CurPhase \in Phases /\ CurPhase' = CurPhase
      /\ ~journal.torn
  BY <1>1, StampType, TwoPhases DEF TypeInv, CurPhase, WholeInv, Intact
<1>4. /\ journal'.torn = journal.torn /\ journal'.done = journal.done
      /\ \A q \in Phases, u \in TUs : journal'.attempts[q][u] =
           IF ~isolate /\ q = CurPhase /\ u = t
           THEN Counted(journal.attempts[q][u], stamp[u]) ELSE journal.attempts[q][u]
  <2>1. LET r == RecordAttempt(journal, CurPhase, t, stamp[t])
        IN /\ r.torn = journal.torn /\ r.done = journal.done
           /\ \A q \in Phases, u \in TUs : r.attempts[q][u] =
                IF ~journal.torn /\ q = CurPhase /\ u = t
                THEN Counted(journal.attempts[CurPhase][t], stamp[t]) ELSE journal.attempts[q][u]
    BY <1>3, AttemptRecorded
  <2>2. QED
    BY <1>1, <1>3, <2>1 DEF JournaledBeforeParse
<1>5. \A q \in Phases, u \in TUs : Attempts(journal', q, u, stamp[u]) =
        Attempts(journal, q, u, stamp[u])
          + (IF ~isolate /\ q = CurPhase /\ u = t THEN 1 ELSE 0)
  <2> SUFFICES ASSUME NEW q \in Phases, NEW u \in TUs
               PROVE  Attempts(journal', q, u, stamp[u]) = Attempts(journal, q, u, stamp[u])
                        + (IF ~isolate /\ q = CurPhase /\ u = t THEN 1 ELSE 0)
    OBVIOUS
  <2>1. Attempts(journal, q, u, stamp[u]) \in Nat
    BY <1>3, AttemptsType
  <2>2. CASE ~isolate /\ q = CurPhase /\ u = t
    <3>1. journal'.attempts[q][u] = Counted(journal.attempts[q][u], stamp[u])
      BY <1>4, <2>2
    <3>2. CASE journal.attempts[q][u].stamp = stamp[u]
      <4>1. /\ journal'.attempts[q][u].stamp = stamp[u]
            /\ journal'.attempts[q][u].count = journal.attempts[q][u].count + 1
        BY <1>3, <3>1, <3>2 DEF Counted, IsJournal, Marks
      <4>2. QED
        BY <2>2, <3>2, <4>1 DEF Attempts
    <3>3. CASE journal.attempts[q][u].stamp # stamp[u]
      <4>1. journal'.attempts[q][u].stamp = stamp[u] /\ journal'.attempts[q][u].count = 1
        BY <3>1, <3>3 DEF Counted
      <4>2. QED
        BY <2>2, <3>3, <4>1 DEF Attempts
    <3>4. QED
      BY <3>2, <3>3
  <2>3. CASE ~(~isolate /\ q = CurPhase /\ u = t)
    <3>1. journal'.attempts[q][u] = journal.attempts[q][u]
      BY <1>4, <2>3
    <3>2. QED
      BY <2>1, <2>3, <3>1 DEF Attempts
  <2>4. QED
    BY <2>2, <2>3
<1>6. DeathsCounted'
  <2>1. ASSUME NEW q \in Phases, NEW u \in TUs
        PROVE  deaths[q][u] + (IF Attempted(q, u)' THEN 1 ELSE 0)
                 <= Attempts(journal', q, u, stamp[u])
    <3>1. Attempted(q, u)' <=> Attempted(q, u) \/ (~isolate /\ q = CurPhase /\ u = t)
      BY <1>1, <1>2, <1>3 DEF Attempted
    <3>2. ~isolate /\ q = CurPhase /\ u = t => ~Attempted(q, u)
      BY <1>2 DEF Attempted
    <3>3. /\ deaths[q][u] \in Nat /\ Attempts(journal, q, u, stamp[u]) \in Nat
          /\ deaths[q][u] + (IF Attempted(q, u) THEN 1 ELSE 0) <= Attempts(journal, q, u, stamp[u])
      BY <1>3, StampType, AttemptsType DEF WholeInv, DeathsCounted
    <3>4. QED
      BY <1>5, <3>1, <3>2, <3>3
  <2>2. \A u \in todo' : Attempts(journal', CurPhase, u, stamp[u]) < kMaxAttempts
    <3>1. \A u \in todo' : u \in TUs /\ u # t /\ u \in todo
      BY <1>1 DEF TypeInv, TasksOK
    <3>2. \A u \in TUs : Attempts(journal, CurPhase, u, stamp[u]) \in Nat
      BY <1>3, AttemptsType
    <3>3. QED
      BY <1>1, <1>3, <1>5, <3>1, <3>2 DEF WholeInv, DeathsCounted
  <2>3. \A u \in Running' : Attempts(journal', CurPhase, u, stamp[u]) <= kMaxAttempts
    <3>1. \A u \in TUs : Attempts(journal, CurPhase, u, stamp[u]) \in Nat
      BY <1>3, AttemptsType
    <3>2. ASSUME NEW u \in Running PROVE Attempts(journal', CurPhase, u, stamp[u]) <= kMaxAttempts
      <4>1. u \in TUs /\ u # t /\ Attempts(journal, CurPhase, u, stamp[u]) <= kMaxAttempts
        BY <1>1, <1>2 DEF Running, WholeInv, DeathsCounted
      <4>2. QED
        BY <1>3, <1>5, <3>1, <4>1
    <3>3. Attempts(journal', CurPhase, t, stamp[t]) <= kMaxAttempts
      <4>1. Attempts(journal, CurPhase, t, stamp[t]) < kMaxAttempts
        BY <1>1 DEF WholeInv, DeathsCounted
      <4>2. QED
        BY <1>3, <1>5, <3>1, <4>1 DEF kMaxAttempts
    <3>4. QED
      BY <1>2, <3>2, <3>3
  <2>4. QED
    BY <1>1, <1>3, <2>1, <2>2, <2>3 DEF DeathsCounted, WholeInv
<1>7. CompletionsOnDisk'
  BY <1>1, <1>4 DEF WholeInv, CompletionsOnDisk, Replays1, Replays2, SetHash, Contributing
<1>8. QED
  BY <1>1, <1>4, <1>6, <1>7 DEF WholeInv, Intact

\* A completion replaces the record and clears the counter on disk.
LEMMA WholeCompletion ==
  ASSUME TypeInv, WholeInv, NEW a \in Running,
         journal' = JournaledAfterParse(a), cut' = Cleared(cut, {a}),
         deaths' = Cleared(deaths, {a}), finished' = Finished({a}),
         pc' = pc, isolate' = isolate, stamp' = stamp, todo' = todo, left'.torn = left.torn,
         pc = "analyze" => poisoned' = poisoned,
         Running' \subseteq Running, isolate \/ Running' = Running \ {a}
  PROVE  WholeInv'
<1>1. /\ a \in TUs /\ pc \in {"index", "analyze"} /\ a \notin todo
      /\ CurPhase \in Phases /\ CurPhase' = CurPhase /\ ~journal.torn
  BY InFlight, TwoPhases DEF CurPhase, WholeInv, Intact
<1>2. /\ journal'.torn = journal.torn /\ IsJournal(journal')
      /\ \A q \in Phases, u \in TUs :
           /\ journal'.attempts[q][u] = IF q = CurPhase /\ u = a THEN NoAttempt
                                        ELSE journal.attempts[q][u]
           /\ journal'.done[q][u] = IF q = CurPhase /\ u = a
                                    THEN [stamp |-> stamp[a], hash |-> PhaseHash,
                                          payload |-> Result(a)]
                                    ELSE journal.done[q][u]
  BY <1>1, CompletionJournaled
<1>3. \A q \in Phases, u \in TUs :
        /\ deaths'[q][u] = IF q = CurPhase /\ u = a THEN 0 ELSE deaths[q][u]
        /\ finished'[q][u] = IF q = CurPhase /\ u = a THEN Key(u) ELSE finished[q][u]
  BY ClearedOne
<1>4. \A q \in Phases, u \in TUs : Attempts(journal', q, u, stamp[u]) =
        IF q = CurPhase /\ u = a THEN 0 ELSE Attempts(journal, q, u, stamp[u])
  <2>1. \A u \in TUs : stamp[u] # 0
    BY StampType
  <2>2. QED
    BY <1>2, <2>1 DEF Attempts, NoAttempt, NoStamp
<1>5. DeathsCounted'
  <2>1. ASSUME NEW q \in Phases, NEW u \in TUs
        PROVE  /\ deaths'[q][u] <= kMaxAttempts
               /\ deaths'[q][u] + (IF Attempted(q, u)' THEN 1 ELSE 0)
                    <= Attempts(journal', q, u, stamp[u])
    <3>1. CASE q = CurPhase /\ u = a
      <4>1. ~Attempted(q, u)'
        BY <3>1 DEF Attempted
      <4>2. QED
        <5>1. deaths'[q][u] = 0
          BY <1>3, <3>1
        <5>2. Attempts(journal', q, u, stamp[u]) = 0
          BY <1>4, <3>1
        <5>3. QED
          BY <4>1, <5>1, <5>2 DEF kMaxAttempts
    <3>2. CASE ~(q = CurPhase /\ u = a)
      <4>1. Attempted(q, u)' <=> Attempted(q, u)
        BY <1>1, <3>2 DEF Attempted
      <4>2. QED
        BY <1>3, <1>4, <3>2, <4>1 DEF WholeInv, DeathsCounted
    <3>3. QED
      BY <3>1, <3>2
  <2>2. /\ \A u \in todo : u \in TUs /\ u # a
        /\ \A u \in Running : u \in TUs
    BY <1>1 DEF TypeInv, TasksOK, Running
  <2>3. \A u \in todo : Attempts(journal', CurPhase, u, stamp[u]) < kMaxAttempts
    BY <1>1, <1>4, <2>2 DEF WholeInv, DeathsCounted
  <2>4. \A u \in Running' : Attempts(journal', CurPhase, u, stamp[u]) <= kMaxAttempts
    BY <1>1, <1>4, <2>2 DEF WholeInv, DeathsCounted, kMaxAttempts
  <2>5. QED
    BY <1>1, <2>1, <2>3, <2>4 DEF DeathsCounted
<1>6. CompletionsOnDisk'
  <2>1. ASSUME NEW q \in Phases, NEW u \in TUs, finished'[q][u] # NotYet
        PROVE  finished'[q][u] = <<journal'.done[q][u].stamp, journal'.done[q][u].hash>>
    <3>1. CASE q = CurPhase /\ u = a
      <4>1. finished'[q][u] = <<stamp[a], PhaseHash>>
        BY <1>3, <3>1 DEF Key
      <4>2. journal'.done[q][u].stamp = stamp[a] /\ journal'.done[q][u].hash = PhaseHash
        BY <1>2, <3>1
      <4>3. QED
        BY <4>1, <4>2
    <3>2. CASE ~(q = CurPhase /\ u = a)
      <4>1. finished'[q][u] = finished[q][u] /\ journal'.done[q][u] = journal.done[q][u]
        BY <1>2, <1>3, <3>2
      <4>2. QED
        BY <2>1, <4>1 DEF WholeInv, CompletionsOnDisk
    <3>3. QED
      BY <3>1, <3>2
  <2>2. \A u \in todo, q \in Phases : journal'.done[q][u] = journal.done[q][u]
    BY <1>1, <1>2 DEF TypeInv, TasksOK
  <2>3. pc = "analyze" => SetHash' = SetHash
    BY DEF SetHash, Contributing
  <2>4. QED
    BY <1>1, <2>1, <2>2, <2>3, TwoPhases DEF WholeInv, CompletionsOnDisk, Replays1, Replays2
<1>7. QED
  BY <1>1, <1>2, <1>5, <1>6 DEF WholeInv, Intact

\* A run that dies in a parse had the attempt on disk: one more death is still
\* within the attempts, and within the limit.
LEMMA WholeEnd ==
  ASSUME TypeInv, WholeInv, Kill \/ \E t \in TUs : Die(t)
  PROVE  WholeInv'
<1>1. /\ LoseMemory /\ UNCHANGED <<stamp, finished>>
      /\ deaths' = deaths \/ \E t \in TUs : Die(t)
  BY DEF Kill, Die, runVars
<1>2. journal' = journal /\ left'.torn = 0
  <2>1. TypeInv' /\ left'.torn <= left.torn /\ (left.torn = 0 => journal' = journal)
    BY TypeKill, TypeDie
  <2>2. left'.torn \in Nat /\ left.torn = 0
    BY <2>1 DEF TypeInv, FilesOK, Budget, WholeInv, Intact
  <2>3. QED
    BY <2>1, <2>2
<1>3. Running' = {} /\ pc' = "down" /\ todo' = {}
  BY <1>1, LoseMemoryType DEF LoseMemory
<1>4. ASSUME NEW q \in Phases, NEW u \in TUs
      PROVE  /\ deaths'[q][u] <= kMaxAttempts
             /\ deaths'[q][u] <= Attempts(journal, q, u, stamp[u])
             /\ deaths'[q][u] \in Nat
  <2>1. /\ deaths[q][u] \in Nat /\ Attempts(journal, q, u, stamp[u]) \in Nat
        /\ deaths[q][u] <= kMaxAttempts
        /\ deaths[q][u] + (IF Attempted(q, u) THEN 1 ELSE 0) <= Attempts(journal, q, u, stamp[u])
    BY StampType, AttemptsType DEF TypeInv, WholeInv, DeathsCounted
  <2>2. CASE deaths'[q][u] = deaths[q][u]
    BY <2>1, <2>2
  <2>3. CASE deaths'[q][u] # deaths[q][u]
    <3>1. PICK t \in TUs : Die(t)
      BY <1>1, <2>3
    <3>2. q = CurPhase /\ u = t /\ deaths'[q][u] = deaths[q][u] + 1
      BY <2>3, <3>1, TwoPhases DEF Die, TypeInv, HistoryOK
    <3>3. Attempted(q, u) /\ pc \in {"index", "analyze"}
      BY <3>1, <3>2, InFlight DEF Attempted, Die
    <3>4. Attempts(journal, q, u, stamp[u]) <= kMaxAttempts
      BY <3>2, <3>3 DEF WholeInv, DeathsCounted, Attempted
    <3>5. QED
      BY <2>1, <3>2, <3>3, <3>4 DEF kMaxAttempts
  <2>4. QED
    BY <2>2, <2>3
<1>5. DeathsCounted'
  BY <1>1, <1>2, <1>3, <1>4 DEF DeathsCounted, Attempted
<1>6. CompletionsOnDisk'
  BY <1>1, <1>2, <1>3 DEF WholeInv, CompletionsOnDisk
<1>7. QED
  BY <1>2, <1>5, <1>6 DEF WholeInv, Intact

\* Phase 2 queues what is below the limit and has no record to replay.
LEMMA WholeStartPhase2 ==
  ASSUME TypeInv, WholeInv, StartPhase2
  PROVE  WholeInv'
<1>1. /\ UNCHANGED <<journal, stamp, poisoned, deaths, finished, left>>
      /\ pc = "index" /\ pc' = "analyze"
      /\ \A t \in todo' : /\ t \in TUs
                          /\ ~Replays2(journal, t, stamp[t], SetHash)
                          /\ ~Poisoned(journal, kPhaseAnalyze, t, stamp[t])
  BY DEF StartPhase2, histVars
<1>2. Running = {} /\ Running' = {} /\ todo = {}
  BY TypeStartPhase2
<1>3. \A p \in Phases, t \in TUs : Attempts(journal, p, t, stamp[t]) \in Nat
  BY AttemptsType DEF TypeInv
<1>4. DeathsCounted'
  <2>1. \A t \in todo' : Attempts(journal, kPhaseAnalyze, t, stamp[t]) < kMaxAttempts
    BY <1>1, <1>3, TwoPhases DEF Poisoned, kMaxAttempts
  <2>2. \A p, t : ~Attempted(p, t) /\ ~Attempted(p, t)'
    BY <1>2 DEF Attempted
  <2>3. QED
    BY <1>1, <1>2, <2>1, <2>2 DEF WholeInv, DeathsCounted, CurPhase
<1>5. CompletionsOnDisk'
  BY <1>1 DEF WholeInv, CompletionsOnDisk, SetHash, Contributing
<1>6. QED
  BY <1>1, <1>4, <1>5 DEF WholeInv, Intact

\* Steps that leave the records, the stamps and the queue alone.
LEMMA WholeKept ==
  ASSUME TypeInv, WholeInv, UNCHANGED <<journal, stamp, isolate, deaths, finished, todo>>,
         left'.torn = left.torn, Running' \subseteq Running, isolate \/ Running' = Running,
         \/ pc' = pc /\ (pc = "index" \/ poisoned' = poisoned)
         \/ pc' = "done" /\ Running' = {}
  PROVE  WholeInv'
<1>1. CASE pc' = pc /\ (pc = "index" \/ poisoned' = poisoned)
  <2>1. CurPhase' = CurPhase /\ \A p, t : Attempted(p, t)' => Attempted(p, t)
    BY <1>1 DEF CurPhase, Attempted
  <2>2. \A p \in Phases, t \in TUs : deaths[p][t] \in Nat
    BY StampType
  <2>3. \A p \in Phases, t \in TUs : Attempted(p, t)' <=> Attempted(p, t)
    BY <2>1 DEF Attempted
  <2>4. DeathsCounted'
    BY <1>1, <2>1, <2>2, <2>3 DEF WholeInv, DeathsCounted, Attempts
  <2>5. CompletionsOnDisk'
    BY <1>1 DEF WholeInv, CompletionsOnDisk, Replays1, Replays2, SetHash, Contributing
  <2>6. QED
    BY <2>4, <2>5 DEF WholeInv, Intact
<1>2. CASE pc' = "done" /\ Running' = {}
  <2>1. \A p \in Phases, t \in TUs : deaths[p][t] \in Nat /\ ~Attempted(p, t)'
    BY <1>2, StampType DEF Attempted
  <2>2. \A p \in Phases, t \in TUs : Attempts(journal, p, t, stamp[t]) \in Nat
    BY AttemptsType DEF TypeInv
  <2>3. DeathsCounted'
    BY <1>2, <2>1, <2>2 DEF WholeInv, DeathsCounted, Attempts
  <2>4. QED
    BY <1>2, <2>3 DEF WholeInv, Intact, CompletionsOnDisk
<1>3. QED
  BY <1>1, <1>2

\* Every step keeps WholeInv.
LEMMA WholeStep ==
  ASSUME TypeInv, WholeInv, [Next]_vars
  PROVE  WholeInv'
<1>0. left \in Budget
  BY DEF TypeInv, FilesOK
<1>1. CASE Resume \/ Rerun
  <2>1. pc \in {"down", "done"}
    BY <1>1 DEF Resume, Rerun
  <2>2. QED
    BY <1>1, <2>1, TypeNewRun, WholeOpen
<1>2. CASE StartPhase2
  BY <1>2, WholeStartPhase2
<1>3. ASSUME NEW t \in TUs, StartTask(t) PROVE WholeInv'
  BY <1>3, WholeStartTask
<1>4. ASSUME NEW t \in TUs, FinishTask(t) PROVE WholeInv'
  <2>1. Running' = Running \ {t}
    BY <1>4, TypeFinishTask
  <2>2. QED
    BY <1>4, <2>1, WholeCompletion DEF FinishTask, runVars
<1>5. ASSUME NEW t \in TUs, PoisonTask(t) PROVE WholeInv'
  <2>1. /\ UNCHANGED <<journal, stamp, isolate, deaths, finished, todo, pc>> /\ isolate
        /\ pc = "index" \/ poisoned' = poisoned
    BY <1>5 DEF PoisonTask, GiveUpOn, runVars, histVars
  <2>2. Running' \subseteq Running
    BY <1>5, TypePoisonTask
  <2>3. left'.torn = left.torn
    <3>1. CASE left' = left
      BY <3>1
    <3>2. CASE left' = [left EXCEPT !.faults = @ - 1]
      BY <1>0, <3>2 DEF Budget
    <3>3. QED
      BY <1>5, <3>1, <3>2 DEF PoisonTask
  <2>4. QED
    BY <2>1, <2>2, <2>3, WholeKept
<1>6. CASE Kill \/ \E t \in TUs : Die(t)
  BY <1>6, WholeEnd
<1>7. CASE FinishRun
  <2>1. /\ UNCHANGED <<journal, stamp, isolate, deaths, finished, todo, left>> /\ pc' = "done"
        /\ Running' = {} /\ Running = {}
    BY <1>7, TypeFinishRun DEF FinishRun, runVars, histVars
  <2>2. QED
    BY <2>1, WholeKept
<1>8. CASE EditHeader \/ (\E t \in TUs : EditSource(t)) \/ UNCHANGED vars
  <2>1. UNCHANGED <<journal, stamp, isolate, deaths, finished, todo, pc, poisoned, Running>>
    BY <1>8 DEF EditHeader, EditSource, vars, runVars, histVars, Running
  <2>2. left'.torn = left.torn
    <3>1. CASE UNCHANGED vars
      BY <3>1 DEF vars
    <3>2. CASE EditHeader
      BY <1>0, <3>2 DEF EditHeader, Budget
    <3>3. CASE \E t \in TUs : EditSource(t)
      BY <1>0, <3>3 DEF EditSource, Budget
    <3>4. QED
      BY <1>8, <3>1, <3>2, <3>3
  <2>3. QED
    BY <2>1, <2>2, WholeKept
<1>9. ASSUME NEW a \in TUs, NEW u \in TUs, TornShard(a, u) PROVE WholeInv'
  <2>1. Running' \subseteq Running
    BY <1>9, TypeTornShard
  <2>2. /\ isolate /\ a \in Running /\ (pc = "analyze" => poisoned' = poisoned)
        /\ journal' = JournaledAfterParse(a) /\ cut' = Cleared(cut, {a})
        /\ deaths' = Cleared(deaths, {a}) /\ finished' = Finished({a})
        /\ UNCHANGED <<pc, isolate, stamp, todo>>
        /\ left' = [left EXCEPT !.faults = @ - 1]
    BY <1>9 DEF TornShard, GiveUpOn, runVars
  <2>3. left'.torn = left.torn
    BY <1>0, <2>2 DEF Budget
  <2>4. QED
    BY <2>1, <2>2, <2>3, WholeCompletion
<1>10. QED
  BY <1>1, <1>2, <1>3, <1>4, <1>5, <1>6, <1>7, <1>8, <1>9 DEF Next, Progress, Environment

\* WholeInv holds in every state.
LEMMA WholeAlways ==
  ASSUME MaxTorn = 0
  PROVE  Spec => []WholeInv
<1>1. Init => WholeInv
  BY WholeInit
<1>2. TypeInv /\ WholeInv /\ [Next]_vars => WholeInv'
  BY WholeStep
<1>3. QED
  BY <1>1, <1>2, TypeAlways, PTL DEF Spec

\* When no append is cut short, a TU whose parse dies takes down at most
\* kMaxAttempts runs, however often files are edited, runs are killed or
\* command lines changed, and whatever mode each run uses.
THEOREM DeathsCorrect ==
  ASSUME MaxTorn = 0
  PROVE  Spec => []DeathsBounded
<1>1. WholeInv => DeathsBounded
  BY DEF WholeInv, DeathsCounted, DeathsBounded
<1>2. QED
  BY <1>1, WholeAlways, PTL

\* When no append is cut short, no task starts that an earlier run has finished
\* and journaled under the same key.
THEOREM FinishedWorkCorrect ==
  ASSUME MaxTorn = 0
  PROVE  Spec => FinishedWorkIsKept
<1>1. ASSUME WholeInv, NEW t \in TUs, StartTask(t)
      PROVE  finished[CurPhase][t] # Key(t)
  <2> SUFFICES ASSUME finished[CurPhase][t] = Key(t) PROVE FALSE
    OBVIOUS
  <2>1. t \in todo /\ pc \in {"index", "analyze"}
    BY <1>1 DEF StartTask
  <2>2. finished[CurPhase][t] # NotYet /\ CurPhase \in Phases
    BY PairNotEmpty, TwoPhases DEF Key, NotYet
  <2>3. <<stamp[t], PhaseHash>> = <<journal.done[CurPhase][t].stamp, journal.done[CurPhase][t].hash>>
    BY <1>1, <2>2 DEF WholeInv, CompletionsOnDisk, Key
  <2>4. QED
    BY <1>1, <2>1, <2>3 DEF WholeInv, CompletionsOnDisk, CurPhase, PhaseHash, Replays1, Replays2
<1>2. WholeInv /\ [Next]_vars => [\A t \in TUs : StartTask(t) => finished[CurPhase][t] # Key(t)]_vars
  BY <1>1
<1>3. QED
  BY <1>2, WholeAlways, PTL DEF Spec, FinishedWorkIsKept
=============================================================================
