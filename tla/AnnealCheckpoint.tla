-------------------------- MODULE AnnealCheckpoint --------------------------
(***************************************************************************)
(* The anneal journal (src/anneal/Checkpoint.cpp) as a value.          *)
(*                                                                         *)
(* The file is a header, the options fingerprint, and the records appended *)
(* so far.  loadRecords folds the records in order into three maps, so the *)
(* value kept here is what it would build from the file: appending a       *)
(* record is reading one more.  A record cut short by a kill fails its     *)
(* length or its checksum, and loadRecords stops there: nothing appended   *)
(* after it is ever read.  Bytes and encodings are abstracted: a stamp is  *)
(* a version number, a hash is the set it hashes (collisions left out).    *)
(***************************************************************************)
EXTENDS Naturals

CONSTANT TUs

kPhaseIndex   == 1
kPhaseAnalyze == 2
Phases        == {kPhaseIndex, kPhaseAnalyze}

\* Attempts after which a TU is considered poisoned and skipped on resume.
kMaxAttempts == 2

NoStamp   == 0                       \* versions start at 1
NoAttempt == [stamp |-> NoStamp, count |-> 0]
NoRecord  == [stamp |-> NoStamp]

PerTu(v) == [p \in Phases |-> [t \in TUs |-> v]]

Fresh(fingerprint) ==
  [fingerprint |-> fingerprint, torn |-> FALSE,
   attempts |-> PerTu(NoAttempt), done |-> PerTu(NoRecord)]

(* Faulty variant: the journal is truncated even when its header matches.    *)
ReopenedTruncated(j, fingerprint) == Fresh(fingerprint)

(* open(): a header with another fingerprint (or none) starts the journal    *)
(* afresh; a matching one is appended to, its unreadable tail included.      *)
Reopened(j, fingerprint) ==
  IF j.fingerprint = fingerprint THEN j ELSE Fresh(fingerprint)

(* Faulty variant: an edited TU keeps its old count.                         *)
CountedAcrossEdits(attempt, s) == [stamp |-> s, count |-> attempt.count + 1]

(* An attempt record: counted while the stamp stays the same.                *)
Counted(attempt, s) ==
  IF attempt.stamp = s THEN [attempt EXCEPT !.count = @ + 1]
                       ELSE [stamp |-> s, count |-> 1]

RecordAttempt(j, p, t, s) ==
  IF j.torn THEN j
  ELSE [j EXCEPT !.attempts[p][t] = Counted(@, s)]

(* A completion record (recordPhase1, recordPhase2): replaces the TU's       *)
(* earlier one and clears its attempt counter for the phase.                 *)
RecordDone(j, p, t, s, h, payload) ==
  IF j.torn THEN j
  ELSE [j EXCEPT !.attempts[p][t] = NoAttempt,
                 !.done[p][t] = [stamp |-> s, hash |-> h, payload |-> payload]]

(* A kill in the middle of an append.                                        *)
CutAppend(j) == [j EXCEPT !.torn = TRUE]

Attempts(j, p, t, s) == IF j.attempts[p][t].stamp = s THEN j.attempts[p][t].count ELSE 0

(* Faulty variant: only the first phase looks at its attempts.               *)
PoisonedInPhase1(j, p, t, s) == p = kPhaseIndex /\ Attempts(j, p, t, s) >= kMaxAttempts

Poisoned(j, p, t, s) == Attempts(j, p, t, s) >= kMaxAttempts

(* Faulty variant: a record is replayed whatever version of the TU it was    *)
(* made from.                                                                *)
ReplaysAnyStamp(j, t, s) == j.done[kPhaseIndex][t] # NoRecord

(* replayPhase1 wants exactly this stamp; replayPhase2 the hash of the       *)
(* contributing set too.                                                     *)
Replays1(j, t, s)    == j.done[kPhaseIndex][t].stamp = s
Replays2(j, t, s, h) == /\ j.done[kPhaseAnalyze][t].stamp = s
                        /\ j.done[kPhaseAnalyze][t].hash = h
=============================================================================
