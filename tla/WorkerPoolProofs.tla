-------------------------- MODULE WorkerPoolProofs --------------------------
(***************************************************************************)
(* Machine-checked proofs about WorkerPool, for every number of files,     *)
(* workers, retries and faults and every batch size.                       *)
(***************************************************************************)
EXTENDS WorkerPool, FiniteSetTheorems, TLAPS

\* Integer division by a positive number, as the batching arithmetic of
\* dispatchIsolated uses it.
LEMMA DivBounds ==
  ASSUME NEW a \in Nat, NEW n \in Nat \ {0}
  PROVE  /\ a \div n \in Nat
         /\ n * (a \div n) <= a
         /\ a < n * (a \div n) + n
OBVIOUS

\* The batch size dispatchIsolated computes is at least one.
LEMMA BatchSizePositive == BatchSize \in Nat \ {0}
<1>1. Cardinality(Threads) \in Nat \ {0}
  BY ThreadsNonEmpty, FS_CardinalityType, FS_EmptySet
<1>2. Cardinality(Threads) * 4 \in Nat \ {0}
  BY <1>1
<1>3. NumFiles \div (Cardinality(Threads) * 4) \in Nat
  BY <1>2, NumFilesNat, DivBounds
<1>4. QED
  BY <1>3, OverrideNat DEF BatchSize, Smaller, Larger

\* The initial work queue is a queue of batches.
LEMMA InitialWorkType == InitialWork \in Seq(Batch)
<1> DEFINE n == (NumFiles + BatchSize - 1) \div BatchSize
<1>1. n \in Nat
  BY BatchSizePositive, NumFilesNat, DivBounds
<1>2. \A i \in 1..n : Slice(i) \in Batch
  BY DEF Slice, Batch
<1>3. [i \in 1..n |-> Slice(i)] \in Seq(Batch)
  BY <1>1, <1>2
<1>4. QED
  BY <1>3 DEF InitialWork

-----------------------------------------------------------------------------
\* AddOne keeps the type of the per-TU counters.
LEMMA AddOneType ==
  ASSUME NEW f \in [TUs -> Nat], NEW S
  PROVE  AddOne(f, S) \in [TUs -> Nat]
BY DEF AddOne

\* Halves of a batch are batches.
LEMMA LowerHalfSubset == ASSUME NEW b PROVE LowerHalf(b) \subseteq b
BY DEF LowerHalf

\* handleFailure re-dispatches batches of TUs.
LEMMA RebatchedType ==
  ASSUME NEW r \in Result
  PROVE  Rebatched(r) \in Seq(Batch)
<1>1. r.tus \in Batch
  BY DEF Result
<1>2. r.tus \ {r.marker} \in Batch
  BY <1>1 DEF Batch
<1>3. LowerHalf(r.tus) \in Batch /\ r.tus \ LowerHalf(r.tus) \in Batch
  BY <1>1, LowerHalfSubset DEF Batch
<1>4. QED
  BY <1>2, <1>3 DEF Rebatched

\* A result put together by Report is a Result.
LEMMA ReportType ==
  ASSUME TypeOK, NEW t \in Threads, NEW e \in BOOLEAN, NEW s \in BOOLEAN,
         NEW m \in TUs \cup {0}, Report(t, e, s, m)
  PROVE  /\ results' \in Seq(Result)
         /\ batchOf' \in [Threads -> Batch]
         /\ tpc' \in [Threads -> {"ready", "asleep", "running", "reporting",
                                  "exited"}]
         /\ UNCHANGED <<work, stop, outstanding, parentVars, crashers>>
<1>1. [tus |-> batchOf[t], exitOk |-> e, shardOk |-> s, marker |-> m] \in Result
  BY DEF TypeOK, Result
<1>2. {} \in Batch
  BY DEF Batch
<1>3. QED
  BY <1>1, <1>2 DEF TypeOK, Report

\* The type invariant of the dispatcher.
THEOREM TypeCorrect == Spec => []TypeOK
<1>1. Init => TypeOK
  <2>1. {} \in Batch
    BY DEF Batch
  <2>2. NoResult \in Result
    BY <2>1 DEF NoResult, Result
  <2>3. Len(InitialWork) \in Nat
    BY InitialWorkType
  <2>4. ASSUME Init
        PROVE  /\ work \in Seq(Batch) /\ results \in Seq(Result)
               /\ todo \in Seq(Batch) /\ outstanding \in Nat
    BY <2>3, <2>4, InitialWorkType DEF Init
  <2>5. ASSUME Init
        PROVE  /\ stop \in BOOLEAN /\ cur \in Result
               /\ tpc \in [Threads -> {"ready", "asleep", "running",
                                       "reporting", "exited"}]
               /\ batchOf \in [Threads -> Batch]
               /\ ppc \in {"ready", "asleep", "consuming", "failed",
                           "requeueing", "notifying", "stopping", "joining",
                           "done"}
    BY <2>1, <2>2, <2>5 DEF Init
  <2>6. ASSUME Init
        PROVE  /\ retries \in [TUs -> Nat] /\ absorbed \in [TUs -> Nat]
               /\ poisoned \in [TUs -> Nat]
               /\ crashers \in SUBSET TUs /\ faults \in Nat
    BY <2>6 DEF Init
  <2>7. QED
    BY <2>4, <2>5, <2>6 DEF TypeOK
<1>2. TypeOK /\ [Next]_vars => TypeOK'
  <2> SUFFICES ASSUME TypeOK, [Next]_vars PROVE TypeOK'
    OBVIOUS
  <2>1. ASSUME NEW t \in Threads, Thread(t) PROVE TypeOK'
    <3>1. CASE TakeBatch(t)
      <4>1. Head(work) \in Batch /\ Tail(work) \in Seq(Batch)
        BY <3>1 DEF TakeBatch, TypeOK
      <4>2. QED
        BY <3>1, <4>1 DEF TakeBatch, TypeOK, parentVars, envVars
    <3>2. CASE SleepForWork(t) \/ ExitThread(t)
      BY <3>2 DEF SleepForWork, ExitThread, TypeOK, poolVars, parentVars, envVars
    <3>3. CASE WorkerSucceeds(t)
      <4>1. PICK x \in batchOf[t] : Report(t, TRUE, TRUE, x)
        BY <3>3 DEF WorkerSucceeds
      <4>2. x \in TUs \cup {0}
        BY <4>1 DEF TypeOK, Batch
      <4>3. QED
        BY <3>3, <4>1, <4>2, ReportType DEF WorkerSucceeds, TypeOK, parentVars
    <3>4. CASE WorkerCrashes(t)
      <4>1. PICK x \in batchOf[t] : Report(t, FALSE, FALSE, x)
        BY <3>4 DEF WorkerCrashes
      <4>2. x \in TUs \cup {0}
        BY <4>1 DEF TypeOK, Batch
      <4>3. QED
        BY <3>4, <4>1, <4>2, ReportType DEF WorkerCrashes, TypeOK, parentVars
    <3>5. CASE WorkerFaults(t)
      <4>1. PICK e \in BOOLEAN, s \in BOOLEAN, x \in TUs \cup {0} :
               Report(t, e, s, x)
        BY <3>5 DEF WorkerFaults, TypeOK, Batch
      <4>2. faults' \in Nat
        BY <3>5 DEF WorkerFaults, TypeOK
      <4>3. QED
        BY <4>1, <4>2, ReportType DEF TypeOK, parentVars
    <3>6. CASE NotifyResult(t)
      BY <3>6 DEF NotifyResult, TypeOK, poolVars, envVars
    <3>7. QED
      BY <2>1, <3>1, <3>2, <3>3, <3>4, <3>5, <3>6 DEF Thread
  <2>2. ASSUME Parent PROVE TypeOK'
    <3>1. CASE SleepForResult \/ NextResult \/ StopThreads \/ NotifyAll \/ Join
      BY <3>1 DEF SleepForResult, NextResult, StopThreads, NotifyAll, Join,
                  TypeOK, poolVars, threadVars, envVars
    <3>2. CASE TakeResult
      <4>1. Head(results) \in Result /\ Tail(results) \in Seq(Result)
        BY <3>2 DEF TakeResult, TypeOK
      <4>2. outstanding - 1 \in Nat
        BY <3>2 DEF TakeResult, TypeOK
      <4>3. QED
        BY <3>2, <4>1, <4>2 DEF TakeResult, TypeOK, threadVars, envVars
    <3>3. CASE ConsumeShard
      <4>1. NoResult \in Result
        BY DEF NoResult, Result, Batch
      <4>2. AddOne(absorbed, cur.tus) \in [TUs -> Nat]
        BY AddOneType DEF TypeOK
      <4>3. QED
        BY <3>3, <4>1, <4>2 DEF ConsumeShard, TypeOK, poolVars, threadVars,
                                envVars
    <3>4. CASE HandleFailure
      <4>1. NoResult \in Result
        BY DEF NoResult, Result, Batch
      <4>2. AddOne(poisoned, Blamed(cur)) \in [TUs -> Nat]
        BY AddOneType DEF TypeOK
      <4>3. Rebatched(cur) \in Seq(Batch)
        BY RebatchedType DEF TypeOK
      <4>4. QED
        BY <3>4, <4>1, <4>2, <4>3 DEF HandleFailure, TypeOK, poolVars,
                                      threadVars, envVars
    <3>5. CASE Requeue
      <4> DEFINE b    == Head(todo)
                 kept == {tu \in b : ~Exhausted(tu)}
      <4>1. b \in Batch /\ Tail(todo) \in Seq(Batch)
        BY <3>5 DEF Requeue, TypeOK
      <4>2. kept \in Batch
        BY <4>1 DEF Batch
      <4>3. Append(work, kept) \in Seq(Batch)
        BY <4>2 DEF TypeOK
      <4>4. AddOne(retries, b) \in [TUs -> Nat]
        BY AddOneType DEF TypeOK
      <4>5. AddOne(poisoned, b \ kept) \in [TUs -> Nat]
        BY AddOneType DEF TypeOK
      <4>6. /\ retries' = AddOne(retries, b)
            /\ poisoned' = AddOne(poisoned, b \ kept)
            /\ todo' = Tail(todo)
            /\ work' = work \/ work' = Append(work, kept)
            /\ outstanding' = outstanding \/ outstanding' = outstanding + 1
            /\ ppc' = ppc \/ ppc' = "notifying"
            /\ UNCHANGED <<results, stop, threadVars, cur, absorbed, envVars>>
        BY <3>5 DEF Requeue
      <4> HIDE DEF b, kept
      <4>7. work' \in Seq(Batch) /\ outstanding' \in Nat
        <5>1. work' \in Seq(Batch)
          BY <4>3, <4>6 DEF TypeOK
        <5>2. outstanding' \in Nat
          BY <4>6 DEF TypeOK
        <5>3. QED
          BY <5>1, <5>2
      <4>8. /\ retries' \in [TUs -> Nat] /\ poisoned' \in [TUs -> Nat]
            /\ todo' \in Seq(Batch)
        BY <4>1, <4>4, <4>5, <4>6
      <4>9. /\ ppc' = ppc \/ ppc' = "notifying"
            /\ results' = results /\ stop' = stop /\ tpc' = tpc
            /\ batchOf' = batchOf /\ cur' = cur /\ absorbed' = absorbed
            /\ crashers' = crashers /\ faults' = faults
        BY <4>6 DEF threadVars, envVars
      <4>10. QED
        BY <4>7, <4>8, <4>9 DEF TypeOK
    <3>6. CASE NotifyWork
      BY <3>6 DEF NotifyWork, TypeOK, poolVars, envVars
    <3>7. QED
      BY <2>2, <3>1, <3>2, <3>3, <3>4, <3>5, <3>6 DEF Parent
  <2>3. CASE Spurious
    BY <2>3 DEF Spurious, SpuriousWakeup, TypeOK, poolVars, envVars
  <2>4. CASE UNCHANGED vars
    BY <2>4 DEF vars, poolVars, threadVars, parentVars, envVars, TypeOK
  <2>5. QED
    BY <2>1, <2>2, <2>3, <2>4 DEF Next, Terminated
<1>3. QED
  BY <1>1, <1>2, PTL DEF Spec

-----------------------------------------------------------------------------
(* The inductive invariant.  Conserved and OutstandingExact are inductive   *)
(* together with the control-flow facts of Shape: a hand that is not busy   *)
(* is empty, and the parent only leaves its loop when nothing is            *)
(* outstanding.                                                             *)

\* The parent has left its loop.
Leaving == ppc \in {"stopping", "joining", "done"}

\* What the control flow says of hands and queues.
Shape ==
  /\ \A t \in Threads : tpc[t] # "running" => batchOf[t] = {}
  /\ ppc \notin {"consuming", "failed"} => cur.tus = {}
  /\ ppc \notin {"requeueing", "notifying"} => todo = <<>>
  /\ Leaving => outstanding = 0
  /\ ppc = "done" => \A t \in Threads : tpc[t] = "exited"

\* tu is in the batch at index i of the container k.
At(k, i, tu) ==
  \/ k = "work" /\ i \in DOMAIN work /\ tu \in work[i]
  \/ k = "thread" /\ i \in Threads /\ tu \in batchOf[i]
  \/ k = "results" /\ i \in DOMAIN results /\ tu \in results[i].tus
  \/ k = "cur" /\ i = 0 /\ tu \in cur.tus
  \/ k = "todo" /\ i \in DOMAIN todo /\ tu \in todo[i]

\* How often tu has been settled.
Settled(tu) == absorbed[tu] + poisoned[tu]

\* Conserved for one TU, in terms of At.
Kept(tu) ==
  /\ Settled(tu) \in {0, 1}
  /\ Settled(tu) = 0 => \E k, i : At(k, i, tu)
  /\ Settled(tu) = 1 => \A k, i : ~At(k, i, tu)
  /\ \A k1, i1, k2, i2 :
        At(k1, i1, tu) /\ At(k2, i2, tu) => k1 = k2 /\ i1 = i2

\* Conserved, TU by TU.
AllKept == \A tu \in TUs : Kept(tu)

\* The inductive invariant.
IInv == TypeOK /\ Shape /\ AllKept /\ OutstandingExact

\* Popping the front of a queue.
LEMMA TailFacts ==
  ASSUME NEW S, NEW s \in Seq(S), s # <<>>
  PROVE  /\ Head(s) = s[1] /\ 1 \in DOMAIN s
         /\ Len(s) \in Nat /\ Len(s) > 0
         /\ Len(Tail(s)) = Len(s) - 1
         /\ DOMAIN s = 1..Len(s) /\ DOMAIN Tail(s) = 1..(Len(s) - 1)
         /\ \A i \in 1..(Len(s) - 1) : Tail(s)[i] = s[i + 1]
OBVIOUS

\* Pushing to the back of a queue.
LEMMA AppendFacts ==
  ASSUME NEW S, NEW s \in Seq(S), NEW e \in S
  PROVE  /\ Len(s) \in Nat
         /\ Len(Append(s, e)) = Len(s) + 1
         /\ DOMAIN s = 1..Len(s) /\ DOMAIN Append(s, e) = 1..(Len(s) + 1)
         /\ Append(s, e)[Len(s) + 1] = e
         /\ \A i \in 1..Len(s) : Append(s, e)[i] = s[i]
OBVIOUS

\* A dispatch thread pops a batch: the TUs of the front of `work` are now in
\* the hands of the thread.
LEMMA TakeBatchKeeps ==
  ASSUME TypeOK, Shape, NEW t \in Threads, TakeBatch(t),
         NEW tu \in TUs, Kept(tu)
  PROVE  Kept(tu)'
<1>1. /\ work \in Seq(Batch) /\ work # <<>> /\ work' = Tail(work)
      /\ batchOf' = [batchOf EXCEPT ![t] = Head(work)]
      /\ batchOf \in [Threads -> Batch] /\ batchOf[t] = {}
      /\ results' = results /\ cur' = cur /\ todo' = todo
      /\ absorbed' = absorbed /\ poisoned' = poisoned
  BY DEF TypeOK, Shape, TakeBatch, parentVars
<1>2. /\ Head(work) = work[1] /\ 1 \in DOMAIN work
      /\ Len(work) \in Nat /\ DOMAIN work = 1..Len(work)
      /\ DOMAIN work' = 1..(Len(work) - 1)
      /\ \A i \in 1..(Len(work) - 1) : work'[i] = work[i + 1]
  BY <1>1, TailFacts
<1>3. \A k, i : At(k, i, tu)' <=>
         \/ k = "work" /\ i \in Nat \ {0} /\ At("work", i + 1, tu)
         \/ k = "thread" /\ i = t /\ At("work", 1, tu)
         \/ k \notin {"work"} /\ ~(k = "thread" /\ i = t) /\ At(k, i, tu)
  BY <1>1, <1>2 DEF At
<1>4. ~At("thread", t, tu)
  BY <1>1 DEF At
<1>5. \A i : At("work", i, tu) => i = 1 \/ (i - 1 \in Nat \ {0} /\ (i - 1) + 1 = i)
  BY <1>2 DEF At
<1>6. Settled(tu)' = Settled(tu)
  BY <1>1 DEF Settled
<1>7. Settled(tu) = 0 => \E k, i : At(k, i, tu)'
  BY <1>3, <1>4, <1>5 DEF Kept
<1>8. \A k, i : At(k, i, tu)' => \E k0, i0 : At(k0, i0, tu)
  BY <1>3
<1>9. \A k1, i1, k2, i2 : At(k1, i1, tu)' /\ At(k2, i2, tu)' => k1 = k2 /\ i1 = i2
  BY <1>3, <1>4, <1>5 DEF Kept
<1>10. QED
  BY <1>6, <1>7, <1>8, <1>9 DEF Kept

\* A dispatch thread pushes its result: its TUs are now at the back of
\* `results`.
LEMMA ReportKeeps ==
  ASSUME TypeOK, NEW t \in Threads, NEW e \in BOOLEAN, NEW s \in BOOLEAN,
         NEW m \in TUs \cup {0}, Report(t, e, s, m),
         NEW tu \in TUs, Kept(tu)
  PROVE  Kept(tu)'
<1> DEFINE r == [tus |-> batchOf[t], exitOk |-> e, shardOk |-> s, marker |-> m]
           n == Len(results)
<1>1. /\ results \in Seq(Result) /\ r \in Result
      /\ results' = Append(results, r)
      /\ batchOf' = [batchOf EXCEPT ![t] = {}]
      /\ batchOf \in [Threads -> Batch]
      /\ work' = work /\ cur' = cur /\ todo' = todo
      /\ absorbed' = absorbed /\ poisoned' = poisoned
  BY DEF TypeOK, Report, parentVars, Result
<1>2. /\ n \in Nat /\ DOMAIN results = 1..n
      /\ DOMAIN results' = 1..(n + 1)
      /\ results'[n + 1].tus = batchOf[t]
      /\ \A i \in 1..n : results'[i] = results[i]
  BY <1>1, AppendFacts
<1> HIDE DEF r, n
<1>3. \A k, i : At(k, i, tu)' <=>
         \/ k = "results" /\ i = n + 1 /\ At("thread", t, tu)
         \/ ~(k = "thread" /\ i = t) /\ At(k, i, tu)
  BY <1>1, <1>2 DEF At
<1>4. ~At("results", n + 1, tu)
  BY <1>2 DEF At
<1>5. Settled(tu)' = Settled(tu)
  BY <1>1 DEF Settled
<1>6. Settled(tu) = 0 => \E k, i : At(k, i, tu)'
  BY <1>3 DEF Kept
<1>7. \A k, i : At(k, i, tu)' => \E k0, i0 : At(k0, i0, tu)
  BY <1>3
<1>8. \A k1, i1, k2, i2 : At(k1, i1, tu)' /\ At(k2, i2, tu)' => k1 = k2 /\ i1 = i2
  BY <1>3, <1>4 DEF Kept
<1>9. QED
  BY <1>5, <1>6, <1>7, <1>8 DEF Kept

\* The parent pops a result.
LEMMA TakeResultKeeps ==
  ASSUME TypeOK, Shape, TakeResult, NEW tu \in TUs, Kept(tu)
  PROVE  Kept(tu)'
<1>1. /\ results \in Seq(Result) /\ results # <<>> /\ results' = Tail(results)
      /\ cur' = Head(results) /\ cur.tus = {}
      /\ work' = work /\ batchOf' = batchOf /\ todo' = todo
      /\ absorbed' = absorbed /\ poisoned' = poisoned
  BY DEF TypeOK, Shape, TakeResult, threadVars
<1>2. /\ Head(results) = results[1] /\ 1 \in DOMAIN results
      /\ Len(results) \in Nat /\ DOMAIN results = 1..Len(results)
      /\ DOMAIN results' = 1..(Len(results) - 1)
      /\ \A i \in 1..(Len(results) - 1) : results'[i] = results[i + 1]
  BY <1>1, TailFacts
<1>3. \A k, i : At(k, i, tu)' <=>
         \/ k = "results" /\ i \in Nat \ {0} /\ At("results", i + 1, tu)
         \/ k = "cur" /\ i = 0 /\ At("results", 1, tu)
         \/ k \notin {"results", "cur"} /\ At(k, i, tu)
  BY <1>1, <1>2 DEF At
<1>4. \A i : ~At("cur", i, tu)
  BY <1>1 DEF At
<1>5. \A i : At("results", i, tu) => i = 1 \/ (i - 1 \in Nat \ {0} /\ (i - 1) + 1 = i)
  BY <1>2 DEF At
<1>6. Settled(tu)' = Settled(tu)
  BY <1>1 DEF Settled
<1>7. Settled(tu) = 0 => \E k, i : At(k, i, tu)'
  BY <1>3, <1>4, <1>5 DEF Kept
<1>8. \A k, i : At(k, i, tu)' => \E k0, i0 : At(k0, i0, tu)
  BY <1>3
<1>9. \A k1, i1, k2, i2 : At(k1, i1, tu)' /\ At(k2, i2, tu)' => k1 = k2 /\ i1 = i2
  BY <1>3, <1>4, <1>5 DEF Kept
<1>10. QED
  BY <1>6, <1>7, <1>8, <1>9 DEF Kept

\* The parent absorbs a shard, or finds it unreadable.
LEMMA ConsumeShardKeeps ==
  ASSUME TypeOK, ConsumeShard, NEW tu \in TUs, Kept(tu)
  PROVE  Kept(tu)'
<1>1. /\ work' = work /\ batchOf' = batchOf /\ results' = results
      /\ todo' = todo /\ poisoned' = poisoned
      /\ absorbed \in [TUs -> Nat] /\ poisoned \in [TUs -> Nat]
  BY DEF TypeOK, ConsumeShard, poolVars, threadVars
<1>2. CASE absorbed' = absorbed /\ cur' = cur
  <2>1. \A k, i : At(k, i, tu)' <=> At(k, i, tu)
    BY <1>1, <1>2 DEF At
  <2>2. QED
    BY <1>1, <1>2, <2>1 DEF Kept, Settled
<1>3. CASE absorbed' = AddOne(absorbed, cur.tus) /\ cur' = NoResult
  <2>1. \A k, i : At(k, i, tu)' <=> k # "cur" /\ At(k, i, tu)
    BY <1>1, <1>3 DEF At, NoResult
  <2>2. Settled(tu)' = IF At("cur", 0, tu) THEN Settled(tu) + 1 ELSE Settled(tu)
    BY <1>1, <1>3 DEF At, AddOne, Settled
  <2>3. \A i : At("cur", i, tu) => i = 0
    BY DEF At
  <2>4. CASE At("cur", 0, tu)
    <3>1. Settled(tu) = 0 /\ \A k, i : At(k, i, tu) => k = "cur"
      BY <2>4 DEF Kept
    <3>2. Settled(tu)' = 1 /\ \A k, i : ~At(k, i, tu)'
      BY <3>1, <2>1, <2>2, <2>4
    <3>3. QED
      BY <3>2 DEF Kept
  <2>5. CASE ~At("cur", 0, tu)
    <3>1. \A k, i : At(k, i, tu)' <=> At(k, i, tu)
      BY <2>1, <2>3, <2>5
    <3>2. Settled(tu)' = Settled(tu)
      BY <2>2, <2>5
    <3>3. QED
      BY <3>1, <3>2 DEF Kept
  <2>6. QED
    BY <2>4, <2>5
<1>4. QED
  BY <1>2, <1>3 DEF ConsumeShard

\* handleFailure partitions the failed batch: the blamed TUs on one side, the
\* batches it re-dispatches on the other.
LEMMA FailurePartition ==
  ASSUME NEW r \in Result, NEW tu \in r.tus
  PROVE  /\ tu \in Blamed(r) => \A i \in DOMAIN Rebatched(r) : tu \notin Rebatched(r)[i]
         /\ tu \notin Blamed(r) =>
              \E i \in DOMAIN Rebatched(r) :
                 /\ tu \in Rebatched(r)[i]
                 /\ \A j \in DOMAIN Rebatched(r) : tu \in Rebatched(r)[j] => j = i
<1>1. CASE MarkerInBatch(r)
  <2>1. Rebatched(r) = <<r.tus \ {r.marker}>> /\ Blamed(r) = {r.marker}
    BY <1>1 DEF Rebatched, Blamed
  <2>2. DOMAIN Rebatched(r) = {1} /\ Rebatched(r)[1] = r.tus \ {r.marker}
    BY <2>1
  <2>3. QED
    BY <2>1, <2>2
<1>2. CASE ~MarkerInBatch(r) /\ Single(r.tus)
  BY <1>2 DEF Rebatched, Blamed
<1>3. CASE ~MarkerInBatch(r) /\ ~Single(r.tus)
  <2>1. /\ Rebatched(r) = <<LowerHalf(r.tus), r.tus \ LowerHalf(r.tus)>>
        /\ Blamed(r) = {}
    BY <1>3 DEF Rebatched, Blamed
  <2> HIDE DEF LowerHalf
  <2>2. /\ DOMAIN Rebatched(r) = {1, 2}
        /\ Rebatched(r)[1] = LowerHalf(r.tus)
        /\ Rebatched(r)[2] = r.tus \ LowerHalf(r.tus)
    BY <2>1
  <2>3. QED
    BY <2>1, <2>2
<1>4. QED
  BY <1>1, <1>2, <1>3

\* No batch handleFailure re-dispatches holds a TU the failed one did not.
LEMMA RebatchedSubset ==
  ASSUME NEW r \in Result, NEW i \in DOMAIN Rebatched(r)
  PROVE  Rebatched(r)[i] \subseteq r.tus
BY LowerHalfSubset DEF Rebatched

\* The parent handles a failed batch.
LEMMA HandleFailureKeeps ==
  ASSUME TypeOK, Shape, HandleFailure, NEW tu \in TUs, Kept(tu)
  PROVE  Kept(tu)'
<1>1. /\ work' = work /\ batchOf' = batchOf /\ results' = results
      /\ absorbed' = absorbed /\ todo = <<>> /\ todo' = Rebatched(cur)
      /\ cur' = NoResult /\ cur \in Result
      /\ poisoned' = AddOne(poisoned, Blamed(cur))
      /\ absorbed \in [TUs -> Nat] /\ poisoned \in [TUs -> Nat]
  BY DEF TypeOK, Shape, HandleFailure, poolVars, threadVars
<1>2. Blamed(cur) \subseteq cur.tus
  BY DEF Blamed, MarkerInBatch
<1>3. /\ \A i : At("cur", i, tu) <=> i = 0 /\ tu \in cur.tus
      /\ \A i : ~At("todo", i, tu)
      /\ \A i : ~At("cur", i, tu)'
      /\ \A i : At("todo", i, tu)' <=>
                   i \in DOMAIN Rebatched(cur) /\ tu \in Rebatched(cur)[i]
      /\ \A k, i : k \notin {"cur", "todo"} => (At(k, i, tu)' <=> At(k, i, tu))
      /\ \A k, i : At(k, i, tu)' => k # "cur"
  BY <1>1 DEF At, NoResult
<1>4. Settled(tu)' = IF tu \in Blamed(cur) THEN Settled(tu) + 1 ELSE Settled(tu)
  BY <1>1 DEF AddOne, Settled
<1>5. CASE tu \in cur.tus
  <2>1. Settled(tu) = 0 /\ \A k, i : At(k, i, tu) => k = "cur" /\ i = 0
    BY <1>5, <1>3 DEF Kept
  <2>2. CASE tu \in Blamed(cur)
    <3>1. Settled(tu)' = 1
      BY <1>4, <2>1, <2>2
    <3>2. \A k, i : ~At(k, i, tu)'
      BY <1>1, <1>3, <1>5, <2>1, <2>2, FailurePartition
    <3>3. QED
      BY <3>1, <3>2 DEF Kept
  <2>3. CASE tu \notin Blamed(cur)
    <3>1. Settled(tu)' = 0
      BY <1>4, <2>1, <2>3
    <3>2. PICK i0 \in DOMAIN Rebatched(cur) :
             /\ tu \in Rebatched(cur)[i0]
             /\ \A j \in DOMAIN Rebatched(cur) : tu \in Rebatched(cur)[j] => j = i0
      BY <1>1, <1>5, <2>3, FailurePartition
    <3>3. \A k, i : At(k, i, tu)' <=> k = "todo" /\ i = i0
      BY <1>3, <2>1, <3>2
    <3>4. QED
      BY <3>1, <3>3 DEF Kept
  <2>4. QED
    BY <2>2, <2>3
<1>6. CASE tu \notin cur.tus
  <2>1. \A k, i : At(k, i, tu)' <=> At(k, i, tu)
    BY <1>1, <1>3, <1>6, RebatchedSubset
  <2>2. Settled(tu)' = Settled(tu)
    BY <1>2, <1>4, <1>6
  <2>3. QED
    BY <2>1, <2>2 DEF Kept
<1>7. QED
  BY <1>5, <1>6

\* The parent requeues what is left of a failed batch, dropping the TUs whose
\* retries are used up.
LEMMA RequeueKeeps ==
  ASSUME TypeOK, Requeue, NEW tu \in TUs, Kept(tu)
  PROVE  Kept(tu)'
<1> DEFINE b    == Head(todo)
           kept == {x \in b : ~Exhausted(x)}
           n    == Len(work)
<1>1. /\ todo \in Seq(Batch) /\ todo # <<>> /\ todo' = Tail(todo)
      /\ work \in Seq(Batch) /\ kept \in Batch
      /\ kept = {} => work' = work
      /\ kept # {} => work' = Append(work, kept)
      /\ poisoned' = AddOne(poisoned, b \ kept)
      /\ batchOf' = batchOf /\ results' = results /\ cur' = cur
      /\ absorbed' = absorbed
      /\ absorbed \in [TUs -> Nat] /\ poisoned \in [TUs -> Nat]
  <2>1. /\ todo \in Seq(Batch) /\ work \in Seq(Batch)
        /\ absorbed \in [TUs -> Nat] /\ poisoned \in [TUs -> Nat]
    BY DEF TypeOK
  <2>2. todo # <<>> /\ todo' = Tail(todo)
    BY DEF Requeue
  <2>3. b \in Batch
    BY <2>1, <2>2
  <2>4. kept \in Batch
    BY <2>3 DEF Batch
  <2>5. QED
    BY <2>1, <2>2, <2>4 DEF Requeue, threadVars
<1>2. /\ b = todo[1] /\ 1 \in DOMAIN todo
      /\ Len(todo) \in Nat /\ DOMAIN todo = 1..Len(todo)
      /\ DOMAIN todo' = 1..(Len(todo) - 1)
      /\ \A i \in 1..(Len(todo) - 1) : todo'[i] = todo[i + 1]
  BY <1>1, TailFacts
<1>3. kept \subseteq b
  OBVIOUS
<1> HIDE DEF b, kept
<1>4. /\ n \in Nat /\ DOMAIN work = 1..n
      /\ \A i : i \in DOMAIN work' /\ tu \in work'[i] <=>
                   \/ i \in 1..n /\ tu \in work[i]
                   \/ i = n + 1 /\ tu \in kept
  <2>1. n \in Nat /\ DOMAIN work = 1..n
    BY <1>1
  <2>2. CASE kept = {}
    BY <2>1, <2>2, <1>1
  <2>3. CASE kept # {}
    <3>1. work' = Append(work, kept) /\ work \in Seq(Batch) /\ kept \in Batch
      BY <1>1, <2>3
    <3>2. /\ DOMAIN work' = 1..(n + 1) /\ work'[n + 1] = kept
          /\ \A i \in 1..n : work'[i] = work[i]
      BY <3>1, AppendFacts
    <3>3. QED
      BY <2>1, <3>2
  <2>4. QED
    BY <2>1, <2>2, <2>3
<1> HIDE DEF n
<1>5. \A k, i : At(k, i, tu)' <=>
         \/ k = "work" /\ i = n + 1 /\ At("todo", 1, tu) /\ tu \in kept
         \/ k = "todo" /\ i \in Nat \ {0} /\ At("todo", i + 1, tu)
         \/ k # "todo" /\ At(k, i, tu)
  BY <1>1, <1>2, <1>3, <1>4 DEF At
<1>6. /\ ~At("work", n + 1, tu)
      /\ At("todo", 1, tu) <=> tu \in b
      /\ \A i : At("todo", i, tu) => i = 1 \/ (i - 1 \in Nat \ {0} /\ (i - 1) + 1 = i)
  BY <1>2, <1>4 DEF At
<1>7. Settled(tu)' = IF tu \in b \ kept THEN Settled(tu) + 1 ELSE Settled(tu)
  BY <1>1 DEF AddOne, Settled
<1>8. CASE tu \in b \ kept
  <2>1. Settled(tu) = 0 /\ \A k, i : At(k, i, tu) => k = "todo" /\ i = 1
    BY <1>8, <1>6 DEF Kept
  <2>2. Settled(tu)' = 1 /\ \A k, i : ~At(k, i, tu)'
    <3>1. Settled(tu)' = 1
      BY <2>1, <1>7, <1>8
    <3>2. \A i : ~At("todo", i + 1, tu) \/ i \notin Nat \ {0}
      BY <2>1
    <3>3. QED
      BY <3>1, <3>2, <2>1, <1>5, <1>8
  <2>3. QED
    BY <2>2 DEF Kept
<1>9. CASE tu \notin b \ kept
  <2>1. Settled(tu)' = Settled(tu)
    BY <1>7, <1>9
  <2>2. ASSUME Settled(tu) = 0 PROVE \E k, i : At(k, i, tu)'
    <3>1. PICK k0, i0 : At(k0, i0, tu)
      BY <2>2 DEF Kept
    <3>2. CASE k0 # "todo"
      BY <3>1, <3>2, <1>5
    <3>3. CASE k0 = "todo" /\ i0 = 1
      BY <3>1, <3>3, <1>5, <1>6, <1>9
    <3>4. CASE k0 = "todo" /\ i0 # 1
      <4>1. i0 - 1 \in Nat \ {0} /\ (i0 - 1) + 1 = i0
        BY <3>1, <3>4, <1>6
      <4>2. At("todo", i0 - 1, tu)'
        BY <3>1, <3>4, <4>1, <1>5
      <4>3. QED
        BY <4>2
    <3>5. QED
      BY <3>2, <3>3, <3>4
  <2>3. \A k, i : At(k, i, tu)' => \E k0, i0 : At(k0, i0, tu)
    BY <1>5
  <2>4. \A k1, i1, k2, i2 : At(k1, i1, tu)' /\ At(k2, i2, tu)' => k1 = k2 /\ i1 = i2
    BY <1>5, <1>6 DEF Kept
  <2>5. QED
    BY <2>1, <2>2, <2>3, <2>4 DEF Kept
<1>10. QED
  BY <1>8, <1>9

\* Steps that move no batch and settle no TU.
LEMMA IdleKeeps ==
  ASSUME UNCHANGED <<work, batchOf, results, cur, todo, absorbed, poisoned>>,
         NEW tu \in TUs, Kept(tu)
  PROVE  Kept(tu)'
<1>1. \A k, i : At(k, i, tu)' <=> At(k, i, tu)
  BY DEF At
<1>2. Settled(tu)' = Settled(tu)
  BY DEF Settled
<1>3. QED
  BY <1>1, <1>2 DEF Kept

\* Every step of the dispatcher keeps every TU.
LEMMA NextKeeps ==
  ASSUME TypeOK, Shape, AllKept, [Next]_vars
  PROVE  AllKept'
<1> SUFFICES ASSUME NEW tu \in TUs PROVE Kept(tu)'
  BY DEF AllKept
<1>1. Kept(tu)
  BY DEF AllKept
<1>2. ASSUME NEW t \in Threads, Thread(t) PROVE Kept(tu)'
  <2>1. CASE TakeBatch(t)
    BY <1>1, <2>1, TakeBatchKeeps
  <2>2. CASE SleepForWork(t) \/ ExitThread(t) \/ NotifyResult(t)
    BY <1>1, <2>2, IdleKeeps DEF SleepForWork, ExitThread, NotifyResult,
                                 poolVars, parentVars
  <2>3. CASE WorkerSucceeds(t) \/ WorkerCrashes(t) \/ WorkerFaults(t)
    <3>1. PICK e \in BOOLEAN, s \in BOOLEAN, m \in TUs \cup {0} :
             Report(t, e, s, m)
      BY <2>3 DEF WorkerSucceeds, WorkerCrashes, WorkerFaults, TypeOK, Batch
    <3>2. QED
      BY <1>1, <3>1, ReportKeeps
  <2>4. QED
    BY <1>2, <2>1, <2>2, <2>3 DEF Thread
<1>3. ASSUME Parent PROVE Kept(tu)'
  <2>1. CASE SleepForResult \/ NotifyWork \/ NextResult \/ StopThreads
             \/ NotifyAll \/ Join
    BY <1>1, <2>1, IdleKeeps DEF SleepForResult, NotifyWork, NextResult,
                                 StopThreads, NotifyAll, Join, poolVars,
                                 threadVars
  <2>2. CASE TakeResult
    BY <1>1, <2>2, TakeResultKeeps
  <2>3. CASE ConsumeShard
    BY <1>1, <2>3, ConsumeShardKeeps
  <2>4. CASE HandleFailure
    BY <1>1, <2>4, HandleFailureKeeps
  <2>5. CASE Requeue
    BY <1>1, <2>5, RequeueKeeps
  <2>6. QED
    BY <1>3, <2>1, <2>2, <2>3, <2>4, <2>5 DEF Parent
<1>4. CASE Spurious \/ Terminated \/ UNCHANGED vars
  BY <1>1, <1>4, IdleKeeps DEF Spurious, Terminated, vars, poolVars, threadVars,
                               parentVars
<1>5. QED
  BY <1>2, <1>3, <1>4 DEF Next

\* The slices of `files` are a partition of it.
LEMMA SlicePartition ==
  ASSUME NEW tu \in TUs
  PROVE  \E i \in DOMAIN InitialWork :
            /\ tu \in InitialWork[i]
            /\ \A j \in DOMAIN InitialWork : tu \in InitialWork[j] => j = i
<1> DEFINE B == BatchSize
           i == ((tu - 1) \div B) + 1
           n == (NumFiles + B - 1) \div B
<1>1. B \in Nat \ {0} /\ NumFiles \in Nat /\ tu \in Nat \ {0} /\ tu <= NumFiles
  BY BatchSizePositive, NumFilesNat DEF TUs
<1> HIDE DEF B
<1>2. /\ i \in Nat \ {0} /\ B * (i - 1) <= tu - 1 /\ tu - 1 < B * (i - 1) + B
  BY <1>1, DivBounds
<1>3. n \in Nat /\ NumFiles + B - 1 < B * n + B
  BY <1>1, DivBounds
<1> HIDE DEF i, n
<1>4. i <= n
  <2>1. SUFFICES ASSUME n < i PROVE FALSE
    BY <1>2, <1>3
  <2>2. n <= i - 1
    BY <1>2, <1>3, <2>1
  <2>3. B * n <= B * (i - 1)
    BY <1>1, <1>2, <1>3, <2>2
  <2>4. QED
    BY <1>1, <1>2, <1>3, <2>3
<1>5. (i - 1) * B < tu /\ tu <= i * B
  BY <1>1, <1>2
<1>6. \A j \in Nat : (j - 1) * B < tu /\ tu <= j * B => j = i
  <2>1. SUFFICES ASSUME NEW j \in Nat, (j - 1) * B < tu, tu <= j * B, j # i
                 PROVE  FALSE
    OBVIOUS
  <2>2. CASE j <= i - 1
    <3>1. j * B <= (i - 1) * B
      BY <1>1, <1>2, <2>2
    <3>2. QED
      BY <1>1, <1>2, <1>5, <2>1, <3>1
  <2>3. CASE i <= j - 1
    <3>1. i * B <= (j - 1) * B
      BY <1>1, <1>2, <2>3
    <3>2. QED
      BY <1>1, <1>2, <1>5, <2>1, <3>1
  <2>4. QED
    BY <1>2, <2>1, <2>2, <2>3
<1>7. DOMAIN InitialWork = 1..n /\ \A j \in 1..n : InitialWork[j] = Slice(j)
  BY DEF InitialWork, n, B
<1>8. \A j \in 1..n : tu \in Slice(j) <=> ((j - 1) * B < tu /\ tu <= j * B)
  BY DEF Slice, B
<1>9. QED
  BY <1>2, <1>3, <1>4, <1>5, <1>6, <1>7, <1>8

\* Initially every TU is in the queue, once.
LEMMA InitKeeps == ASSUME Init PROVE AllKept
<1> SUFFICES ASSUME NEW tu \in TUs PROVE Kept(tu)
  BY DEF AllKept
<1>1. \A k, i : At(k, i, tu) <=> k = "work" /\ i \in DOMAIN InitialWork
                                 /\ tu \in InitialWork[i]
  BY DEF Init, At, NoResult
<1>2. Settled(tu) = 0
  BY DEF Init, Settled
<1>3. QED
  BY <1>1, <1>2, SlicePartition DEF Kept

-----------------------------------------------------------------------------
(* The counter of outstanding batches and the control flow *)

\* The threads whose worker runs.
Running == {t \in Threads : tpc[t] = "running"}

\* `outstanding` and the shape of the control flow hold initially.
LEMMA InitCounts == ASSUME Init PROVE Shape /\ OutstandingExact
<1>1. Running = {}
  BY DEF Init, Running
<1>2. Len(InitialWork) \in Nat
  BY InitialWorkType
<1>3. OutstandingExact
  <2>1. Cardinality(Running) = 0
    BY <1>1, FS_EmptySet
  <2>2. work = InitialWork /\ Len(results) = 0 /\ outstanding = Len(InitialWork)
    BY DEF Init
  <2>3. QED
    BY <1>2, <2>1, <2>2 DEF OutstandingExact, Running
<1>4. NumFiles = 0 => Len(InitialWork) = 0
  <2> DEFINE B == BatchSize
             n == (NumFiles + B - 1) \div B
  <2>1. B \in Nat \ {0}
    BY BatchSizePositive
  <2> HIDE DEF B
  <2>2. SUFFICES ASSUME NumFiles = 0 PROVE n = 0
    BY <1>2 DEF InitialWork, B
  <2>3. n = (B - 1) \div B
    BY <2>1, <2>2
  <2>4. n \in Nat /\ B * n <= B - 1
    BY <2>1, <2>3, DivBounds
  <2> HIDE DEF n
  <2>5. n >= 1 => B * n >= B
    BY <2>1, <2>4
  <2>6. QED
    BY <2>1, <2>4, <2>5
<1>5. Shape
  BY <1>4 DEF Init, Shape, Leaving, NoResult
<1>6. QED
  BY <1>3, <1>5

\* Every step preserves the shape of the control flow.
LEMMA NextShape ==
  ASSUME TypeOK, Shape, [Next]_vars
  PROVE  Shape'
<1>1. ASSUME NEW t \in Threads, Thread(t) PROVE Shape'
  <2>1. CASE TakeBatch(t) \/ SleepForWork(t) \/ ExitThread(t)
    BY <2>1 DEF TakeBatch, SleepForWork, ExitThread, Shape, Leaving, TypeOK,
                parentVars, poolVars
  <2>2. CASE WorkerSucceeds(t) \/ WorkerCrashes(t) \/ WorkerFaults(t)
    <3>1. tpc[t] = "running" /\ \E e, s, m : Report(t, e, s, m)
      BY <2>2 DEF WorkerSucceeds, WorkerCrashes, WorkerFaults
    <3>2. /\ tpc' = [tpc EXCEPT ![t] = "reporting"]
          /\ batchOf' = [batchOf EXCEPT ![t] = {}]
          /\ UNCHANGED <<outstanding, ppc, cur, todo>>
      BY <3>1 DEF Report, parentVars
    <3>3. QED
      BY <3>1, <3>2 DEF Shape, Leaving, TypeOK
  <2>3. CASE NotifyResult(t)
    BY <2>3 DEF NotifyResult, Shape, Leaving, TypeOK, poolVars
  <2>4. QED
    BY <1>1, <2>1, <2>2, <2>3 DEF Thread
<1>2. ASSUME Parent PROVE Shape'
  <2>1. CASE SleepForResult \/ NextResult \/ StopThreads \/ NotifyAll \/ Join
             \/ NotifyWork
    BY <2>1 DEF SleepForResult, NextResult, StopThreads, NotifyAll, Join,
                NotifyWork, Shape, Leaving, TypeOK, poolVars, threadVars
  <2>2. CASE TakeResult \/ ConsumeShard \/ HandleFailure
    BY <2>2 DEF TakeResult, ConsumeShard, HandleFailure, NoResult, Shape,
                Leaving, TypeOK, poolVars, threadVars
  <2>3. CASE Requeue
    <3>1. /\ ppc = "requeueing" /\ ppc' \in {"requeueing", "notifying"}
          /\ UNCHANGED <<tpc, batchOf, cur>>
      BY <2>3 DEF Requeue, threadVars
    <3>2. QED
      BY <3>1 DEF Shape, Leaving
  <2>4. QED
    BY <1>2, <2>1, <2>2, <2>3 DEF Parent
<1>3. CASE Spurious
  BY <1>3 DEF Spurious, SpuriousWakeup, Shape, Leaving, TypeOK, poolVars
<1>4. CASE Terminated \/ UNCHANGED vars
  BY <1>4 DEF Terminated, vars, poolVars, threadVars, parentVars, Shape, Leaving
<1>5. QED
  BY <1>1, <1>2, <1>3, <1>4 DEF Next

\* Every step keeps the counter of outstanding batches exact.
LEMMA NextOutstanding ==
  ASSUME TypeOK, OutstandingExact, [Next]_vars
  PROVE  OutstandingExact'
<1>0. /\ IsFiniteSet(Running) /\ Cardinality(Running) \in Nat
      /\ Len(work) \in Nat /\ Len(results) \in Nat
      /\ outstanding = Len(work) + Len(results) + Cardinality(Running)
  <2>1. Running \subseteq Threads
    BY DEF Running
  <2>2. QED
    BY <2>1, ThreadsNonEmpty, FS_Subset, FS_CardinalityType
       DEF TypeOK, OutstandingExact, Running
<1>1. SUFFICES outstanding' = Len(work') + Len(results') + Cardinality(Running')
  BY DEF OutstandingExact, Running
<1>2. ASSUME NEW t \in Threads, Thread(t)
      PROVE  outstanding' = Len(work') + Len(results') + Cardinality(Running')
  <2>1. CASE TakeBatch(t)
    <3>1. Running' = Running \cup {t} /\ t \notin Running
      BY <2>1 DEF TakeBatch, Running, TypeOK
    <3>2. Cardinality(Running') = Cardinality(Running) + 1
      BY <1>0, <3>1, FS_AddElement
    <3>3. Len(work') = Len(work) - 1 /\ UNCHANGED <<results, outstanding>>
      BY <2>1, TailFacts DEF TakeBatch, TypeOK
    <3>4. QED
      BY <1>0, <3>2, <3>3
  <2>2. CASE SleepForWork(t) \/ ExitThread(t) \/ NotifyResult(t)
    <3>1. Running' = Running
      BY <2>2 DEF SleepForWork, ExitThread, NotifyResult, Running, TypeOK
    <3>2. UNCHANGED poolVars
      BY <2>2 DEF SleepForWork, ExitThread, NotifyResult
    <3>3. QED
      BY <1>0, <3>1, <3>2 DEF poolVars
  <2>3. CASE WorkerSucceeds(t) \/ WorkerCrashes(t) \/ WorkerFaults(t)
    <3>1. PICK e \in BOOLEAN, s \in BOOLEAN, m \in TUs \cup {0} :
             Report(t, e, s, m)
      BY <2>3 DEF WorkerSucceeds, WorkerCrashes, WorkerFaults, TypeOK, Batch
    <3>2. tpc[t] = "running" /\ tpc' = [tpc EXCEPT ![t] = "reporting"]
      BY <2>3, <3>1 DEF WorkerSucceeds, WorkerCrashes, WorkerFaults, Report
    <3>3. Running' = Running \ {t} /\ t \in Running
      BY <3>2 DEF Running, TypeOK
    <3>4. Cardinality(Running') = Cardinality(Running) - 1
      BY <1>0, <3>3, FS_RemoveElement
    <3>5. Len(results') = Len(results) + 1 /\ UNCHANGED <<work, outstanding>>
      BY <3>1 DEF Report, TypeOK
    <3>6. QED
      BY <1>0, <3>4, <3>5
  <2>4. QED
    BY <1>2, <2>1, <2>2, <2>3 DEF Thread
<1>3. ASSUME Parent
      PROVE  outstanding' = Len(work') + Len(results') + Cardinality(Running')
  <2>1. Running' = Running
    BY <1>3 DEF Parent, SleepForResult, TakeResult, ConsumeShard, HandleFailure,
                Requeue, NotifyWork, NextResult, StopThreads, NotifyAll, Join,
                threadVars, Running, TypeOK
  <2>2. CASE TakeResult
    <3>1. /\ Len(results') = Len(results) - 1 /\ work' = work
          /\ outstanding' = outstanding - 1
      BY <2>2, TailFacts DEF TakeResult, TypeOK
    <3>2. QED
      BY <1>0, <2>1, <3>1
  <2>3. CASE Requeue
    <3>1. \/ work' = work /\ outstanding' = outstanding
          \/ \E b : work' = Append(work, b) /\ outstanding' = outstanding + 1
      BY <2>3 DEF Requeue
    <3>2. Len(work') - Len(work) = outstanding' - outstanding
      BY <3>1 DEF TypeOK
    <3>3. Len(work') \in Nat /\ outstanding' \in Nat /\ outstanding \in Nat
      BY <3>1 DEF TypeOK
    <3>4. results' = results
      BY <2>3 DEF Requeue
    <3>5. QED
      BY <1>0, <2>1, <3>2, <3>3, <3>4
  <2>4. CASE ~TakeResult /\ ~Requeue
    <3>1. UNCHANGED <<work, results, outstanding>>
      BY <1>3, <2>4 DEF Parent, SleepForResult, ConsumeShard, HandleFailure,
                        NotifyWork, NextResult, StopThreads, NotifyAll, Join,
                        poolVars
    <3>2. QED
      BY <1>0, <2>1, <3>1
  <2>5. QED
    BY <2>2, <2>3, <2>4
<1>4. CASE Spurious
  <2>1. Running' = Running
    BY <1>4 DEF Spurious, SpuriousWakeup, Running, TypeOK
  <2>2. QED
    BY <1>0, <1>4, <2>1 DEF Spurious, poolVars
<1>5. CASE Terminated \/ UNCHANGED vars
  BY <1>0, <1>5 DEF Terminated, vars, poolVars, threadVars, Running
<1>6. QED
  BY <1>2, <1>3, <1>4, <1>5 DEF Next

-----------------------------------------------------------------------------
(* The theorems *)

\* The inductive invariant of the dispatcher.
THEOREM Invariance == Spec => []IInv
<1>1. Init => Shape /\ AllKept /\ OutstandingExact
  BY InitKeeps, InitCounts
<1>2. TypeOK /\ Shape /\ AllKept /\ OutstandingExact /\ [Next]_vars
        => (Shape /\ AllKept /\ OutstandingExact)'
  BY NextKeeps, NextShape, NextOutstanding
<1>3. QED
  BY <1>1, <1>2, TypeCorrect, PTL DEF Spec, IInv

\* Places lists what At says.
LEMMA PlacesAt ==
  ASSUME NEW tu \in TUs
  PROVE  \A p : p \in Places(tu) <=> \E k, i : p = <<k, i>> /\ At(k, i, tu)
<1>1. SUFFICES ASSUME NEW p
               PROVE  p \in Places(tu) <=> \E k, i : p = <<k, i>> /\ At(k, i, tu)
  OBVIOUS
<1>2. ASSUME p \in Places(tu) PROVE \E k, i : p = <<k, i>> /\ At(k, i, tu)
  <2>1. PICK k, i : /\ p = <<k, i>>
                    /\ \/ k = "work" /\ i \in DOMAIN work /\ tu \in work[i]
                       \/ k = "thread" /\ i \in Threads /\ tu \in batchOf[i]
                       \/ k = "results" /\ i \in DOMAIN results /\ tu \in results[i].tus
                       \/ k = "cur" /\ i = 0 /\ tu \in cur.tus
                       \/ k = "todo" /\ i \in DOMAIN todo /\ tu \in todo[i]
    BY <1>2 DEF Places
  <2>2. QED
    BY <2>1 DEF At
<1>3. ASSUME NEW k, NEW i, p = <<k, i>>, At(k, i, tu) PROVE p \in Places(tu)
  BY <1>3 DEF At, Places
<1>4. QED
  BY <1>2, <1>3

\* No TU is ever lost, held twice, absorbed twice or both absorbed and
\* poisoned, whatever the workers do (WorkerPool.cpp:77-247).
THEOREM Conservation == Spec => []Conserved
<1>1. IInv => Conserved
  <2> SUFFICES ASSUME IInv, NEW tu \in TUs
               PROVE  \/ absorbed[tu] + poisoned[tu] = 1 /\ Places(tu) = {}
                      \/ /\ absorbed[tu] + poisoned[tu] = 0
                         /\ \E p \in Places(tu) : Places(tu) = {p}
    BY DEF Conserved
  <2>1. Kept(tu)
    BY DEF IInv, AllKept
  <2>2. CASE Settled(tu) = 1
    <3>1. Places(tu) = {}
      BY <2>1, <2>2, PlacesAt DEF Kept
    <3>2. QED
      BY <2>2, <3>1 DEF Settled
  <2>3. CASE Settled(tu) = 0
    <3>1. PICK k0, i0 : At(k0, i0, tu)
      BY <2>1, <2>3 DEF Kept
    <3>2. \A k, i : At(k, i, tu) => k = k0 /\ i = i0
      BY <2>1, <3>1 DEF Kept
    <3>3. <<k0, i0>> \in Places(tu) /\ \A p \in Places(tu) : p = <<k0, i0>>
      BY <3>1, <3>2, PlacesAt
    <3>4. QED
      BY <2>3, <3>3 DEF Settled
  <2>4. QED
    BY <2>1, <2>2, <2>3 DEF Kept
<1>2. QED
  BY <1>1, Invariance, PTL

\* The counter the parent loop waits on is exact (WorkerPool.cpp:109, 172, 214).
THEOREM OutstandingCorrect == Spec => []OutstandingExact
<1>1. IInv => OutstandingExact
  BY DEF IInv
<1>2. QED
  BY <1>1, Invariance, PTL

\* When dispatchIsolated returns, its threads are joined, its queues are empty
\* and every TU has been absorbed or poisoned, once.
THEOREM SettledCorrect == Spec => []SettledAtReturn
<1>1. IInv => SettledAtReturn
  <2> SUFFICES ASSUME IInv, ppc = "done"
               PROVE  /\ work = <<>> /\ results = <<>>
                      /\ \A t \in Threads : tpc[t] = "exited"
                      /\ \A tu \in TUs : absorbed[tu] + poisoned[tu] = 1
    BY DEF SettledAtReturn
  <2>1. /\ outstanding = 0 /\ \A t \in Threads : tpc[t] = "exited"
        /\ cur.tus = {} /\ todo = <<>> /\ \A t \in Threads : batchOf[t] = {}
    BY DEF IInv, Shape, Leaving
  <2>2. Running = {}
    BY <2>1 DEF Running
  <2>3. Cardinality(Running) = 0
    BY <2>2, FS_EmptySet
  <2>4. Len(work) = 0 /\ Len(results) = 0
    BY <2>1, <2>3 DEF IInv, OutstandingExact, Running, TypeOK
  <2>5. work = <<>> /\ results = <<>>
    BY <2>4 DEF IInv, TypeOK
  <2>6. ASSUME NEW tu \in TUs PROVE absorbed[tu] + poisoned[tu] = 1
    <3>1. \A k, i : ~At(k, i, tu)
      BY <2>1, <2>5 DEF At
    <3>2. QED
      BY <3>1 DEF IInv, AllKept, Kept, Settled
  <2>7. QED
    BY <2>1, <2>5, <2>6
<1>2. QED
  BY <1>1, Invariance, PTL

\* A TU that is not settled has been re-dispatched at most kMaxTuRetries times
\* (WorkerPool.cpp:150-156), for every number of crashes and faults.
THEOREM RedispatchBounded == Spec => []RedispatchBound
<1>1. Init => RedispatchBound
  BY RetriesNat DEF Init, RedispatchBound
<1>2. TypeOK /\ RedispatchBound /\ [Next]_vars => RedispatchBound'
  <2> SUFFICES ASSUME TypeOK, RedispatchBound, [Next]_vars, NEW tu \in TUs,
                      absorbed'[tu] + poisoned'[tu] = 0
               PROVE  retries'[tu] <= kMaxTuRetries
    BY DEF RedispatchBound
  <2>1. absorbed[tu] \in Nat /\ poisoned[tu] \in Nat /\ retries[tu] \in Nat
    BY DEF TypeOK
  <2>2. CASE Requeue
    <3> DEFINE b    == Head(todo)
               kept == {x \in b : ~Exhausted(x)}
    <3>1. /\ retries' = AddOne(retries, b)
          /\ poisoned' = AddOne(poisoned, b \ kept) /\ absorbed' = absorbed
      BY <2>2 DEF Requeue
    <3>2. CASE tu \notin b
      BY <3>1, <3>2, <2>1 DEF AddOne, RedispatchBound, TypeOK
    <3>3. CASE tu \in b /\ Exhausted(tu)
      <4>1. poisoned'[tu] = poisoned[tu] + 1
        BY <3>1, <3>3 DEF AddOne, TypeOK
      <4>2. QED
        BY <4>1, <3>1, <2>1
    <3>4. CASE tu \in b /\ ~Exhausted(tu)
      <4>1. retries'[tu] = retries[tu] + 1
        BY <3>1, <3>4 DEF AddOne, TypeOK
      <4>2. QED
        BY <4>1, <3>4, <2>1, RetriesNat DEF Exhausted
    <3>5. QED
      BY <3>2, <3>3, <3>4
  <2>3. CASE ~Requeue
    <3>1. retries' = retries
      BY <2>3 DEF Next, Parent, SleepForResult, TakeResult, ConsumeShard,
                  HandleFailure, NotifyWork, NextResult, StopThreads, NotifyAll,
                  Join, Thread, TakeBatch, SleepForWork, ExitThread, Report,
                  WorkerSucceeds, WorkerCrashes, WorkerFaults, NotifyResult,
                  Spurious, Terminated, vars, parentVars
    <3>2. /\ absorbed' = absorbed \/ \E S : absorbed' = AddOne(absorbed, S)
          /\ poisoned' = poisoned \/ \E S : poisoned' = AddOne(poisoned, S)
      BY <2>3 DEF Next, Parent, SleepForResult, TakeResult, ConsumeShard,
                  HandleFailure, NotifyWork, NextResult, StopThreads, NotifyAll,
                  Join, Thread, TakeBatch, SleepForWork, ExitThread, Report,
                  WorkerSucceeds, WorkerCrashes, WorkerFaults, NotifyResult,
                  Spurious, Terminated, vars, parentVars
    <3>3. /\ absorbed[tu] <= absorbed'[tu] /\ absorbed'[tu] \in Nat
          /\ poisoned[tu] <= poisoned'[tu] /\ poisoned'[tu] \in Nat
      <4>1. \A S : /\ AddOne(absorbed, S)[tu] \in {absorbed[tu], absorbed[tu] + 1}
                   /\ AddOne(poisoned, S)[tu] \in {poisoned[tu], poisoned[tu] + 1}
        BY DEF AddOne, TypeOK
      <4>2. absorbed'[tu] \in {absorbed[tu], absorbed[tu] + 1}
        BY <3>2, <4>1
      <4>3. poisoned'[tu] \in {poisoned[tu], poisoned[tu] + 1}
        BY <3>2, <4>1
      <4>4. QED
        BY <2>1, <4>2, <4>3
    <3>4. absorbed[tu] + poisoned[tu] = 0
      BY <3>3, <2>1
    <3>5. QED
      BY <3>1, <3>4 DEF RedispatchBound
  <2>4. QED
    BY <2>2, <2>3
<1>3. QED
  BY <1>1, <1>2, TypeCorrect, PTL DEF Spec

-----------------------------------------------------------------------------
(* The dispatcher implements its contract *)

\* A step that settles no TU and does not return is invisible to the caller.
LEMMA IdleStep ==
  ASSUME UNCHANGED <<absorbed, poisoned>>, (ppc' = "done") <=> (ppc = "done")
  PROVE  UNCHANGED <<Status, Returned>>
BY DEF Status, Returned

\* TUs found in one place are pending.
LEMMA HeldPending ==
  ASSUME TypeOK, AllKept, NEW tu \in TUs, NEW k, NEW i, At(k, i, tu)
  PROVE  Status[tu] = "pending" /\ absorbed[tu] = 0 /\ poisoned[tu] = 0
<1>1. Settled(tu) = 0
  BY DEF AllKept, Kept
<1>2. absorbed[tu] = 0 /\ poisoned[tu] = 0
  BY <1>1 DEF Settled, TypeOK
<1>3. QED
  BY <1>2 DEF Status

\* Calling onPoison for pending TUs is a Drop.
LEMMA DropStep ==
  ASSUME TypeOK, NEW S \in SUBSET TUs,
         \A tu \in S : absorbed[tu] = 0 /\ poisoned[tu] = 0,
         poisoned' = AddOne(poisoned, S), absorbed' = absorbed,
         Returned' = Returned
  PROVE  Contract!Drop(S)
<1>1. S \subseteq Contract!Pending
  BY DEF Contract!Pending, Status
<1>2. \A tu \in TUs : Status'[tu] = IF tu \in S THEN "poisoned" ELSE Status[tu]
  BY DEF Status, AddOne, TypeOK
<1>3. Status' = [tu \in TUs |-> IF tu \in S THEN "poisoned" ELSE Status[tu]]
  BY <1>2 DEF Status
<1>4. QED
  BY <1>1, <1>3 DEF Contract!Drop

\* Absorbing the shard of a batch of pending TUs is an Absorb.
LEMMA AbsorbStep ==
  ASSUME TypeOK, NEW S \in SUBSET TUs,
         \A tu \in S : absorbed[tu] = 0 /\ poisoned[tu] = 0,
         absorbed' = AddOne(absorbed, S), poisoned' = poisoned,
         Returned' = Returned
  PROVE  Contract!Absorb(S)
<1>1. S \subseteq Contract!Pending
  BY DEF Contract!Pending, Status
<1>2. \A tu \in TUs : Status'[tu] = IF tu \in S THEN "absorbed" ELSE Status[tu]
  BY DEF Status, AddOne, TypeOK
<1>3. Status' = [tu \in TUs |-> IF tu \in S THEN "absorbed" ELSE Status[tu]]
  BY <1>2 DEF Status
<1>4. QED
  BY <1>1, <1>3 DEF Contract!Absorb

\* The dispatcher, with its threads, queues, retries and bisection, implements
\* the contract of TuDispatch.
THEOREM Refinement == Spec => ImplementsContract
<1>1. Init => Contract!Init
  <2> SUFFICES ASSUME Init PROVE Contract!Init
    OBVIOUS
  <2>1. Status = [tu \in TUs |-> "pending"]
    BY DEF Init, Status
  <2>2. Returned = (TUs = {})
    BY NumFilesNat DEF Init, Returned, TUs
  <2>3. QED
    BY <2>1, <2>2 DEF Contract!Init
<1>2. IInv /\ SettledAtReturn' /\ [Next]_vars
        => [Contract!Next]_<<Status, Returned>>
  <2> SUFFICES ASSUME IInv, SettledAtReturn', [Next]_vars
               PROVE  [Contract!Next]_<<Status, Returned>>
    OBVIOUS
  <2> USE DEF IInv
  <2>1. CASE ConsumeShard
    <3>1. Returned' = Returned
      BY <2>1 DEF ConsumeShard, Returned
    <3>2. CASE absorbed' = absorbed
      BY <2>1, <3>1, <3>2, IdleStep DEF ConsumeShard, Returned
    <3>3. CASE absorbed' = AddOne(absorbed, cur.tus)
      <4>1. cur.tus \in SUBSET TUs
        BY DEF TypeOK, Result, Batch
      <4>2. \A tu \in cur.tus : absorbed[tu] = 0 /\ poisoned[tu] = 0
        BY <4>1, HeldPending DEF At
      <4>3. Contract!Absorb(cur.tus)
        BY <2>1, <3>1, <3>3, <4>1, <4>2, AbsorbStep DEF ConsumeShard
      <4>4. QED
        BY <4>1, <4>3 DEF Contract!Next
    <3>4. QED
      BY <2>1, <3>2, <3>3 DEF ConsumeShard
  <2>2. CASE HandleFailure
    <3>1. Returned' = Returned
      BY <2>2 DEF HandleFailure, Returned
    <3>2. Blamed(cur) \in SUBSET TUs /\ Blamed(cur) \subseteq cur.tus
      BY DEF TypeOK, Result, Batch, Blamed, MarkerInBatch
    <3>3. \A tu \in Blamed(cur) : absorbed[tu] = 0 /\ poisoned[tu] = 0
      BY <3>2, HeldPending DEF At
    <3>4. Contract!Drop(Blamed(cur))
      BY <2>2, <3>1, <3>2, <3>3, DropStep DEF HandleFailure
    <3>5. QED
      BY <3>2, <3>4 DEF Contract!Next
  <2>3. CASE Requeue
    <3> DEFINE b    == Head(todo)
               kept == {tu \in b : ~Exhausted(tu)}
    <3>1. Returned' = Returned
      BY <2>3 DEF Requeue, Returned
    <3>2. b = todo[1] /\ 1 \in DOMAIN todo /\ b \in Batch
      BY <2>3, TailFacts DEF Requeue, TypeOK
    <3>3. b \ kept \in SUBSET TUs
      BY <3>2 DEF Batch
    <3>4. \A tu \in b \ kept : absorbed[tu] = 0 /\ poisoned[tu] = 0
      BY <3>2, <3>3, HeldPending DEF At
    <3>5. poisoned' = AddOne(poisoned, b \ kept) /\ absorbed' = absorbed
      BY <2>3 DEF Requeue
    <3> HIDE DEF b, kept
    <3>6. Contract!Drop(b \ kept)
      BY <3>1, <3>3, <3>4, <3>5, DropStep
    <3>7. QED
      BY <3>3, <3>6 DEF Contract!Next
  <2>4. CASE Join
    <3>1. Returned' = TRUE /\ ppc' = "done" /\ UNCHANGED <<absorbed, poisoned>>
      BY <2>4 DEF Join, Returned
    <3>2. Status' = Status
      BY <3>1 DEF Status
    <3>3. \A tu \in TUs : absorbed[tu] + poisoned[tu] = 1
      BY <3>1 DEF SettledAtReturn
    <3>4. \A tu \in TUs : absorbed[tu] > 0 \/ poisoned[tu] > 0
      BY <3>3 DEF TypeOK
    <3>5. Contract!Pending = {}
      BY <3>4 DEF Contract!Pending, Status
    <3>6. Contract!Return
      BY <3>1, <3>2, <3>5 DEF Contract!Return
    <3>7. QED
      BY <3>6 DEF Contract!Next
  <2>5. CASE ~ConsumeShard /\ ~HandleFailure /\ ~Requeue /\ ~Join
    <3>1. UNCHANGED <<absorbed, poisoned>>
      BY <2>5 DEF Next, Parent, SleepForResult, TakeResult, NotifyWork,
                  NextResult, StopThreads, NotifyAll, Thread, TakeBatch,
                  SleepForWork, ExitThread, Report, WorkerSucceeds,
                  WorkerCrashes, WorkerFaults, NotifyResult, Spurious,
                  Terminated, vars, parentVars
    <3>2. (ppc' = "done") <=> (ppc = "done")
      BY <2>5 DEF Next, Parent, SleepForResult, TakeResult, NotifyWork,
                  NextResult, StopThreads, NotifyAll, Thread, TakeBatch,
                  SleepForWork, ExitThread, Report, WorkerSucceeds,
                  WorkerCrashes, WorkerFaults, NotifyResult, Spurious,
                  SpuriousWakeup, Terminated, vars, parentVars
    <3>3. QED
      BY <3>1, <3>2, IdleStep
  <2>6. QED
    BY <2>1, <2>2, <2>3, <2>4, <2>5
<1>3. QED
  BY <1>1, <1>2, Invariance, SettledCorrect, PTL
     DEF Spec, ImplementsContract, Contract!Spec

-----------------------------------------------------------------------------
(* Notifies *)

\* The parent notifies the threads of the end only after it has set `stop`.
StopBeforeNotify == ppc \in {"stopping", "joining"} => stop

\* NoLostWakeup in two parts: the queue and its takers, and everybody else.
QueueCovered ==
  (\E t \in Threads : tpc[t] = "asleep") => Len(work) <= Cardinality(OnTheWay) + NotifyOwed
OthersAwake ==
  /\ ppc = "asleep" /\ results # <<>> => \E t \in Threads : tpc[t] = "reporting"
  /\ ppc \in {"joining", "done"} => \A t \in Threads : tpc[t] # "asleep"

\* The threads on the way are counted.
LEMMA OnTheWayCount ==
  /\ IsFiniteSet(OnTheWay) /\ Cardinality(OnTheWay) \in Nat
  /\ NotifyOwed \in {0, 1}
<1>1. OnTheWay \subseteq Threads
  BY DEF OnTheWay
<1>2. QED
  BY <1>1, ThreadsNonEmpty, FS_Subset, FS_CardinalityType DEF NotifyOwed

\* A thread that becomes ready is one more on the way.
LEMMA OneMoreOnTheWay ==
  ASSUME TypeOK, NEW t \in Threads, tpc[t] # "ready", tpc' = [tpc EXCEPT ![t] = "ready"]
  PROVE  Cardinality(OnTheWay') = Cardinality(OnTheWay) + 1
<1>1. OnTheWay' = OnTheWay \cup {t} /\ t \notin OnTheWay
  BY DEF OnTheWay, TypeOK
<1>2. QED
  BY <1>1, OnTheWayCount, FS_AddElement

\* A thread that takes a batch is one less.
LEMMA OneLessOnTheWay ==
  ASSUME TypeOK, NEW t \in Threads, tpc[t] = "ready", tpc' = [tpc EXCEPT ![t] = "running"]
  PROVE  Cardinality(OnTheWay) = Cardinality(OnTheWay') + 1
<1>1. OnTheWay' = OnTheWay \ {t} /\ t \in OnTheWay
  BY DEF OnTheWay, TypeOK
<1>2. Cardinality(OnTheWay \ {t}) = Cardinality(OnTheWay) - 1
  BY <1>1, OnTheWayCount, FS_RemoveElement
<1>3. QED
  BY <1>1, <1>2, OnTheWayCount

\* A step that changes neither the queue nor who is ready, sleeps or is owed a
\* notify.
LEMMA SameTakers ==
  ASSUME QueueCovered, UNCHANGED <<work, OnTheWay, NotifyOwed>>,
         \A t \in Threads : tpc'[t] = "asleep" => tpc[t] = "asleep"
  PROVE  QueueCovered'
BY DEF QueueCovered

\* A dispatch thread that takes a batch is the taker of one; it sleeps only when
\* there is none.
LEMMA ThreadCovers ==
  ASSUME TypeOK, QueueCovered, NEW t \in Threads, Thread(t)
  PROVE  QueueCovered'
<1>1. CASE TakeBatch(t)
  <2>1. /\ Cardinality(OnTheWay) = Cardinality(OnTheWay') + 1
        /\ work # <<>> /\ work' = Tail(work) /\ NotifyOwed' = NotifyOwed
    BY <1>1, OneLessOnTheWay DEF TakeBatch, parentVars, NotifyOwed
  <2>2. Len(work) \in Nat /\ Len(work') = Len(work) - 1
    BY <2>1, TailFacts DEF TypeOK
  <2>3. (\E u \in Threads : tpc'[u] = "asleep") => \E u \in Threads : tpc[u] = "asleep"
    BY <1>1 DEF TakeBatch, TypeOK
  <2>4. Cardinality(OnTheWay') \in Nat
    <3>1. OnTheWay' \subseteq Threads
      BY DEF OnTheWay
    <3>2. QED
      BY <3>1, ThreadsNonEmpty, FS_Subset, FS_CardinalityType
  <2>5. QED
    BY <2>1, <2>2, <2>3, <2>4, OnTheWayCount DEF QueueCovered
<1>2. CASE SleepForWork(t) \/ ExitThread(t)
  <2>1. work' = <<>>
    BY <1>2 DEF SleepForWork, ExitThread, poolVars
  <2>2. Cardinality(OnTheWay') \in Nat /\ NotifyOwed' \in Nat
    <3>1. OnTheWay' \subseteq Threads
      BY DEF OnTheWay
    <3>2. QED
      BY <3>1, ThreadsNonEmpty, FS_Subset, FS_CardinalityType DEF NotifyOwed
  <2>3. QED
    BY <2>1, <2>2 DEF QueueCovered
<1>3. CASE WorkerSucceeds(t) \/ WorkerCrashes(t) \/ WorkerFaults(t)
  <2>1. /\ tpc[t] = "running" /\ tpc' = [tpc EXCEPT ![t] = "reporting"]
        /\ UNCHANGED <<work, ppc>>
    BY <1>3 DEF WorkerSucceeds, WorkerCrashes, WorkerFaults, Report, parentVars
  <2>2. OnTheWay' = OnTheWay
    BY <2>1 DEF OnTheWay, TypeOK
  <2>3. \A u \in Threads : tpc'[u] = "asleep" => tpc[u] = "asleep"
    BY <2>1 DEF TypeOK
  <2>4. QED
    BY <2>1, <2>2, <2>3, SameTakers DEF NotifyOwed
<1>4. CASE NotifyResult(t)
  <2>1. /\ tpc[t] = "reporting" /\ tpc' = [tpc EXCEPT ![t] = "ready"]
        /\ work' = work /\ NotifyOwed' = NotifyOwed
    BY <1>4 DEF NotifyResult, poolVars, NotifyOwed
  <2>2. Cardinality(OnTheWay') = Cardinality(OnTheWay) + 1
    BY <2>1, OneMoreOnTheWay
  <2>3. (\E u \in Threads : tpc'[u] = "asleep") => \E u \in Threads : tpc[u] = "asleep"
    BY <2>1 DEF TypeOK
  <2>4. Len(work) \in Nat
    BY DEF TypeOK
  <2>5. QED
    BY <2>1, <2>2, <2>3, <2>4, OnTheWayCount DEF QueueCovered
<1>5. QED
  BY <1>1, <1>2, <1>3, <1>4 DEF Thread

\* The parent owes a notify for each batch it pushes; the notify wakes a taker
\* if anybody sleeps.
LEMMA ParentCovers ==
  ASSUME TypeOK, QueueCovered, Parent
  PROVE  QueueCovered'
<1>1. CASE SleepForResult \/ TakeResult \/ ConsumeShard \/ HandleFailure \/ NextResult
              \/ StopThreads \/ Join
  <2>1. UNCHANGED <<work, tpc, NotifyOwed>>
    BY <1>1 DEF SleepForResult, TakeResult, ConsumeShard, HandleFailure, NextResult,
                StopThreads, Join, poolVars, threadVars, NotifyOwed
  <2>2. QED
    BY <2>1, SameTakers DEF OnTheWay
<1>2. CASE Requeue
  <2>1. \/ UNCHANGED <<work, tpc, NotifyOwed>>
        \/ /\ \E b : work' = Append(work, b)
           /\ tpc' = tpc /\ NotifyOwed = 0 /\ NotifyOwed' = 1
    BY <1>2 DEF Requeue, threadVars, NotifyOwed
  <2>2. CASE UNCHANGED <<work, tpc, NotifyOwed>>
    BY <2>2, SameTakers DEF OnTheWay
  <2>3. ASSUME NEW b, work' = Append(work, b), tpc' = tpc, NotifyOwed = 0, NotifyOwed' = 1
        PROVE  QueueCovered'
    <3>1. Len(work) \in Nat /\ Len(work') = Len(work) + 1
      BY <2>3 DEF TypeOK
    <3>2. OnTheWay' = OnTheWay
      BY <2>3 DEF OnTheWay
    <3>3. QED
      BY <2>3, <3>1, <3>2, OnTheWayCount DEF QueueCovered
  <2>4. QED
    BY <2>1, <2>2, <2>3
<1>3. CASE NotifyWork
  <2>1. /\ work' = work /\ NotifyOwed = 1 /\ NotifyOwed' = 0 /\ Len(work) \in Nat
    BY <1>3 DEF NotifyWork, poolVars, NotifyOwed, TypeOK
  <2>2. ASSUME NEW t \in Threads, tpc[t] = "asleep", tpc' = [tpc EXCEPT ![t] = "ready"]
        PROVE  QueueCovered'
    <3>1. Cardinality(OnTheWay') = Cardinality(OnTheWay) + 1
      BY <2>2, OneMoreOnTheWay
    <3>2. QED
      BY <2>1, <2>2, <3>1, OnTheWayCount DEF QueueCovered
  <2>3. ASSUME \A t \in Threads : tpc[t] # "asleep", tpc' = tpc
        PROVE  QueueCovered'
    BY <2>3 DEF QueueCovered
  <2>4. QED
    BY <1>3, <2>2, <2>3 DEF NotifyWork
<1>4. CASE NotifyAll
  BY <1>4 DEF NotifyAll, QueueCovered
<1>5. QED
  BY <1>1, <1>2, <1>3, <1>4 DEF Parent

\* A spurious wake-up puts one more on the way.
LEMMA SpuriousCovers ==
  ASSUME TypeOK, QueueCovered, Spurious
  PROVE  QueueCovered'
<1>1. work' = work /\ NotifyOwed' = NotifyOwed /\ Len(work) \in Nat
  BY DEF Spurious, SpuriousWakeup, poolVars, NotifyOwed, TypeOK
<1>2. ASSUME NEW t \in Threads, tpc[t] = "asleep", tpc' = [tpc EXCEPT ![t] = "ready"]
      PROVE  QueueCovered'
  <2>1. Cardinality(OnTheWay') = Cardinality(OnTheWay) + 1
    BY <1>2, OneMoreOnTheWay
  <2>2. QED
    BY <1>1, <1>2, <2>1, OnTheWayCount DEF QueueCovered
<1>3. CASE tpc' = tpc
  BY <1>1, <1>3, SameTakers DEF OnTheWay
<1>4. QED
  BY <1>2, <1>3 DEF Spurious, SpuriousWakeup

\* Whoever pushes a result still has its notify to send, and a thread goes to
\* sleep on workCv only after it saw no `stop`.
LEMMA ThreadWakes ==
  ASSUME TypeOK, Shape, StopBeforeNotify, OthersAwake,
         NEW t \in Threads, Thread(t)
  PROVE  OthersAwake' /\ StopBeforeNotify'
<1>1. CASE TakeBatch(t)
  BY <1>1 DEF TakeBatch, TypeOK, StopBeforeNotify, OthersAwake, parentVars
<1>2. CASE SleepForWork(t)
  BY <1>2 DEF SleepForWork, TypeOK, Shape, StopBeforeNotify, OthersAwake,
              poolVars, parentVars
<1>3. CASE ExitThread(t)
  BY <1>3 DEF ExitThread, TypeOK, StopBeforeNotify, OthersAwake,
              poolVars, parentVars
<1>4. CASE WorkerSucceeds(t) \/ WorkerCrashes(t) \/ WorkerFaults(t)
  <2>1. /\ tpc' = [tpc EXCEPT ![t] = "reporting"]
        /\ UNCHANGED <<work, stop, ppc>>
    BY <1>4 DEF WorkerSucceeds, WorkerCrashes, WorkerFaults, Report, parentVars
  <2>2. QED
    BY <2>1 DEF TypeOK, StopBeforeNotify, OthersAwake
<1>5. CASE NotifyResult(t)
  BY <1>5 DEF NotifyResult, TypeOK, StopBeforeNotify, OthersAwake, poolVars
<1>6. QED
  BY <1>1, <1>2, <1>3, <1>4, <1>5 DEF Thread

\* The parent sleeps on resultCv only after it saw no result, and notifies all
\* after it set `stop`.
LEMMA ParentWakes ==
  ASSUME TypeOK, Shape, StopBeforeNotify, OthersAwake, Parent
  PROVE  OthersAwake' /\ StopBeforeNotify'
<1>1. CASE SleepForResult
  BY <1>1 DEF SleepForResult, TypeOK, StopBeforeNotify, OthersAwake,
              poolVars, threadVars
<1>2. CASE TakeResult
  BY <1>2 DEF TakeResult, TypeOK, StopBeforeNotify, OthersAwake, threadVars
<1>3. CASE ConsumeShard \/ HandleFailure \/ NextResult
  BY <1>3 DEF ConsumeShard, HandleFailure, NextResult, TypeOK, StopBeforeNotify,
              OthersAwake, poolVars, threadVars
<1>4. CASE Requeue
  BY <1>4 DEF Requeue, TypeOK, StopBeforeNotify, OthersAwake, threadVars
<1>5. CASE NotifyWork
  BY <1>5 DEF NotifyWork, TypeOK, StopBeforeNotify, OthersAwake, poolVars
<1>6. CASE StopThreads
  BY <1>6 DEF StopThreads, TypeOK, StopBeforeNotify, OthersAwake, threadVars
<1>7. CASE NotifyAll
  BY <1>7 DEF NotifyAll, TypeOK, StopBeforeNotify, OthersAwake, poolVars
<1>8. CASE Join
  BY <1>8 DEF Join, TypeOK, StopBeforeNotify, OthersAwake, poolVars, threadVars
<1>9. QED
  BY <1>1, <1>2, <1>3, <1>4, <1>5, <1>6, <1>7, <1>8 DEF Parent

\* While a dispatch thread sleeps, each queued batch has an idle thread that is
\* awake, or a notify, of its own; the parent does not sleep on a result that
\* nobody will tell it of (WorkerPool.cpp:122-147, 172-180, 209-221, 239-245).
THEOREM WakeupsKept == Spec => []NoLostWakeup
<1>1. Init => QueueCovered /\ OthersAwake /\ StopBeforeNotify
  BY DEF Init, QueueCovered, OthersAwake, StopBeforeNotify
<1>2. IInv /\ QueueCovered /\ OthersAwake /\ StopBeforeNotify /\ [Next]_vars
        => QueueCovered' /\ OthersAwake' /\ StopBeforeNotify'
  <2> SUFFICES ASSUME IInv, QueueCovered, OthersAwake, StopBeforeNotify, [Next]_vars
               PROVE  QueueCovered' /\ OthersAwake' /\ StopBeforeNotify'
    OBVIOUS
  <2>1. TypeOK /\ Shape
    BY DEF IInv
  <2>2. CASE Spurious
    <3>1. OthersAwake' /\ StopBeforeNotify'
      BY <2>1, <2>2 DEF Spurious, SpuriousWakeup, TypeOK, OthersAwake,
                        StopBeforeNotify, poolVars
    <3>2. QED
      BY <2>1, <2>2, <3>1, SpuriousCovers
  <2>3. CASE UNCHANGED vars
    BY <2>3 DEF vars, poolVars, threadVars, parentVars, QueueCovered, OnTheWay,
                NotifyOwed, OthersAwake, StopBeforeNotify
  <2>4. QED
    BY <2>1, <2>2, <2>3, ThreadWakes, ParentWakes, ThreadCovers, ParentCovers
       DEF Next, Terminated
<1>3. QueueCovered /\ OthersAwake => NoLostWakeup
  BY DEF QueueCovered, OthersAwake, NoLostWakeup
<1>4. QED
  BY <1>1, <1>2, <1>3, Invariance, PTL DEF Spec

-----------------------------------------------------------------------------
(* What a re-dispatch is paid with *)

\* The crashers that have been found.
PoisonedCrashers == {c \in crashers : poisoned[c] > 0}

\* One re-dispatch of a batch is paid by each of these.
Credit == Cardinality(PoisonedCrashers) + faults

\* A result that handleFailure gets to see.
Failed(r) == ~(r.exitOk /\ r.shardOk)

\* A failure in flight has a cause: a crasher that is about to be poisoned, or
\* a fault that already pays for one more re-dispatch of the batch.
Covered(r) ==
  Failed(r) =>
    \/ r.marker \in crashers \cap r.tus
    \/ \A tu \in r.tus : retries[tu] + 1 <= Credit

\* The first part of RetriesPaidFor, strengthened by the failures the parent has still to see
\* and by the batches it has still to requeue.
Paid ==
  /\ \A tu \in TUs : retries[tu] <= Credit
  /\ \A i \in DOMAIN results : Covered(results[i])
  /\ Covered(cur)
  /\ \A i \in DOMAIN todo : \A tu \in todo[i] : retries[tu] + 1 <= Credit
  /\ ppc = "failed" => Failed(cur)

\* There are finitely many TUs.
LEMMA FiniteTUs == IsFiniteSet(TUs)
BY NumFilesNat, FS_Interval DEF TUs

\* The credit is a number, of at most one per crasher and one per fault.
LEMMA CreditType ==
  ASSUME TypeOK
  PROVE  /\ IsFiniteSet(PoisonedCrashers)
         /\ Cardinality(PoisonedCrashers) \in Nat
         /\ Cardinality(crashers) \in Nat
         /\ Cardinality(PoisonedCrashers) <= Cardinality(crashers)
         /\ Credit \in Nat
<1>1. IsFiniteSet(crashers) /\ PoisonedCrashers \subseteq crashers
  BY FiniteTUs, FS_Subset DEF TypeOK, PoisonedCrashers
<1>2. /\ IsFiniteSet(PoisonedCrashers)
      /\ Cardinality(PoisonedCrashers) <= Cardinality(crashers)
  BY <1>1, FS_Subset
<1>3. Cardinality(PoisonedCrashers) \in Nat /\ Cardinality(crashers) \in Nat
  BY <1>1, <1>2, FS_CardinalityType
<1>4. QED
  BY <1>2, <1>3 DEF Credit, TypeOK

\* Poisoning never takes credit away ...
LEMMA CreditGrows ==
  ASSUME TypeOK, TypeOK', UNCHANGED envVars, NEW S,
         poisoned' = AddOne(poisoned, S)
  PROVE  Credit \in Nat /\ Credit' \in Nat /\ Credit <= Credit'
<1>1. PoisonedCrashers \subseteq PoisonedCrashers'
  BY DEF PoisonedCrashers, AddOne, TypeOK, envVars
<1>2. IsFiniteSet(PoisonedCrashers')
  <2>1. PoisonedCrashers' \subseteq TUs
    BY DEF TypeOK, PoisonedCrashers
  <2>2. QED
    BY <2>1, FiniteTUs, FS_Subset
<1>3. /\ Cardinality(PoisonedCrashers) <= Cardinality(PoisonedCrashers')
      /\ Cardinality(PoisonedCrashers') \in Nat
  BY <1>1, <1>2, FS_Subset, FS_CardinalityType
<1>4. Cardinality(PoisonedCrashers) \in Nat /\ faults \in Nat
  BY CreditType DEF TypeOK
<1>5. QED
  BY <1>3, <1>4 DEF Credit, envVars

\* ... and poisoning a crasher for the first time adds one.
LEMMA CreditOfCrasher ==
  ASSUME TypeOK, TypeOK', UNCHANGED envVars, NEW m \in crashers,
         poisoned[m] = 0, poisoned' = AddOne(poisoned, {m})
  PROVE  Credit' = Credit + 1
<1>1. PoisonedCrashers' = PoisonedCrashers \cup {m} /\ m \notin PoisonedCrashers
  BY DEF PoisonedCrashers, AddOne, TypeOK, envVars
<1>2. Cardinality(PoisonedCrashers') = Cardinality(PoisonedCrashers) + 1
  BY <1>1, CreditType, FS_AddElement
<1>3. Cardinality(PoisonedCrashers) \in Nat /\ faults \in Nat
  BY CreditType DEF TypeOK
<1>4. QED
  BY <1>2, <1>3 DEF Credit, envVars

\* A step that only moves results about, and adds covered ones.
LEMMA CalmStep ==
  ASSUME Paid, UNCHANGED <<retries, poisoned, todo, envVars>>,
         \A i \in DOMAIN results' :
            \/ \E j \in DOMAIN results : results'[i] = results[j]
            \/ Covered(results'[i]),
         Covered(cur'),
         ppc' = "failed" => Failed(cur')
  PROVE  Paid'
<1>1. Credit' = Credit
  BY DEF Credit, PoisonedCrashers, envVars
<1>2. \A i \in DOMAIN results' : Covered(results'[i])
  BY DEF Paid
<1>3. (\A i \in DOMAIN results : Covered(results[i]))' /\ Covered(cur)'
  BY <1>1, <1>2 DEF Covered, Failed, envVars
<1>4. QED
  BY <1>1, <1>3 DEF Paid, Failed, envVars

\* A dispatch thread adds only failures with a cause.
LEMMA ThreadPays ==
  ASSUME TypeOK, Paid, NEW t \in Threads, Thread(t)
  PROVE  Paid'
<1>1. CASE TakeBatch(t) \/ SleepForWork(t) \/ ExitThread(t) \/ NotifyResult(t)
  <2>1. /\ UNCHANGED <<retries, poisoned, todo, envVars, results, cur>>
        /\ ppc' = "failed" => ppc = "failed"
    BY <1>1 DEF TakeBatch, SleepForWork, ExitThread, NotifyResult, poolVars,
                parentVars
  <2>2. QED
    BY <2>1, CalmStep DEF Paid
<1>2. ASSUME NEW e \in BOOLEAN, NEW s \in BOOLEAN, NEW m \in TUs \cup {0},
             Report(t, e, s, m), UNCHANGED faults,
             (e /\ s) \/ m \in crashers \cap batchOf[t]
      PROVE  Paid'
  <2> DEFINE r == [tus |-> batchOf[t], exitOk |-> e, shardOk |-> s, marker |-> m]
  <2>1. /\ UNCHANGED <<retries, poisoned, todo, envVars, cur, ppc>>
        /\ results' = Append(results, r)
    BY <1>2 DEF Report, parentVars, envVars
  <2>2. results \in Seq(Result) /\ r \in Result
    BY DEF TypeOK, Result
  <2>3. Covered(r)
    BY <1>2 DEF Covered, Failed
  <2> HIDE DEF r
  <2>4. \A i \in DOMAIN results' :
           \/ \E j \in DOMAIN results : results'[i] = results[j]
           \/ Covered(results'[i])
    BY <2>1, <2>2, <2>3, AppendFacts
  <2>5. QED
    BY <2>1, <2>4, CalmStep DEF Paid
<1>3. CASE WorkerSucceeds(t)
  BY <1>2, <1>3 DEF WorkerSucceeds, TypeOK, Batch
<1>4. CASE WorkerCrashes(t)
  BY <1>2, <1>4 DEF WorkerCrashes, TypeOK, Batch
<1>5. CASE WorkerFaults(t)
  <2>1. PICK e \in BOOLEAN, s \in BOOLEAN, m \in TUs \cup {0} : Report(t, e, s, m)
    BY <1>5 DEF WorkerFaults, TypeOK, Batch
  <2> DEFINE r == [tus |-> batchOf[t], exitOk |-> e, shardOk |-> s, marker |-> m]
  <2>2. /\ UNCHANGED <<retries, poisoned, todo, crashers, cur, ppc>>
        /\ results' = Append(results, r) /\ faults' = faults + 1
    BY <1>5, <2>1 DEF WorkerFaults, Report, parentVars
  <2>3. results \in Seq(Result) /\ r \in Result /\ r.tus \subseteq TUs
    BY DEF TypeOK, Result, Batch
  <2> HIDE DEF r
  <2>4. /\ Credit \in Nat /\ Credit' = Credit + 1 /\ faults \in Nat
        /\ retries \in [TUs -> Nat]
    <3>1. PoisonedCrashers' = PoisonedCrashers
      BY <2>2 DEF PoisonedCrashers
    <3>2. QED
      BY <2>2, <3>1, CreditType DEF Credit, TypeOK
  <2>5. \A tu \in TUs : retries[tu] + 1 <= Credit'
    BY <2>4 DEF Paid
  <2>6. ASSUME NEW i \in DOMAIN results' PROVE results'[i].tus \subseteq TUs
    <3>1. \A q \in Result : q.tus \subseteq TUs
      BY DEF Result, Batch
    <3>2. results' \in Seq(Result)
      BY <2>2, <2>3
    <3>3. results'[i] \in Result
      BY <2>6, <3>2
    <3>4. QED
      BY <3>1, <3>3
  <2>7. /\ (\A i \in DOMAIN results : Covered(results[i]))'
        /\ Covered(cur)'
    <3>1. cur.tus \subseteq TUs
      BY DEF TypeOK, Result, Batch
    <3>2. QED
      BY <2>2, <2>4, <2>5, <2>6, <3>1 DEF Covered
  <2>8. (\A tu \in TUs : retries[tu] <= Credit)'
    BY <2>2, <2>4 DEF Paid
  <2>9. (\A i \in DOMAIN todo : \A tu \in todo[i] : retries[tu] + 1 <= Credit)'
    <3>1. \A i \in DOMAIN todo : todo[i] \subseteq TUs
      BY DEF TypeOK, Batch
    <3>2. QED
      BY <2>2, <2>5, <3>1
  <2>10. QED
    BY <2>2, <2>4, <2>7, <2>8, <2>9 DEF Paid, Failed
<1>6. QED
  BY <1>1, <1>3, <1>4, <1>5 DEF Thread

\* handleFailure poisons the crasher it blames, which pays for the re-dispatch
\* of the rest; without a crasher the fault has paid already.
LEMMA HandleFailurePays ==
  ASSUME TypeOK, TypeOK', AllKept, Paid, HandleFailure
  PROVE  Paid'
<1>1. /\ UNCHANGED <<retries, results, envVars>> /\ Failed(cur)
      /\ poisoned' = AddOne(poisoned, Blamed(cur))
      /\ todo' = Rebatched(cur) /\ cur' = NoResult /\ ppc' = "requeueing"
  BY DEF HandleFailure, Paid, poolVars
<1>2. Credit \in Nat /\ Credit' \in Nat /\ Credit <= Credit'
  BY <1>1, CreditGrows
<1>3. cur.tus \subseteq TUs /\ retries \in [TUs -> Nat] /\ faults \in Nat
  BY DEF TypeOK, Result, Batch
<1>4. \A tu \in cur.tus : poisoned[tu] = 0
  BY <1>3, HeldPending DEF At
<1>5. \A i \in DOMAIN results : results[i].tus \subseteq TUs
  <2>1. \A q \in Result : q.tus \subseteq TUs
    BY DEF Result, Batch
  <2>2. QED
    BY <2>1 DEF TypeOK
<1>6. (\A i \in DOMAIN results : Covered(results[i]))'
  BY <1>1, <1>2, <1>3, <1>5 DEF Paid, Covered, Failed, envVars
<1>7. (\A tu \in TUs : retries[tu] <= Credit)'
  BY <1>1, <1>2, <1>3 DEF Paid
<1>8. Covered(cur)' /\ (ppc = "failed" => Failed(cur))'
  BY <1>1 DEF Covered, Failed, NoResult
<1>9. CASE cur.marker \in crashers \cap cur.tus
  <2>1. Blamed(cur) = {cur.marker} /\ Rebatched(cur) = <<cur.tus \ {cur.marker}>>
    BY <1>9 DEF Blamed, Rebatched, MarkerInBatch
  <2>2. Credit' = Credit + 1
    BY <1>1, <1>4, <1>9, <2>1, CreditOfCrasher
  <2>3. \A tu \in TUs : retries[tu] + 1 <= Credit'
    BY <1>2, <1>3, <2>2 DEF Paid
  <2>4. \A i \in DOMAIN todo' : todo'[i] \subseteq TUs
    BY <1>1, <1>3, <2>1
  <2>5. (\A i \in DOMAIN todo : \A tu \in todo[i] : retries[tu] + 1 <= Credit)'
    BY <1>1, <2>3, <2>4
  <2>6. QED
    BY <1>1, <1>6, <1>7, <1>8, <2>5 DEF Paid, envVars
<1>10. CASE \A tu \in cur.tus : retries[tu] + 1 <= Credit
  <2>1. \A i \in DOMAIN todo' : todo'[i] \subseteq cur.tus
    BY <1>1, LowerHalfSubset DEF Rebatched
  <2>2. (\A i \in DOMAIN todo : \A tu \in todo[i] : retries[tu] + 1 <= Credit)'
    BY <1>1, <1>2, <1>3, <1>10, <2>1
  <2>3. QED
    BY <1>1, <1>6, <1>7, <1>8, <2>2 DEF Paid, envVars
<1>11. QED
  BY <1>1, <1>9, <1>10 DEF Paid, Covered

\* A re-dispatch spends the credit its batch was given; the batches held
\* elsewhere are others, so theirs is untouched.
LEMMA RequeuePays ==
  ASSUME TypeOK, TypeOK', AllKept, Shape, Paid, Requeue
  PROVE  Paid'
<1> DEFINE b    == Head(todo)
           kept == {tu \in b : ~Exhausted(tu)}
<1>1. /\ UNCHANGED <<results, cur, envVars>>
      /\ retries' = AddOne(retries, b) /\ poisoned' = AddOne(poisoned, b \ kept)
      /\ todo' = Tail(todo) /\ todo # <<>>
      /\ ppc = "requeueing" /\ ppc' # "failed"
  BY DEF Requeue
<1>2. /\ b = todo[1] /\ 1 \in DOMAIN todo /\ todo \in Seq(Batch)
      /\ Len(todo) \in Nat /\ DOMAIN todo = 1..Len(todo)
      /\ DOMAIN todo' = 1..(Len(todo) - 1)
      /\ \A i \in 1..(Len(todo) - 1) : todo'[i] = todo[i + 1]
  BY <1>1, TailFacts DEF TypeOK
<1>3. b \subseteq TUs
  BY <1>2 DEF Batch
<1>4. b \ kept = {tu \in b : retries[tu] + 1 > kMaxTuRetries}
  BY <1>3, RetriesNat DEF Exhausted, TypeOK
<1> HIDE DEF b, kept
<1>5. Credit \in Nat /\ Credit' \in Nat /\ Credit <= Credit'
  BY <1>1, CreditGrows
<1>6. /\ retries \in [TUs -> Nat] /\ poisoned \in [TUs -> Nat] /\ faults \in Nat
      /\ \A tu \in TUs : retries'[tu] = IF tu \in b THEN retries[tu] + 1
                                                   ELSE retries[tu]
  BY <1>1 DEF AddOne, TypeOK
<1>7. \A tu \in b : retries[tu] + 1 <= Credit
  BY <1>2 DEF Paid
<1>8. \A tu \in b : At("todo", 1, tu)
  BY <1>2 DEF At
<1>9. (\A tu \in TUs : retries[tu] <= Credit)'
  BY <1>5, <1>6, <1>7 DEF Paid
<1>10. (\A i \in DOMAIN results : Covered(results[i]))'
  <2>1. \A i \in DOMAIN results : results[i].tus \subseteq TUs
    <3>1. \A q \in Result : q.tus \subseteq TUs
      BY DEF Result, Batch
    <3>2. QED
      BY <3>1 DEF TypeOK
  <2>2. \A i \in DOMAIN results : \A tu \in results[i].tus : tu \notin b
    BY <1>8, <2>1 DEF AllKept, Kept, At
  <2>3. \A i \in DOMAIN results : \A tu \in results[i].tus :
           retries'[tu] = retries[tu] /\ retries[tu] \in Nat
    BY <1>6, <2>1, <2>2
  <2>4. QED
    BY <1>1, <1>5, <2>3 DEF Paid, Covered, Failed, envVars
<1>11. Covered(cur)'
  BY <1>1, <1>6 DEF Shape, Paid, Covered, Failed, envVars
<1>12. (\A i \in DOMAIN todo : \A tu \in todo[i] : retries[tu] + 1 <= Credit)'
  <2>1. SUFFICES ASSUME NEW i \in 1..(Len(todo) - 1), NEW tu \in todo[i + 1]
                 PROVE  retries'[tu] + 1 <= Credit'
    BY <1>2
  <2>2. i + 1 \in DOMAIN todo /\ i + 1 # 1 /\ tu \in TUs
    BY <1>2 DEF Batch
  <2>3. tu \notin b
    BY <1>8, <2>2 DEF AllKept, Kept, At
  <2>4. retries[tu] + 1 <= Credit
    BY <2>2 DEF Paid
  <2>5. QED
    BY <1>5, <1>6, <2>2, <2>3, <2>4
<1>13. QED
  BY <1>1, <1>9, <1>10, <1>11, <1>12 DEF Paid

\* The other steps of the parent only move results about.
LEMMA ParentPays ==
  ASSUME TypeOK, TypeOK', AllKept, Shape, Paid, Parent
  PROVE  Paid'
<1>1. CASE HandleFailure
  BY <1>1, HandleFailurePays
<1>2. CASE Requeue
  BY <1>2, RequeuePays
<1>3. CASE TakeResult
  <2>1. /\ UNCHANGED <<retries, poisoned, todo, envVars>>
        /\ cur' = Head(results) /\ results' = Tail(results) /\ results # <<>>
        /\ ppc' = IF cur'.exitOk THEN "consuming" ELSE "failed"
    BY <1>3 DEF TakeResult
  <2>2. /\ cur' = results[1] /\ 1 \in DOMAIN results
        /\ \A i \in DOMAIN results' : \E j \in DOMAIN results : results'[i] = results[j]
    <3>1. results \in Seq(Result)
      BY DEF TypeOK
    <3>2. \A i \in 1..(Len(results) - 1) : i + 1 \in 1..Len(results)
      BY <3>1
    <3>3. QED
      BY <2>1, <3>1, <3>2, TailFacts
  <2>3. Covered(cur') /\ (ppc' = "failed" => Failed(cur'))
    BY <2>1, <2>2 DEF Paid, Failed
  <2>4. QED
    BY <2>1, <2>2, <2>3, CalmStep
<1>4. CASE ConsumeShard
  <2>1. /\ UNCHANGED <<retries, poisoned, todo, envVars, results>>
        /\ \/ cur' = NoResult /\ ppc' = "ready"
           \/ cur' = cur /\ ~cur.shardOk
    BY <1>4 DEF ConsumeShard, poolVars
  <2>2. Covered(cur') /\ (ppc' = "failed" => Failed(cur'))
    BY <2>1 DEF Paid, Covered, Failed, NoResult
  <2>3. QED
    BY <2>1, <2>2, CalmStep
<1>5. CASE SleepForResult \/ NotifyWork \/ NextResult \/ StopThreads \/ NotifyAll \/ Join
  <2>1. /\ UNCHANGED <<retries, poisoned, todo, envVars, results, cur>>
        /\ ppc' # "failed"
    BY <1>5 DEF SleepForResult, NotifyWork, NextResult, StopThreads, NotifyAll,
                Join, poolVars
  <2>2. QED
    BY <2>1, CalmStep DEF Paid
<1>6. QED
  BY <1>1, <1>2, <1>3, <1>4, <1>5 DEF Parent

-----------------------------------------------------------------------------
(* What a fault can cost *)

\* The innocent TUs that a failure with this result is charged to.
ChargedBy(r) == {tu \in TUs \ crashers : Failed(r) /\ tu \in Blamed(r)}

\* The innocent TUs charged so far: blamed already, or about to be blamed for a
\* failure the parent has still to see.
Charged ==
  BlamedInnocents \cup ChargedBy(cur)
    \cup {tu \in TUs : \E i \in DOMAIN results : tu \in ChargedBy(results[i])}

\* The second part of RetriesPaidFor, strengthened.
ChargesPaid == Cardinality(Charged) <= faults

\* The charged TUs are finitely many.
LEMMA ChargedFinite ==
  /\ Charged \subseteq TUs
  /\ IsFiniteSet(Charged) /\ Cardinality(Charged) \in Nat
<1>1. Charged \subseteq TUs
  BY DEF Charged, ChargedBy, BlamedInnocents
<1>2. QED
  BY <1>1, FiniteTUs, FS_Subset, FS_CardinalityType

\* Where nobody new is charged, the faults still pay.
LEMMA NobodyCharged ==
  ASSUME TypeOK, ChargesPaid, Charged' \subseteq Charged, UNCHANGED faults
  PROVE  ChargesPaid'
<1>1. Cardinality(Charged') <= Cardinality(Charged) /\ Cardinality(Charged') \in Nat
  BY ChargedFinite, FS_Subset, FS_CardinalityType
<1>2. QED
  BY <1>1, ChargedFinite DEF ChargesPaid, TypeOK

\* A failure is charged to nobody, or to one TU.
LEMMA OneCharged ==
  ASSUME NEW r \in Result
  PROVE  \E x : ChargedBy(r) \subseteq {x}
<1>1. CASE MarkerInBatch(r)
  BY <1>1 DEF ChargedBy, Blamed
<1>2. CASE ~MarkerInBatch(r) /\ Single(r.tus)
  <2>1. IsFiniteSet(r.tus)
    BY FiniteTUs, FS_Subset DEF Result, Batch
  <2>2. PICK x : r.tus = {x}
    BY <1>2, <2>1, FS_Singleton DEF Single
  <2>3. QED
    BY <1>2, <2>2 DEF ChargedBy, Blamed
<1>3. CASE ~MarkerInBatch(r) /\ ~Single(r.tus)
  BY <1>3 DEF ChargedBy, Blamed
<1>4. QED
  BY <1>1, <1>2, <1>3

\* Whom the results pushed before are charged to does not change.
LEMMA SameCharges ==
  ASSUME UNCHANGED <<crashers, retries, poisoned, cur>>
  PROVE  BlamedInnocents' = BlamedInnocents /\ ChargedBy(cur)' = ChargedBy(cur)
BY DEF BlamedInnocents, ChargedBy, Failed, Blamed, MarkerInBatch, Single

\* A thread that pushes a result charges only whom that result is charged to.
LEMMA ReportCharges ==
  ASSUME TypeOK, NEW r \in Result, results' = Append(results, r),
         UNCHANGED <<crashers, retries, poisoned, cur>>
  PROVE  Charged' \subseteq Charged \cup ChargedBy(r)
<1>1. results \in Seq(Result)
  BY DEF TypeOK
<1>2. \A i \in DOMAIN results' : \/ \E j \in DOMAIN results : results'[i] = results[j]
                                 \/ results'[i] = r
  BY <1>1, AppendFacts
<1>3. SUFFICES ASSUME NEW tu \in Charged' PROVE tu \in Charged \cup ChargedBy(r)
  OBVIOUS
<1>4. CASE tu \in BlamedInnocents' \/ tu \in ChargedBy(cur)'
  BY <1>4, SameCharges DEF Charged
<1>5. ASSUME NEW i \in DOMAIN results', tu \in TUs, tu \in ChargedBy(results[i])'
      PROVE  tu \in Charged \cup ChargedBy(r)
  <2>1. tu \in TUs \ crashers /\ Failed(results'[i]) /\ tu \in Blamed(results'[i])
    BY <1>5 DEF ChargedBy, Failed, Blamed, MarkerInBatch, Single
  <2>2. CASE results'[i] = r
    BY <2>1, <2>2 DEF ChargedBy
  <2>3. ASSUME NEW j \in DOMAIN results, results'[i] = results[j]
        PROVE  tu \in Charged
    <3>1. tu \in ChargedBy(results[j])
      BY <2>1, <2>3 DEF ChargedBy
    <3>2. QED
      BY <1>5, <3>1 DEF Charged
  <2>4. QED
    BY <1>2, <2>2, <2>3
<1>6. QED
  BY <1>4, <1>5 DEF Charged

\* Only a fault charges an innocent TU.
LEMMA ThreadCharges ==
  ASSUME TypeOK, ChargesPaid, NEW t \in Threads, Thread(t)
  PROVE  ChargesPaid'
<1>1. CASE TakeBatch(t) \/ SleepForWork(t) \/ ExitThread(t) \/ NotifyResult(t)
  <2>1. UNCHANGED <<retries, poisoned, envVars, results, cur>>
    BY <1>1 DEF TakeBatch, SleepForWork, ExitThread, NotifyResult, poolVars,
                parentVars
  <2>2. Charged' = Charged
    BY <2>1, SameCharges DEF Charged, ChargedBy, Failed, Blamed, MarkerInBatch,
                             Single, envVars
  <2>3. QED
    BY <2>1, <2>2, NobodyCharged DEF envVars
<1>2. ASSUME NEW e \in BOOLEAN, NEW s \in BOOLEAN, NEW m \in TUs \cup {0},
             Report(t, e, s, m)
      PROVE  \E r \in Result :
               /\ r = [tus |-> batchOf[t], exitOk |-> e, shardOk |-> s, marker |-> m]
               /\ Charged' \subseteq Charged \cup ChargedBy(r)
  <2>1. [tus |-> batchOf[t], exitOk |-> e, shardOk |-> s, marker |-> m] \in Result
    BY DEF TypeOK, Result
  <2>2. /\ UNCHANGED <<crashers, retries, poisoned, cur>>
        /\ results' = Append(results, [tus |-> batchOf[t], exitOk |-> e,
                                       shardOk |-> s, marker |-> m])
    BY <1>2 DEF Report, parentVars
  <2>3. QED
    BY <2>1, <2>2, ReportCharges
<1>3. CASE WorkerSucceeds(t) \/ WorkerCrashes(t)
  <2>1. PICK e \in BOOLEAN, s \in BOOLEAN, m \in TUs \cup {0} :
           /\ Report(t, e, s, m) /\ faults' = faults
           /\ (e /\ s) \/ m \in crashers \cap batchOf[t]
    BY <1>3 DEF WorkerSucceeds, WorkerCrashes, TypeOK, Batch
  <2>2. PICK r \in Result :
           /\ r = [tus |-> batchOf[t], exitOk |-> e, shardOk |-> s, marker |-> m]
           /\ Charged' \subseteq Charged \cup ChargedBy(r)
    BY <1>2, <2>1
  <2>3. ChargedBy(r) = {}
    BY <2>1, <2>2 DEF ChargedBy, Failed, Blamed, MarkerInBatch
  <2>4. QED
    BY <2>1, <2>2, <2>3, NobodyCharged
<1>4. CASE WorkerFaults(t)
  <2>1. PICK e \in BOOLEAN, s \in BOOLEAN, m \in TUs \cup {0} : Report(t, e, s, m)
    BY <1>4 DEF WorkerFaults, TypeOK, Batch
  <2>2. faults' = faults + 1 /\ faults \in Nat
    BY <1>4 DEF WorkerFaults, TypeOK
  <2>3. PICK r \in Result : Charged' \subseteq Charged \cup ChargedBy(r)
    BY <1>2, <2>1
  <2>4. PICK x : ChargedBy(r) \subseteq {x}
    BY OneCharged
  <2>5. Charged' \subseteq Charged \cup {x}
    BY <2>3, <2>4
  <2>6. /\ IsFiniteSet(Charged \cup {x})
        /\ Cardinality(Charged \cup {x}) <= Cardinality(Charged) + 1
        /\ Cardinality(Charged \cup {x}) \in Nat
    <3>1. /\ IsFiniteSet(Charged \cup {x})
          /\ x \in Charged \/ Cardinality(Charged \cup {x}) = Cardinality(Charged) + 1
      BY ChargedFinite, FS_AddElement
    <3>2. CASE x \in Charged
      <4>1. Charged \cup {x} = Charged
        BY <3>2
      <4>2. QED
        BY <4>1, ChargedFinite
    <3>3. CASE x \notin Charged
      BY <3>1, <3>3, ChargedFinite
    <3>4. QED
      BY <3>2, <3>3
  <2>7. Cardinality(Charged') <= Cardinality(Charged \cup {x}) /\ Cardinality(Charged') \in Nat
    BY <2>5, <2>6, FS_Subset, FS_CardinalityType
  <2>8. QED
    BY <2>2, <2>6, <2>7, ChargedFinite DEF ChargesPaid
<1>5. QED
  BY <1>1, <1>3, <1>4 DEF Thread

\* The parent blames only whom the failure was charged to, and a TU that it
\* drops when it requeues has used up its re-dispatches.
LEMMA ParentCharges ==
  ASSUME TypeOK, Paid, ChargesPaid, Parent
  PROVE  ChargesPaid'
<1>1. UNCHANGED envVars
  BY DEF Parent, SleepForResult, TakeResult, ConsumeShard, HandleFailure, Requeue,
         NotifyWork, NextResult, StopThreads, NotifyAll, Join
<1>2. ChargedBy(NoResult) = {}
  BY DEF ChargedBy, Failed, NoResult
<1>3. SUFFICES ASSUME NEW tu \in Charged' PROVE tu \in Charged
  BY <1>1, NobodyCharged DEF envVars
<1>4. tu \in TUs
  BY DEF Charged, ChargedBy, BlamedInnocents
<1>5. CASE HandleFailure
  <2>1. /\ UNCHANGED <<retries, results, crashers>> /\ Failed(cur)
        /\ poisoned' = AddOne(poisoned, Blamed(cur)) /\ cur' = NoResult
    BY <1>1, <1>5 DEF HandleFailure, Paid, poolVars, envVars
  <2>2. ChargedBy(cur)' = {}
    BY <2>1 DEF ChargedBy, Failed, NoResult
  <2>3. CASE tu \in BlamedInnocents'
    <3>1. CASE tu \in Blamed(cur)
      BY <2>1, <2>3, <3>1 DEF Charged, ChargedBy, BlamedInnocents
    <3>2. CASE tu \notin Blamed(cur)
      BY <1>4, <2>1, <2>3, <3>2 DEF Charged, BlamedInnocents, AddOne, TypeOK
    <3>3. QED
      BY <3>1, <3>2
  <2>4. CASE tu \notin BlamedInnocents'
    BY <1>4, <2>1, <2>2, <2>4 DEF Charged, ChargedBy, Failed, Blamed,
                                  MarkerInBatch, Single
  <2>5. QED
    BY <2>3, <2>4
<1>6. CASE Requeue
  <2> DEFINE b    == Head(todo)
             kept == {x \in b : ~Exhausted(x)}
  <2>1. /\ UNCHANGED <<results, crashers, cur>>
        /\ retries' = AddOne(retries, b)
        /\ poisoned' = AddOne(poisoned, b \ kept)
    BY <1>1, <1>6 DEF Requeue, envVars
  <2>2. /\ tu \in b \ kept => tu \in b /\ retries[tu] + 1 > kMaxTuRetries
        /\ retries[tu] \in Nat /\ kMaxTuRetries \in Nat
    BY <1>4, RetriesNat DEF Exhausted, TypeOK
  <2> HIDE DEF b, kept
  <2>3. CASE tu \in BlamedInnocents'
    <3>1. tu \notin b \ kept
      BY <1>4, <2>1, <2>2, <2>3 DEF BlamedInnocents, AddOne, TypeOK
    <3>2. /\ poisoned'[tu] = poisoned[tu]
          /\ retries'[tu] \in Nat /\ retries[tu] <= retries'[tu]
      BY <1>4, <2>1, <2>2, <3>1 DEF AddOne, TypeOK
    <3>3. QED
      BY <1>4, <2>1, <2>2, <2>3, <3>2 DEF Charged, BlamedInnocents
  <2>4. CASE tu \notin BlamedInnocents'
    BY <1>4, <2>1, <2>4 DEF Charged, ChargedBy, Failed, Blamed, MarkerInBatch, Single
  <2>5. QED
    BY <2>3, <2>4
<1>7. CASE TakeResult
  <2>1. /\ UNCHANGED <<retries, poisoned, crashers>>
        /\ cur' = Head(results) /\ results' = Tail(results) /\ results # <<>>
    BY <1>1, <1>7 DEF TakeResult, envVars
  <2>2. /\ cur' = results[1] /\ 1 \in DOMAIN results
        /\ \A i \in DOMAIN results' : \E j \in DOMAIN results : results'[i] = results[j]
    <3>1. results \in Seq(Result)
      BY DEF TypeOK
    <3>2. \A i \in 1..(Len(results) - 1) : i + 1 \in 1..Len(results)
      BY <3>1
    <3>3. QED
      BY <2>1, <3>1, <3>2, TailFacts
  <2>3. \/ tu \in BlamedInnocents
        \/ \E j \in DOMAIN results : tu \in ChargedBy(results[j])
    BY <2>1, <2>2 DEF Charged, BlamedInnocents, ChargedBy, Failed, Blamed,
                      MarkerInBatch, Single
  <2>4. QED
    BY <1>4, <2>3 DEF Charged
<1>8. CASE ConsumeShard
  <2>1. /\ UNCHANGED <<retries, poisoned, results, crashers>>
        /\ cur' = NoResult \/ cur' = cur
    BY <1>1, <1>8 DEF ConsumeShard, poolVars, envVars
  <2>2. QED
    BY <1>2, <2>1 DEF Charged, BlamedInnocents, ChargedBy, Failed, Blamed,
                      MarkerInBatch, Single, NoResult
<1>9. CASE SleepForResult \/ NotifyWork \/ NextResult \/ StopThreads \/ NotifyAll \/ Join
  <2>1. UNCHANGED <<retries, poisoned, crashers, results, cur>>
    BY <1>1, <1>9 DEF SleepForResult, NotifyWork, NextResult, StopThreads, NotifyAll,
                      Join, poolVars, envVars
  <2>2. QED
    BY <2>1 DEF Charged, BlamedInnocents, ChargedBy, Failed, Blamed, MarkerInBatch,
                Single
<1>10. QED
  BY <1>5, <1>6, <1>7, <1>8, <1>9 DEF Parent

\* Every re-dispatch of a TU is paid for by a crasher found or by a fault, and a
\* fault costs at most one innocent TU outright, the one it is blamed on; any
\* other innocent TU that is dropped was re-dispatched more than kMaxTuRetries
\* times (WorkerPool.cpp:150-207).
THEOREM RetriesPaid == Spec => []RetriesPaidFor
<1>1. Init => Paid /\ ChargesPaid
  <2> SUFFICES ASSUME Init PROVE Paid /\ ChargesPaid
    OBVIOUS
  <2>1. PoisonedCrashers = {}
    BY DEF Init, PoisonedCrashers
  <2>2. Credit = 0
    BY <2>1, FS_EmptySet DEF Credit, Init
  <2>3. Charged = {}
    BY DEF Charged, ChargedBy, BlamedInnocents, Init, Failed, NoResult
  <2>4. QED
    BY <2>2, <2>3, FS_EmptySet DEF Init, Paid, ChargesPaid, Covered, Failed, NoResult
<1>2. IInv /\ TypeOK' /\ Paid /\ ChargesPaid /\ [Next]_vars => Paid' /\ ChargesPaid'
  <2> SUFFICES ASSUME IInv, TypeOK', Paid, ChargesPaid, [Next]_vars
               PROVE  Paid' /\ ChargesPaid'
    OBVIOUS
  <2>1. TypeOK /\ Shape /\ AllKept
    BY DEF IInv
  <2>2. CASE Spurious \/ UNCHANGED vars
    <3>1. /\ UNCHANGED <<retries, poisoned, todo, envVars, results, cur>>
          /\ ppc' = "failed" => ppc = "failed"
      BY <2>2 DEF Spurious, SpuriousWakeup, vars, poolVars, parentVars, envVars
    <3>2. Paid'
      BY <3>1, CalmStep DEF Paid
    <3>3. Charged' = Charged
      BY <3>1, SameCharges DEF Charged, ChargedBy, Failed, Blamed, MarkerInBatch,
                               Single, envVars
    <3>4. QED
      BY <2>1, <3>1, <3>2, <3>3, NobodyCharged DEF envVars
  <2>3. QED
    BY <2>1, <2>2, ThreadPays, ParentPays, ThreadCharges, ParentCharges
       DEF Next, Terminated
<1>3. TypeOK /\ Paid /\ ChargesPaid => RetriesPaidFor
  <2>1. ChargesPaid /\ TypeOK => Cardinality(BlamedInnocents) <= faults
    <3>1. BlamedInnocents \subseteq Charged
      BY DEF Charged
    <3>2. /\ Cardinality(BlamedInnocents) <= Cardinality(Charged)
          /\ Cardinality(BlamedInnocents) \in Nat
      BY <3>1, ChargedFinite, FS_Subset, FS_CardinalityType
    <3>3. QED
      BY <3>2, ChargedFinite DEF ChargesPaid, TypeOK
  <2>2. QED
    BY <2>1 DEF Paid, RetriesPaidFor, Credit, PoisonedCrashers
<1>4. QED
  BY <1>1, <1>2, <1>3, Invariance, TypeCorrect, PTL DEF Spec
=============================================================================
