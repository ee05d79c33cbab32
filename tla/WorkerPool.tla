----------------------------- MODULE WorkerPool -----------------------------
(***************************************************************************)
(* dispatchIsolated (src/callgraph/WorkerPool.cpp): the parent keeps at    *)
(* most `workers` subprocesses in flight, one per dispatch thread, absorbs *)
(* the shard of each batch whose worker succeeded and drives the           *)
(* crash/bisect protocol for each batch whose worker did not.              *)
(*                                                                         *)
(* `files` is a duplicate-free list (SourceSelection dedupes it), so a TU  *)
(* is its position 1..NumFiles; every batch the code builds (an initial    *)
(* slice, a batch minus its marker, half of a batch, a batch minus its     *)
(* exhausted TUs) keeps the order of `files`, so a batch is a set of       *)
(* positions and its order is the order of the numbers.                    *)
(*                                                                         *)
(* Every critical section under `mu` is one step; sleeping on a condition  *)
(* variable releases the mutex in the same step; each notify is a step of  *)
(* its own, after the unlock, as in the code.                              *)
(***************************************************************************)
EXTENDS Integers, Sequences, FiniteSets

CONSTANTS NumFiles,           \* files.size()
          Threads,            \* the dispatch threads; `workers` of them
          BatchSizeOverride,  \* batchSizeOverride; 0 selects the heuristic
          kMaxTuRetries,      \* 2 in the code
          MaxFaults           \* bound: worker failures that no TU causes

ASSUME NumFilesNat     == NumFiles \in Nat
ASSUME ThreadsNonEmpty == IsFiniteSet(Threads) /\ Threads # {}
ASSUME OverrideNat     == BatchSizeOverride \in Nat
ASSUME RetriesNat      == kMaxTuRetries \in Nat
ASSUME FaultsNat       == MaxFaults \in Nat

TUs == 1..NumFiles

VARIABLES
  work,         \* queue of batches waiting for a dispatch thread
  results,      \* queue of finished batches waiting for the parent
  stop,         \* the flag that ends the dispatch threads
  outstanding,  \* batches queued, running or finished but not yet handled
  tpc,          \* where each dispatch thread is
  batchOf,      \* the batch each dispatch thread is running
  ppc,          \* where the parent loop is
  cur,          \* the result the parent is handling
  todo,         \* batches handleFailure has still to requeue
  retries,      \* failed batches each TU has been re-dispatched from
  absorbed,     \* shards absorbed that contain the TU
  poisoned,     \* onPoison calls for the TU
  crashers,     \* TUs whose parse kills any worker that reaches it
  faults        \* worker failures so far that no TU caused

poolVars   == <<work, results, stop, outstanding>>
threadVars == <<tpc, batchOf>>
parentVars == <<ppc, cur, todo, retries, absorbed, poisoned>>
envVars    == <<crashers, faults>>
vars       == <<poolVars, threadVars, parentVars, envVars>>

-----------------------------------------------------------------------------
(* Batching *)

Smaller(a, b) == IF a < b THEN a ELSE b
Larger(a, b)  == IF a > b THEN a ELSE b

BatchSize == IF BatchSizeOverride # 0
             THEN BatchSizeOverride
             ELSE Smaller(32, Larger(1, NumFiles \div (Cardinality(Threads) * 4)))

\* Faulty variant: the end of the last slice is not clamped to files.size().
SliceUnclamped(i) == ((i - 1) * BatchSize + 1)..(i * BatchSize)

\* Slice i of `files`.
Slice(i) == {tu \in TUs : (i - 1) * BatchSize < tu /\ tu <= i * BatchSize}

InitialWork == [i \in 1..((NumFiles + BatchSize - 1) \div BatchSize) |-> Slice(i)]

\* The first half of a batch: its first |b| / 2 TUs.
LowerHalf(b) ==
  {tu \in b : Cardinality({x \in b : x < tu}) < Cardinality(b) \div 2}

\* A BatchResult: did the process exit 0, can its shard be read, and which TU
\* does the last WORKER-TU line of its stderr name (0: no such line).
NoResult == [tus |-> {}, exitOk |-> TRUE, shardOk |-> TRUE, marker |-> 0]

Init ==
  /\ work = InitialWork
  /\ results = <<>>
  /\ stop = FALSE
  /\ outstanding = Len(InitialWork)
  /\ tpc = [t \in Threads |-> IF NumFiles = 0 THEN "exited" ELSE "ready"]
  /\ batchOf = [t \in Threads |-> {}]
  /\ ppc = IF NumFiles = 0 THEN "done" ELSE "ready"
  /\ cur = NoResult
  /\ todo = <<>>
  /\ retries = [tu \in TUs |-> 0]
  /\ absorbed = [tu \in TUs |-> 0]
  /\ poisoned = [tu \in TUs |-> 0]
  /\ crashers \in SUBSET TUs
  /\ faults = 0

-----------------------------------------------------------------------------
(* A dispatch thread *)

\* workCv.wait's predicate holds and there is a batch to pop.
TakeBatch(t) ==
  /\ tpc[t] = "ready"
  /\ work # <<>>
  /\ batchOf' = [batchOf EXCEPT ![t] = Head(work)]
  /\ work' = Tail(work)
  /\ tpc' = [tpc EXCEPT ![t] = "running"]
  /\ UNCHANGED <<results, stop, outstanding, parentVars, envVars>>

\* workCv.wait's predicate fails: release `mu` and sleep.
SleepForWork(t) ==
  /\ tpc[t] = "ready"
  /\ work = <<>> /\ ~stop
  /\ tpc' = [tpc EXCEPT ![t] = "asleep"]
  /\ UNCHANGED <<poolVars, batchOf, parentVars, envVars>>

ExitThread(t) ==
  /\ tpc[t] = "ready"
  /\ work = <<>> /\ stop
  /\ tpc' = [tpc EXCEPT ![t] = "exited"]
  /\ UNCHANGED <<poolVars, batchOf, parentVars, envVars>>

\* The runner returned: the result is pushed under `mu`.
Report(t, exitOk, shardOk, marker) ==
  /\ results' = Append(results, [tus |-> batchOf[t], exitOk |-> exitOk,
                                 shardOk |-> shardOk, marker |-> marker])
  /\ batchOf' = [batchOf EXCEPT ![t] = {}]
  /\ tpc' = [tpc EXCEPT ![t] = "reporting"]
  /\ UNCHANGED <<work, stop, outstanding, parentVars, crashers>>

IsLast(x, b) == x \in b /\ \A y \in b : y <= x

\* A worker parses its batch in order and announces each TU first.
Reaches(x, b) == x \in b /\ \A c \in b \cap crashers : x <= c

WorkerSucceeds(t) ==
  /\ tpc[t] = "running"
  /\ batchOf[t] \cap crashers = {}
  /\ \E x \in batchOf[t] : IsLast(x, batchOf[t]) /\ Report(t, TRUE, TRUE, x)
  /\ UNCHANGED faults

\* The first crasher of the batch kills the process; no shard is written.
WorkerCrashes(t) ==
  /\ tpc[t] = "running"
  /\ \E x \in batchOf[t] \cap crashers :
        Reaches(x, batchOf[t]) /\ Report(t, FALSE, FALSE, x)
  /\ UNCHANGED faults

\* A failure no TU is to blame for: the process cannot be spawned (no marker);
\* it is killed while it parses some TU or while it writes its shard (the
\* marker names that TU, or the last one); it exits 0 but the parent cannot
\* read the shard (every TU was announced, so the marker is the last one).
WorkerFaults(t) ==
  /\ tpc[t] = "running"
  /\ faults < MaxFaults
  /\ \/ Report(t, FALSE, FALSE, 0)
     \/ \E x \in batchOf[t] :
           Reaches(x, batchOf[t]) /\ Report(t, FALSE, FALSE, x)
     \/ /\ batchOf[t] \cap crashers = {}
        /\ \E x \in batchOf[t] : IsLast(x, batchOf[t])
                                 /\ Report(t, TRUE, FALSE, x)
  /\ faults' = faults + 1

\* resultCv.notify_one(): only the parent waits on resultCv.
NotifyResult(t) ==
  /\ tpc[t] = "reporting"
  /\ tpc' = [tpc EXCEPT ![t] = "ready"]
  /\ ppc' = IF ppc = "asleep" THEN "ready" ELSE ppc
  /\ UNCHANGED <<poolVars, batchOf, cur, todo, retries, absorbed, poisoned,
                 envVars>>

Thread(t) == \/ TakeBatch(t) \/ SleepForWork(t) \/ ExitThread(t)
             \/ WorkerSucceeds(t) \/ WorkerCrashes(t) \/ WorkerFaults(t)
             \/ NotifyResult(t)

-----------------------------------------------------------------------------
(* The parent loop *)

AddOne(f, S) == [x \in DOMAIN f |-> IF x \in S THEN f[x] + 1 ELSE f[x]]

SleepForResult ==
  /\ ppc = "ready"
  /\ outstanding # 0 /\ results = <<>>
  /\ ppc' = "asleep"
  /\ UNCHANGED <<poolVars, threadVars, cur, todo, retries, absorbed, poisoned,
                 envVars>>

TakeResult ==
  /\ ppc = "ready"
  /\ outstanding # 0 /\ results # <<>>
  /\ cur' = Head(results)
  /\ results' = Tail(results)
  /\ outstanding' = outstanding - 1
  /\ ppc' = IF cur'.exitOk THEN "consuming" ELSE "failed"
  /\ UNCHANGED <<work, stop, threadVars, todo, retries, absorbed, poisoned,
                 envVars>>

\* consumeShard: absorb the shard, or, when it cannot be read, set exitCode to
\* -1 and fall through to handleFailure.
ConsumeShard ==
  /\ ppc = "consuming"
  /\ \/ /\ cur.shardOk
        /\ absorbed' = AddOne(absorbed, cur.tus)
        /\ cur' = NoResult
        /\ ppc' = "ready"
     \/ /\ ~cur.shardOk
        /\ ppc' = "failed"
        /\ UNCHANGED <<absorbed, cur>>
  /\ UNCHANGED <<poolVars, threadVars, todo, retries, poisoned, envVars>>

MarkerInBatch(r) == r.marker \in r.tus
Single(b) == Cardinality(b) = 1

\* Faulty variant: the whole batch is blamed for its marker TU.
BlamedBatch(r) == IF MarkerInBatch(r) THEN r.tus ELSE {}

\* handleFailure: whom the failure is blamed on ...
Blamed(r) == IF MarkerInBatch(r) THEN {r.marker}
             ELSE IF Single(r.tus) THEN r.tus ELSE {}

\* Faulty variant: the marker TU is re-dispatched with the rest.
RebatchedWithMarker(r) ==
  IF Single(r.tus) THEN <<>>
  ELSE <<LowerHalf(r.tus), r.tus \ LowerHalf(r.tus)>>

\* ... and the batches it re-dispatches, in order.
Rebatched(r) == IF MarkerInBatch(r) THEN <<r.tus \ {r.marker}>>
                ELSE IF Single(r.tus) THEN <<>>
                ELSE <<LowerHalf(r.tus), r.tus \ LowerHalf(r.tus)>>

HandleFailure ==
  /\ ppc = "failed"
  /\ poisoned' = AddOne(poisoned, Blamed(cur))
  /\ todo' = Rebatched(cur)
  /\ cur' = NoResult
  /\ ppc' = "requeueing"
  /\ UNCHANGED <<poolVars, threadVars, retries, absorbed, envVars>>

\* Faulty variants: retries[tu]++ > k, and ++retries[tu] >= k.
ExhaustedLate(tu)  == retries[tu] > kMaxTuRetries
ExhaustedEarly(tu) == retries[tu] + 1 >= kMaxTuRetries

\* ++retries[tu] > kMaxTuRetries, for a TU about to be re-dispatched.
Exhausted(tu) == retries[tu] + 1 > kMaxTuRetries

\* Faulty variant: a re-dispatched batch is not counted as outstanding.
RequeueUncounted ==
  /\ ppc = "requeueing"
  /\ todo # <<>>
  /\ retries' = AddOne(retries, Head(todo))
  /\ work' = Append(work, Head(todo))
  /\ ppc' = "notifying"
  /\ todo' = Tail(todo)
  /\ UNCHANGED <<results, stop, outstanding, threadVars, cur, absorbed, poisoned,
                 envVars>>

Requeue ==
  /\ ppc = "requeueing"
  /\ todo # <<>>
  /\ LET b    == Head(todo)
         kept == {tu \in b : ~Exhausted(tu)}
     IN /\ retries' = AddOne(retries, b)
        /\ poisoned' = AddOne(poisoned, b \ kept)
        /\ \/ /\ kept = {}
              /\ UNCHANGED <<work, outstanding, ppc>>
           \/ /\ kept # {}
              /\ outstanding' = outstanding + 1
              /\ work' = Append(work, kept)
              /\ ppc' = "notifying"
  /\ todo' = Tail(todo)
  /\ UNCHANGED <<results, stop, threadVars, cur, absorbed, envVars>>

\* Faulty variant: nobody is notified of the new batch.
NotifyNobody ==
  /\ ppc = "notifying"
  /\ ppc' = "requeueing"
  /\ UNCHANGED <<poolVars, threadVars, cur, todo, retries, absorbed, poisoned,
                 envVars>>

\* workCv.notify_one() wakes one sleeping thread, if there is one.
NotifyWork ==
  /\ ppc = "notifying"
  /\ \/ \E t \in Threads : /\ tpc[t] = "asleep"
                           /\ tpc' = [tpc EXCEPT ![t] = "ready"]
     \/ /\ \A t \in Threads : tpc[t] # "asleep"
        /\ UNCHANGED tpc
  /\ ppc' = "requeueing"
  /\ UNCHANGED <<poolVars, batchOf, cur, todo, retries, absorbed, poisoned,
                 envVars>>

\* The files of the handled result are removed and the loop goes round.
NextResult ==
  /\ ppc = "requeueing"
  /\ todo = <<>>
  /\ ppc' = "ready"
  /\ UNCHANGED <<poolVars, threadVars, cur, todo, retries, absorbed, poisoned,
                 envVars>>

\* Faulty variant: the parent leaves as soon as both queues are empty.
StopWhenQueuesEmpty ==
  /\ ppc = "ready"
  /\ work = <<>> /\ results = <<>>
  /\ stop' = TRUE
  /\ ppc' = "stopping"
  /\ UNCHANGED <<work, results, outstanding, threadVars, cur, todo, retries,
                 absorbed, poisoned, envVars>>

\* Nothing outstanding: leave the loop, set `stop` under `mu` ...
StopThreads ==
  /\ ppc = "ready"
  /\ outstanding = 0
  /\ stop' = TRUE
  /\ ppc' = "stopping"
  /\ UNCHANGED <<work, results, outstanding, threadVars, cur, todo, retries,
                 absorbed, poisoned, envVars>>

\* Faulty variant: notify_one where notify_all is needed.
NotifyOneAtStop ==
  /\ ppc = "stopping"
  /\ \/ \E t \in Threads : /\ tpc[t] = "asleep"
                           /\ tpc' = [tpc EXCEPT ![t] = "ready"]
     \/ /\ \A t \in Threads : tpc[t] # "asleep"
        /\ UNCHANGED tpc
  /\ ppc' = "joining"
  /\ UNCHANGED <<poolVars, batchOf, cur, todo, retries, absorbed, poisoned,
                 envVars>>

\* ... workCv.notify_all() ...
NotifyAll ==
  /\ ppc = "stopping"
  /\ tpc' = [t \in Threads |-> IF tpc[t] = "asleep" THEN "ready" ELSE tpc[t]]
  /\ ppc' = "joining"
  /\ UNCHANGED <<poolVars, batchOf, cur, todo, retries, absorbed, poisoned,
                 envVars>>

\* ... and join every thread.
Join ==
  /\ ppc = "joining"
  /\ \A t \in Threads : tpc[t] = "exited"
  /\ ppc' = "done"
  /\ UNCHANGED <<poolVars, threadVars, cur, todo, retries, absorbed, poisoned,
                 envVars>>

Parent == \/ SleepForResult \/ TakeResult \/ ConsumeShard \/ HandleFailure
          \/ Requeue \/ NotifyWork \/ NextResult
          \/ StopThreads \/ NotifyAll \/ Join

-----------------------------------------------------------------------------
\* A condition variable may wake a sleeper without a notify.
SpuriousWakeup ==
  \/ \E t \in Threads : /\ tpc[t] = "asleep"
                        /\ tpc' = [tpc EXCEPT ![t] = "ready"]
                        /\ UNCHANGED ppc
  \/ /\ ppc = "asleep"
     /\ ppc' = "ready"
     /\ UNCHANGED tpc

Spurious == /\ SpuriousWakeup
            /\ UNCHANGED <<poolVars, batchOf, cur, todo, retries, absorbed,
                           poisoned, envVars>>

Terminated == ppc = "done" /\ UNCHANGED vars

Next == \/ Parent
        \/ \E t \in Threads : Thread(t)
        \/ Spurious
        \/ Terminated

Spec == Init /\ [][Next]_vars

\* Threads are scheduled and every worker process ends (the code puts no
\* timeout on it: SecondsToWait = 0).
FairSpec == Spec /\ WF_vars(Parent) /\ \A t \in Threads : WF_vars(Thread(t))

-----------------------------------------------------------------------------
(* Properties *)

Batch  == SUBSET TUs
Result == [tus : Batch, exitOk : BOOLEAN, shardOk : BOOLEAN,
           marker : TUs \cup {0}]

\* Every variable has its type.
TypeOK ==
  /\ work \in Seq(Batch)
  /\ results \in Seq(Result)
  /\ stop \in BOOLEAN
  /\ outstanding \in Nat
  /\ tpc \in [Threads -> {"ready", "asleep", "running", "reporting", "exited"}]
  /\ batchOf \in [Threads -> Batch]
  /\ ppc \in {"ready", "asleep", "consuming", "failed", "requeueing",
              "notifying", "stopping", "joining", "done"}
  /\ cur \in Result
  /\ todo \in Seq(Batch)
  /\ retries \in [TUs -> Nat]
  /\ absorbed \in [TUs -> Nat]
  /\ poisoned \in [TUs -> Nat]
  /\ crashers \in SUBSET TUs
  /\ faults \in Nat

\* The places that hold a TU that is not settled yet.
Places(tu) ==
  ({"work"} \X {i \in DOMAIN work : tu \in work[i]})
    \cup ({"thread"} \X {t \in Threads : tu \in batchOf[t]})
    \cup ({"results"} \X {i \in DOMAIN results : tu \in results[i].tus})
    \cup ({"cur"} \X {i \in {0} : tu \in cur.tus})
    \cup ({"todo"} \X {i \in DOMAIN todo : tu \in todo[i]})

\* No TU is lost, dispatched twice at a time, absorbed twice or absorbed and
\* poisoned: either it is settled, once, or exactly one batch holds it.  This
\* is what the hand-overs queue -> thread -> results -> parent -> requeue
\* (std::move under `mu`) must preserve.
Conserved ==
  \A tu \in TUs :
     \/ absorbed[tu] + poisoned[tu] = 1 /\ Places(tu) = {}
     \/ /\ absorbed[tu] + poisoned[tu] = 0
        /\ \E p \in Places(tu) : Places(tu) = {p}

\* The counter that decides when the parent stops counts exactly the batches
\* that will still reach it: were it too small the parent would leave before
\* the last shard, were it too large it would sleep for ever.
OutstandingExact ==
  outstanding = Len(work) + Len(results)
                + Cardinality({t \in Threads : tpc[t] = "running"})

\* When the dispatcher returns, every thread is joined, both queues are empty
\* and every TU is settled exactly once.
SettledAtReturn ==
  ppc = "done" =>
    /\ work = <<>> /\ results = <<>>
    /\ \A t \in Threads : tpc[t] = "exited"
    /\ \A tu \in TUs : absorbed[tu] + poisoned[tu] = 1

\* "each TU re-dispatched at most twice" (WorkerPool.h): a TU some batch holds
\* has been re-dispatched at most kMaxTuRetries times, so the protocol ends.
RedispatchBound ==
  \A tu \in TUs : absorbed[tu] + poisoned[tu] = 0 => retries[tu] <= kMaxTuRetries

\* Innocent TUs that were blamed for a failure, not worn out by re-dispatches.
BlamedInnocents ==
  {tu \in TUs \ crashers : poisoned[tu] > 0 /\ retries[tu] <= kMaxTuRetries}

\* A TU is only re-dispatched because of somebody: the batches it was sent
\* back from are covered by the crashers already poisoned and the faults.  And
\* a fault, such as a worker that exits 0 with an unreadable shard, costs at
\* most one innocent TU outright.  Hence in a run without faults an innocent TU
\* is dropped only after more than kMaxTuRetries crashers were found.
RetriesPaidFor ==
  /\ \A tu \in TUs :
       retries[tu] <= Cardinality({c \in crashers : poisoned[c] > 0}) + faults
  /\ Cardinality(BlamedInnocents) <= faults

\* Threads that are awake and will look at the queue before they sleep, and the
\* notify that the parent still owes for the batch it has just pushed.
OnTheWay   == {t \in Threads : tpc[t] = "ready"}
NotifyOwed == IF ppc = "notifying" THEN 1 ELSE 0

\* No wake-up is lost.  While a thread sleeps, each queued batch has a taker of
\* its own on the way: a thread that is awake and holds no batch, or the notify
\* that goes with the batch.  Busy threads do not count: a batch must not wait
\* for a worker process to end while a thread sleeps.  The parent sleeps on a
\* result only until the thread that pushed it has notified, and nobody sleeps
\* once the parent joins.
NoLostWakeup ==
  /\ (\E t \in Threads : tpc[t] = "asleep")
       => Len(work) <= Cardinality(OnTheWay) + NotifyOwed
  /\ ppc = "asleep" /\ results # <<>> => \E t \in Threads : tpc[t] = "reporting"
  /\ ppc \in {"joining", "done"} => \A t \in Threads : tpc[t] # "asleep"

\* What the caller sees of the dispatcher: the fate of each TU, and the return.
Status == [tu \in TUs |-> IF absorbed[tu] > 0 THEN "absorbed"
                          ELSE IF poisoned[tu] > 0 THEN "poisoned"
                          ELSE "pending"]
Returned == ppc = "done"

Contract == INSTANCE TuDispatch WITH status <- Status, returned <- Returned

\* Every behaviour of the dispatcher is one TuDispatch allows.
ImplementsContract == Contract!Spec

\* dispatchIsolated returns: whatever the workers do, as long as each ends.
Termination == <>(ppc = "done")

=============================================================================
