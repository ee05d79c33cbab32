----------------------------- MODULE TuDispatch -----------------------------
(***************************************************************************)
(* What the isolated-worker dispatcher promises its callers                *)
(* (include/vycor/callgraph/WorkerPool.h, the contract above               *)
(* dispatchIsolated and bakeIsolatedWithRunner): every translation unit    *)
(* (TU) handed to it is either absorbed from a shard or reported as        *)
(* poisoned, exactly one of the two and exactly once, and the call returns *)
(* only when nothing is left pending.  Batches, worker processes, threads, *)
(* queues and retries are the business of WorkerPool, which implements it. *)
(***************************************************************************)
CONSTANT TUs          \* the TUs of one dispatch

VARIABLES status,     \* what has become of each TU
          returned    \* dispatchIsolated has returned to its caller

\* With no TU at all the call returns at once.
Init == /\ status = [tu \in TUs |-> "pending"]
        /\ returned = (TUs = {})

Pending == {tu \in TUs : status[tu] = "pending"}

\* consumeShard accepted one worker's shard: all TUs of the batch at once.
Absorb(S) == /\ S \subseteq Pending
             /\ status' = [tu \in TUs |-> IF tu \in S THEN "absorbed"
                                                      ELSE status[tu]]
             /\ UNCHANGED returned

\* onPoison was called for each TU of S.
Drop(S) == /\ S \subseteq Pending
           /\ status' = [tu \in TUs |-> IF tu \in S THEN "poisoned"
                                                    ELSE status[tu]]
           /\ UNCHANGED returned

Return == /\ Pending = {}
          /\ returned' = TRUE
          /\ UNCHANGED status

Next == \/ \E S \in SUBSET TUs : Absorb(S) \/ Drop(S)
        \/ Return

Spec == Init /\ [][Next]_<<status, returned>>
=============================================================================
