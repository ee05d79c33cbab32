---------------------------- MODULE MCWorkerPool ----------------------------
(* WorkerPool for TLC: five files in a batch of four and one of one, shared  *)
(* by two dispatch threads, so that a batch is bisected twice while another  *)
(* thread works, retries run out, and threads sleep and wake in every order. *)
EXTENDS WorkerPool
=============================================================================
