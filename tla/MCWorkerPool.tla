---------------------------- MODULE MCWorkerPool ----------------------------
(* A small instance of WorkerPool. *)
EXTENDS WorkerPool
=============================================================================
