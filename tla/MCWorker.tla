------------------------------- MODULE MCWorker -------------------------------
(* Constants of the run of ReconcilerWorker: up to three signals. *)
EXTENDS WorkerProps
=============================================================================
