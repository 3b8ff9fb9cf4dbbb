---------------------------- MODULE MCSignalQueue -----------------------------
(* Three requests, one of them not queuable.                                *)
EXTENDS SignalQueue
=============================================================================
