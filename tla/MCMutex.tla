------------------------------- MODULE MCMutex -------------------------------
(* Mutex.tla for three threads and one condition variable.                 *)
EXTENDS Mutex
=============================================================================
