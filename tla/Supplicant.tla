----------------------------- MODULE Supplicant ------------------------------
(***************************************************************************)
(* The threads of tee-supplicant                                           *)
(* (optee_client/tee-supplicant/src/tee_supplicant.c).  Each waits for a   *)
(* request in the driver, and the one that takes the last waiter away      *)
(* starts another thread, so that a request that takes long does not keep  *)
(* the others waiting.  num_waiters is what they know of each other.       *)
(*                                                                         *)
(* The driver of the kernel hands out requests with a meta parameter       *)
(* (num_meta is not 0) and is external: a request is in the queue, and     *)
(* then with a thread (serving), until it is answered.  When the process   *)
(* exits the driver answers what is left with an error.                    *)
(***************************************************************************)
EXTENDS Naturals, FiniteSets, FiniteSetsExt, Sequences

CONSTANTS MaxWorkers,  \* bound on the threads of the process
          Requests,    \* a request is named by who makes it
          NoRequest

ASSUME WorkersAssumption == MaxWorkers \in Nat \ {0}
ASSUME NoRequestAssumption == NoRequest \notin Requests

(* Threads in the order in which they are created; 1 is main.              *)
Workers == 1..MaxWorkers

VARIABLES
  wpc,          \* where the thread is; "none": not created
  serving,      \* the request it has
  num_waiters,
  abort,        \* arg->abort
  queue         \* requests that wait in the driver, the oldest first

wvars == <<wpc, serving, num_waiters, abort, queue>>

SupplicantInit == /\ wpc = [w \in Workers |-> IF w = 1 THEN "loop" ELSE "none"]
                  /\ serving = [w \in Workers |-> NoRequest]
                  /\ num_waiters = 0
                  /\ abort = FALSE
                  /\ queue = <<>>

WGoto(w, l) == wpc' = [wpc EXCEPT ![w] = l]
Exited == wpc[1] = "exit"   \* the process
WorkerAt(w, l) == ~Exited /\ wpc[w] = l

num_waiters_inc == num_waiters' = num_waiters + 1
num_waiters_dec == num_waiters' = num_waiters - 1

-----------------------------------------------------------------------------
(* Fault: the new thread does not compensate.                              *)
main_uncompensated(w) ==
  /\ WorkerAt(w, "new")
  /\ WGoto(w, "loop")
  /\ UNCHANGED <<serving, num_waiters, abort, queue>>

(* thread_main compensates for the increase in spawn_thread.               *)
thread_main(w) ==
  /\ WorkerAt(w, "new")
  /\ num_waiters_dec
  /\ WGoto(w, "loop")
  /\ UNCHANGED <<serving, abort, queue>>

(* The loop of thread_main and main, up to num_waiters_inc.                *)
process_one_request(w) ==
  /\ WorkerAt(w, "loop") /\ ~abort
  /\ num_waiters_inc
  /\ WGoto(w, "recv")
  /\ UNCHANGED <<serving, abort, queue>>

(* The end of the loop.  When main returns, the process exits.             *)
loop_ends(w) ==
  /\ WorkerAt(w, "loop") /\ abort
  /\ wpc' = [v \in Workers |-> IF v = w \/ w = 1 THEN "exit" ELSE wpc[v]]
  /\ num_waiters' = IF w = 1 THEN 0 ELSE num_waiters
  /\ UNCHANGED <<serving, abort, queue>>

read_request(w) ==
  /\ WorkerAt(w, "recv") /\ queue # <<>>
  /\ queue' = Tail(queue)
  /\ serving' = [serving EXCEPT ![w] = Head(queue)]
  /\ WGoto(w, "received")
  /\ UNCHANGED <<num_waiters, abort>>

(* Fault: the thread looks the wrong way at what num_waiters_dec returns.  *)
spawns_with_waiters(w) ==
  /\ WorkerAt(w, "received")
  /\ num_waiters_dec
  /\ WGoto(w, IF num_waiters' # 0 THEN "spawn" ELSE "work")
  /\ UNCHANGED <<serving, abort, queue>>

(* num_waiters_dec; the last waiter starts another thread.                 *)
waiter_gone(w) ==
  /\ WorkerAt(w, "received")
  /\ num_waiters_dec
  /\ WGoto(w, IF num_waiters' = 0 THEN "spawn" ELSE "work")
  /\ UNCHANGED <<serving, abort, queue>>

(* The waiters are increased before the thread is created; pthread_create  *)
(* fails when there would be more than limit, or for other reasons.        *)
spawn_thread(w) ==
  /\ WorkerAt(w, "spawn")
  /\ num_waiters_inc
  /\ WGoto(w, "create")
  /\ UNCHANGED <<serving, abort, queue>>

pthread_create(w, limit) ==
  LET none == {v \in 1..limit : wpc[v] = "none"}
  IN /\ WorkerAt(w, "create") /\ none # {}
     /\ wpc' = [wpc EXCEPT ![w] = "work", ![Min(none)] = "new"]
     /\ UNCHANGED <<serving, num_waiters, abort, queue>>

(* process_one_request returns false.                                      *)
gives_up(w) == abort' = TRUE /\ WGoto(w, "loop")

pthread_create_fails(w) ==
  /\ WorkerAt(w, "create")
  /\ num_waiters_dec
  /\ gives_up(w)
  /\ UNCHANGED <<serving, queue>>

(* write_response: the request c is answered.                              *)
write_response(w, c) ==
  /\ WorkerAt(w, "work") /\ serving[w] = c
  /\ serving' = [serving EXCEPT ![w] = NoRequest]
  /\ WGoto(w, "loop")
  /\ UNCHANGED <<num_waiters, abort, queue>>

(* The ioctl of read_request or write_response fails, or find_params does. *)
request_fails(w) ==
  /\ WorkerAt(w, "recv") \/ WorkerAt(w, "received") \/ WorkerAt(w, "work")
  /\ gives_up(w)
  /\ UNCHANGED <<serving, num_waiters, queue>>

-----------------------------------------------------------------------------
(* External: the driver gives the request c to the process, and answers    *)
(* all that are left when the process is gone.                             *)
supp_request(c) == queue' = Append(queue, c) /\ UNCHANGED <<wpc, serving, num_waiters, abort>>

supp_release ==
  /\ Exited
  /\ queue # <<>> \/ \E w \in Workers : serving[w] # NoRequest
  /\ queue' = <<>>
  /\ serving' = [w \in Workers |-> NoRequest]
  /\ UNCHANGED <<wpc, num_waiters, abort>>
=============================================================================
