------------------------------- MODULE Monitor -------------------------------
(***************************************************************************)
(* What the core's mutexes and condition variables promise to their users: *)
(* at most one thread is inside, waiting on a condition variable leaves    *)
(* the monitor in the same step, and a signal moves exactly one waiter (a  *)
(* broadcast every waiter) to the threads that want to get back in.        *)
(*                                                                         *)
(* There is no queue, no sleep and no wakeup here: Mutex.tla, the model of *)
(* mutex.c and wait_queue.c, implements this specification.                *)
(***************************************************************************)

CONSTANTS Threads,   \* the threads of the secure world
          Condvars,  \* the condition variables tied to this mutex
          NoThread,
          NoCv

VARIABLES holder,    \* the thread inside the monitor, or NoThread
          st,        \* what each thread is doing
          on,        \* the condition variable a thread waits on, or NoCv
          sig        \* the condition variable a thread signals, or NoCv

vars == <<holder, st, on, sig>>

Init == /\ holder = NoThread
        /\ st = [t \in Threads |-> "out"]
        /\ on = [t \in Threads |-> NoCv]
        /\ sig = [t \in Threads |-> NoCv]

Enter(t) == /\ holder = NoThread
            /\ holder' = t
            /\ st' = [st EXCEPT ![t] = "in"]
            /\ UNCHANGED <<on, sig>>

Request(t) == /\ st[t] = "out"
              /\ st' = [st EXCEPT ![t] = "want"]
              /\ UNCHANGED <<holder, on, sig>>

Acquire(t) == st[t] = "want" /\ Enter(t)

TryAcquire(t) == st[t] = "out" /\ Enter(t)

Release(t) == /\ st[t] = "in"
              /\ holder' = NoThread
              /\ st' = [st EXCEPT ![t] = "out"]
              /\ UNCHANGED <<on, sig>>

Wait(t, c) == /\ st[t] = "in"
              /\ holder' = NoThread
              /\ st' = [st EXCEPT ![t] = "wait"]
              /\ on' = [on EXCEPT ![t] = c]
              /\ UNCHANGED sig

(* The holder starts a signal or a broadcast (how) on c.                   *)
Notify(t, c, how) == /\ st[t] = "in"
                     /\ st' = [st EXCEPT ![t] = how]
                     /\ sig' = [sig EXCEPT ![t] = c]
                     /\ UNCHANGED <<holder, on>>

Waiters(c) == {u \in Threads : on[u] = c}

(* The threads in S stop waiting and want to get back in; t is still in.   *)
Resume(t, S) ==
  /\ st' = [u \in Threads |-> IF u = t THEN "in" ELSE IF u \in S THEN "want" ELSE st[u]]
  /\ on' = [u \in Threads |-> IF u \in S THEN NoCv ELSE on[u]]
  /\ sig' = [sig EXCEPT ![t] = NoCv]
  /\ UNCHANGED holder

Signal(t) == /\ st[t] = "signal"
             /\ \/ Waiters(sig[t]) = {} /\ Resume(t, {})
                \/ \E u \in Waiters(sig[t]) : Resume(t, {u})

Broadcast(t) == /\ st[t] = "broadcast"
                /\ Resume(t, Waiters(sig[t]))

Next == \E t \in Threads :
          \/ Request(t) \/ Acquire(t) \/ TryAcquire(t) \/ Release(t)
          \/ Signal(t) \/ Broadcast(t)
          \/ \E c \in Condvars :
               Wait(t, c) \/ Notify(t, c, "signal") \/ Notify(t, c, "broadcast")

Spec == Init /\ [][Next]_vars
=============================================================================
