-------------------------------- MODULE Mutex --------------------------------
(***************************************************************************)
(* The mutex and the condition variables of the OP-TEE core                *)
(* (core/arch/arm/kernel/mutex.c) and the wait queue they are built on     *)
(* (core/arch/arm/kernel/wait_queue.c), for one mutex m.                   *)
(*                                                                         *)
(* A section of code under m->spin_lock, wq_spin_lock or cv->spin_lock is  *)
(* one step; everything between two sections is where other threads run.   *)
(* A thread that has to wait sleeps in the normal world: it asks for that  *)
(* with an RPC and is woken by an RPC another thread makes, both of which  *)
(* the normal world only relays (external).                                *)
(*                                                                         *)
(* The clients are arbitrary, but respect what every caller in the core    *)
(* respects: only the holder unlocks, waits, signals and broadcasts, and   *)
(* no thread locks the mutex twice.                                        *)
(***************************************************************************)
EXTENDS Integers, Sequences, SequencesExt

CONSTANTS Threads,   \* thread ids (wqe->handle, m->owner_id)
          Condvars,  \* the condition variables used with m
          NoThread,  \* MUTEX_OWNER_ID_NONE
          NoCv       \* wqe->cv == NULL

ASSUME NoThreadAssumption == NoThread \notin Threads
ASSUME NoCvAssumption == NoCv \notin Condvars

VARIABLES
  value,    \* m->value
  owner,    \* m->owner_id
  wq,       \* m->wq: the threads whose wait_queue_elem is linked, in order
  done,     \* wqe->done of each thread's element
  cvOf,     \* wqe->cv of each thread's element
  failed,   \* the element is done and its wakeup RPC failed (history)
  linked,   \* cv->m == m (not NULL)
  wakeup,   \* normal world: a WAIT_QUEUE_WAKEUP for the thread is pending
  pc,       \* where the thread is in mutex.c / wait_queue.c
  arg,      \* the condvar argument of the call the thread is in
  target,   \* the local "handle" of wq_wake_one
  ret       \* where wq_wake_one returns to: "idle" or "sleep"

vars == <<value, owner, wq, done, cvOf, failed, linked, wakeup, pc, arg, target, ret>>
wqVars == <<wq, done, cvOf, failed>>
locals == <<arg, target, ret>>

(* "idle"      outside, does not hold the mutex                            *)
(* "lock"      in __mutex_lock, about to take m->spin_lock                 *)
(* "held"      holds the mutex and is in none of these functions           *)
(* "cvqueue"   in __condvar_wait, cv->m is set, about to queue and unlock  *)
(* "signal", "broadcast"  in cv_signal, has read cv->m, about to promote   *)
(* "wake"      has unlocked the mutex, about to call wq_wake_one           *)
(* "notify"    in wq_wake_one, about to make the wakeup RPC                *)
(* "sleep"     in wq_wait_final, in the sleep RPC                          *)
(* "check"     back from the sleep RPC, about to look at wqe->done         *)
PC == {"idle", "lock", "held", "cvqueue", "signal", "broadcast",
       "wake", "notify", "sleep", "check"}

Holding(t) == pc[t] \in {"held", "cvqueue", "signal", "broadcast"}

Queued == ToSet(wq)

Init == /\ value = "unlocked"
        /\ owner = NoThread
        /\ wq = <<>>
        /\ done = [t \in Threads |-> FALSE]
        /\ cvOf = [t \in Threads |-> NoCv]
        /\ failed = [t \in Threads |-> FALSE]
        /\ linked = [c \in Condvars |-> FALSE]
        /\ wakeup = [t \in Threads |-> FALSE]
        /\ pc = [t \in Threads |-> "idle"]
        /\ arg = [t \in Threads |-> NoCv]
        /\ target = [t \in Threads |-> NoThread]
        /\ ret = [t \in Threads |-> "idle"]

Goto(t, from, to) == pc[t] = from /\ pc' = [pc EXCEPT ![t] = to]

(* wq_wait_init, wq_wait_init_condvar: t's element goes to the tail.       *)
wq_wait_init(t, c) == /\ wq' = Append(wq, t)
                      /\ done' = [done EXCEPT ![t] = FALSE]
                      /\ cvOf' = [cvOf EXCEPT ![t] = c]
                      /\ UNCHANGED failed

(* m->value = LOCKED and thread_add_mutex.                                 *)
TakeMutex(t) == value' = "locked" /\ owner' = t

(* thread_rem_mutex and m->value = UNLOCKED.                               *)
DropMutex == value' = "unlocked" /\ owner' = NoThread

-----------------------------------------------------------------------------
(* mutex_lock is called.                                                   *)
mutex_lock(t) == /\ Goto(t, "idle", "lock")
                 /\ UNCHANGED <<value, owner, wqVars, linked, wakeup, locals>>

(* Definitions marked "Fault" are wrong on purpose: each stands in for the *)
(* definition after it to show that a property notices the mistake.        *)

(* Fault: m->value is not looked at again after a wait.                    *)
LockTakeBlind(t) == /\ Goto(t, "lock", "held")
                    /\ TakeMutex(t)
                    /\ UNCHANGED <<wqVars, linked, wakeup, locals>>

(* One pass of the loop of __mutex_lock: the mutex is free ...             *)
LockTake(t) == /\ Goto(t, "lock", "held")
               /\ value = "unlocked"
               /\ TakeMutex(t)
               /\ UNCHANGED <<wqVars, linked, wakeup, locals>>

(* Fault: the element is queued after the spinlock was released, when the  *)
(* mutex may be free again.                                                *)
LockWaitLate(t) == /\ Goto(t, "lock", "sleep")
                   /\ wq_wait_init(t, NoCv)
                   /\ UNCHANGED <<value, owner, linked, wakeup, locals>>

(* ... or it is taken: queue before the spinlock is released, then wait.   *)
LockWait(t) == /\ Goto(t, "lock", "sleep")
               /\ value = "locked"
               /\ wq_wait_init(t, NoCv)
               /\ UNCHANGED <<value, owner, linked, wakeup, locals>>

(* mutex_trylock succeeds; when it fails nothing changes.                  *)
mutex_trylock(t) == /\ Goto(t, "idle", "held")
                    /\ value = "unlocked"
                    /\ TakeMutex(t)
                    /\ UNCHANGED <<wqVars, linked, wakeup, locals>>

(* Fault: nobody is woken.                                                 *)
mutex_unlock_silent(t) == /\ Goto(t, "held", "idle")
                          /\ DropMutex
                          /\ UNCHANGED <<wqVars, linked, wakeup, locals>>

(* __mutex_unlock up to the call of wq_wake_one.                           *)
mutex_unlock(t) == /\ Goto(t, "held", "wake")
                   /\ DropMutex
                   /\ UNCHANGED <<wqVars, linked, wakeup, locals>>

(* The positions of elements that do not wait on a condition variable.     *)
Active == {i \in DOMAIN wq : cvOf[wq[i]] = NoCv}

First(I) == CHOOSE i \in I : \A j \in I : i <= j

(* wq_wake_one returns, and its locals are gone.                           *)
Return(t) == /\ pc' = [pc EXCEPT ![t] = ret[t]]
             /\ ret' = [ret EXCEPT ![t] = "idle"]
             /\ target' = [target EXCEPT ![t] = NoThread]

(* Fault: "handle" is not set when an element is picked.                   *)
wake_no_handle(t) ==
  /\ pc[t] = "wake"
  /\ IF Active = {}
     THEN Return(t) /\ UNCHANGED done
     ELSE LET u == wq[First(Active)]
          IN /\ done' = [done EXCEPT ![u] = TRUE]
             /\ IF done[u] THEN Return(t)
                ELSE /\ pc' = [pc EXCEPT ![t] = "notify"]
                     /\ UNCHANGED <<ret, target>>
  /\ UNCHANGED <<value, owner, wq, cvOf, failed, linked, wakeup, arg>>

(* Fault: an element is picked and no wakeup RPC follows.                  *)
wake_no_rpc(t) ==
  /\ pc[t] = "wake"
  /\ Return(t)
  /\ done' = IF Active = {} THEN done ELSE [done EXCEPT ![wq[First(Active)]] = TRUE]
  /\ UNCHANGED <<value, owner, wq, cvOf, failed, linked, wakeup, arg>>

(* wq_wake_one under wq_spin_lock: only the first active element is looked *)
(* at, and when it is done already no wakeup RPC follows.                  *)
wq_wake_one(t) ==
  /\ pc[t] = "wake"
  /\ IF Active = {}
     THEN Return(t) /\ UNCHANGED done
     ELSE LET u == wq[First(Active)]
          IN /\ done' = [done EXCEPT ![u] = TRUE]
             /\ IF done[u] THEN Return(t)
                ELSE /\ pc' = [pc EXCEPT ![t] = "notify"]
                     /\ target' = [target EXCEPT ![t] = u]
                     /\ UNCHANGED ret
  /\ UNCHANGED <<value, owner, wq, cvOf, failed, linked, wakeup, arg>>

(* The wakeup RPC of wq_wake_one reaches the normal world, and the         *)
(* function returns ...                                                    *)
wq_rpc_wakeup(t) == /\ pc[t] = "notify"
                    /\ Return(t)
                    /\ wakeup' = [wakeup EXCEPT ![target[t]] = TRUE]
                    /\ UNCHANGED <<value, owner, wqVars, linked, arg>>

(* ... or it fails, which __wq_rpc only prints (no memory for the RPC, or  *)
(* an error of the normal world): the element stays done and nobody wakes  *)
(* the thread.                                                             *)
wq_rpc_wakeup_error(t) ==
  /\ pc[t] = "notify"
  /\ Return(t)
  /\ failed' = [failed EXCEPT ![target[t]] = done[target[t]]]
  /\ UNCHANGED <<value, owner, wq, done, cvOf, linked, wakeup, arg>>

(* The sleep RPC returns because of a wakeup ...                           *)
wq_rpc_sleep(t) == /\ Goto(t, "sleep", "check")
                   /\ wakeup[t]
                   /\ wakeup' = [wakeup EXCEPT ![t] = FALSE]
                   /\ UNCHANGED <<value, owner, wqVars, linked, locals>>

(* ... or with an error, which __wq_rpc only prints.                       *)
wq_rpc_sleep_error(t) ==
  /\ Goto(t, "sleep", "check")
  /\ UNCHANGED <<value, owner, wqVars, linked, wakeup, locals>>

(* Fault: the element of a thread that goes on stays in the queue.         *)
wait_final_linked(t) ==
  /\ Goto(t, "check", IF done[t] THEN "lock" ELSE "sleep")
  /\ UNCHANGED <<value, owner, wqVars, linked, wakeup, locals>>

(* wq_wait_final after the RPC: sleep again, or unlink the element and go  *)
(* on; __mutex_lock tries again and __condvar_wait calls mutex_lock.       *)
wq_wait_final(t) ==
  /\ IF done[t]
     THEN /\ Goto(t, "check", "lock")
          /\ wq' = RemoveAt(wq, CHOOSE i \in DOMAIN wq : wq[i] = t)
          /\ done' = [done EXCEPT ![t] = FALSE]
          /\ failed' = [failed EXCEPT ![t] = FALSE]
     ELSE /\ Goto(t, "check", "sleep")
          /\ UNCHANGED <<wq, done, failed>>
  /\ UNCHANGED <<value, owner, cvOf, linked, wakeup, locals>>

-----------------------------------------------------------------------------
(* Fault: cv->m is not set.                                                *)
condvar_wait_untied(t, c) == /\ Goto(t, "held", "cvqueue")
                             /\ arg' = [arg EXCEPT ![t] = c]
                             /\ UNCHANGED <<value, owner, wqVars, linked, wakeup, target, ret>>

(* __condvar_wait under cv->spin_lock.                                     *)
condvar_wait(t, c) == /\ Goto(t, "held", "cvqueue")
                      /\ arg' = [arg EXCEPT ![t] = c]
                      /\ linked' = [linked EXCEPT ![c] = TRUE]
                      /\ UNCHANGED <<value, owner, wqVars, wakeup, target, ret>>

(* __condvar_wait under m->spin_lock, up to the call of wq_wake_one.       *)
CondvarQueue(t) == /\ Goto(t, "cvqueue", "wake")
                   /\ wq_wait_init(t, arg[t])
                   /\ DropMutex
                   /\ arg' = [arg EXCEPT ![t] = NoCv]
                   /\ ret' = [ret EXCEPT ![t] = "sleep"]
                   /\ UNCHANGED <<linked, wakeup, target>>

(* cv_signal under cv->spin_lock: with cv->m == NULL it is done.           *)
cv_signal(t, c, how) ==
  /\ linked[c]
  /\ Goto(t, "held", how)
  /\ arg' = [arg EXCEPT ![t] = c]
  /\ UNCHANGED <<value, owner, wqVars, linked, wakeup, target, ret>>

(* The positions of the elements that wait on c.                           *)
WaitingOn(c) == {i \in DOMAIN wq : cvOf[wq[i]] = c}

(* Fault: only_one is ignored.                                             *)
promote_all(t) ==
  /\ pc[t] \in {"signal", "broadcast"}
  /\ pc' = [pc EXCEPT ![t] = "held"]
  /\ cvOf' = [u \in Threads |-> IF cvOf[u] = arg[t] THEN NoCv ELSE cvOf[u]]
  /\ arg' = [arg EXCEPT ![t] = NoCv]
  /\ UNCHANGED <<value, owner, wq, done, failed, linked, wakeup, target, ret>>

(* wq_promote_condvar: the first element that waits on the condvar, or all *)
(* of them, become active where they are in the queue.                     *)
wq_promote_condvar(t) ==
  LET I == WaitingOn(arg[t])
      P == IF pc[t] = "broadcast" \/ I = {} THEN I ELSE {First(I)}
  IN /\ pc[t] \in {"signal", "broadcast"}
     /\ pc' = [pc EXCEPT ![t] = "held"]
     /\ cvOf' = [u \in Threads |-> IF \E i \in P : wq[i] = u THEN NoCv
                                   ELSE cvOf[u]]
     /\ arg' = [arg EXCEPT ![t] = NoCv]
     /\ UNCHANGED <<value, owner, wq, done, failed, linked, wakeup, target, ret>>

(* condvar_destroy, by a thread that knows nobody else uses c.             *)
condvar_destroy(t, c) ==
  /\ pc[t] = "idle"
  /\ \A u \in Threads : pc[u] \in {"cvqueue", "signal", "broadcast"} => arg[u] # c
  /\ WaitingOn(c) = {}                 \* otherwise the function panics
  /\ linked[c]
  /\ linked' = [linked EXCEPT ![c] = FALSE]
  /\ UNCHANGED <<value, owner, wqVars, wakeup, pc, locals>>

-----------------------------------------------------------------------------
(* Steps a client decides on ...                                           *)
Call(t) == \/ mutex_lock(t) \/ mutex_trylock(t) \/ mutex_unlock(t)
           \/ \E c \in Condvars :
                \/ condvar_wait(t, c)
                \/ cv_signal(t, c, "signal") \/ cv_signal(t, c, "broadcast")
                \/ condvar_destroy(t, c)

(* ... and steps a running thread takes by itself.                         *)
Run(t) == \/ LockTake(t) \/ LockWait(t)
          \/ wq_wake_one(t) \/ wq_rpc_wakeup(t)
          \/ wq_rpc_sleep(t) \/ wq_wait_final(t)
          \/ CondvarQueue(t) \/ wq_promote_condvar(t)

(* ... and RPCs that fail, which nothing obliges them to.                  *)
Error(t) == wq_rpc_wakeup_error(t) \/ wq_rpc_sleep_error(t)

Next == \E t \in Threads : Call(t) \/ Run(t) \/ Error(t)

Spec == Init /\ [][Next]_vars

(* A thread in the secure world keeps running and the normal world relays  *)
(* the wakeups it is given; nobody is obliged to lock, to unlock or to     *)
(* signal, and any wakeup RPC may fail.                                    *)
FairSpec == Spec /\ \A t \in Threads : WF_vars(Run(t))

-----------------------------------------------------------------------------
(* Types, and that the locals of mutex.c and wait_queue.c live exactly as  *)
(* long as the code they belong to: a thread that is about to make the     *)
(* wakeup RPC knows whom to wake, and one that uses a condvar knows which. *)
TypeOK == /\ value \in {"unlocked", "locked"}
          /\ owner \in Threads \cup {NoThread}
          /\ wq \in Seq(Threads)
          /\ done \in [Threads -> BOOLEAN]
          /\ cvOf \in [Threads -> Condvars \cup {NoCv}]
          /\ failed \in [Threads -> BOOLEAN]
          /\ linked \in [Condvars -> BOOLEAN]
          /\ wakeup \in [Threads -> BOOLEAN]
          /\ pc \in [Threads -> PC]
          /\ arg \in [Threads -> Condvars \cup {NoCv}]
          /\ target \in [Threads -> Threads \cup {NoThread}]
          /\ ret \in [Threads -> {"idle", "sleep"}]
          /\ \A t \in Threads :
               /\ pc[t] = "notify" <=> target[t] \in Threads
               /\ pc[t] \in {"cvqueue", "signal", "broadcast"} <=> arg[t] \in Condvars
               /\ ret[t] = "sleep" => pc[t] \in {"wake", "notify"}

(* Mutual exclusion, the way the code asserts it: whoever is between lock  *)
(* and unlock finds the mutex locked (mutex.c:94, 244) and itself as the   *)
(* owner (thread_rem_mutex), and a free mutex has no owner                 *)
(* (thread_add_mutex).                                                     *)
OwnerIsHolder == /\ \A t \in Threads : Holding(t) <=> owner = t
                 /\ value = "locked" <=> owner # NoThread

(* A thread has at most one element in the queue, and has one exactly when *)
(* it is on its way to sleep, asleep or about to check: an element never   *)
(* outlives the stack frame it lives in.                                   *)
QueuedIsWaiting ==
  /\ \A i, j \in DOMAIN wq : wq[i] = wq[j] => i = j
  /\ \A t \in Threads :
       t \in Queued <=> \/ pc[t] \in {"sleep", "check"}
                        \/ pc[t] \in {"wake", "notify"} /\ ret[t] = "sleep"

(* Only an element that no longer waits on a condition variable is done,   *)
(* and a condition variable with waiters is tied to the mutex, so that     *)
(* cv_signal reaches them (cv->m, mutex.c:193).                            *)
WaitersReachable ==
  \A t \in Threads :
    /\ t \in Queued /\ done[t] => cvOf[t] = NoCv
    /\ t \in Queued /\ cvOf[t] # NoCv => linked[cvOf[t]]
    /\ t \notin Queued => cvOf[t] = NoCv /\ ~done[t]
    /\ pc[t] \in {"cvqueue", "signal", "broadcast"} => linked[arg[t]]

(* No wakeup is lost (the comment at mutex.c:51): when the mutex is free   *)
(* and somebody waits for it, somebody is about to wake the first waiter,  *)
(* or a waiter was picked, or a thread is about to try to lock; and a      *)
(* waiter that was picked does not sleep on, unless the wakeup RPC for it  *)
(* failed (wait_queue.c:69): that failure is the only way to lose one.     *)
FreeIsNoticed ==
  value = "unlocked" /\ (\E t \in Queued : cvOf[t] = NoCv)
    => \/ \E t \in Threads : pc[t] \in {"wake", "lock"}
       \/ \E t \in Queued : done[t]

PickedIsWoken ==
  \A t \in Queued : done[t] => \/ pc[t] = "check" \/ wakeup[t] \/ failed[t]
                               \/ \E u \in Threads : pc[u] = "notify" /\ target[u] = t

NoLostWakeup == FreeIsNoticed /\ PickedIsWoken

(* t is in __mutex_lock, or __condvar_wait wants the mutex back for it.    *)
Wants(t) == \/ pc[t] = "lock"
            \/ t \in Queued /\ cvOf[t] = NoCv

(* A waiter that was picked and whose wakeup RPC failed: it sleeps until   *)
(* its own RPC ends with an error.                                         *)
Stranded(t) == t \in Queued /\ failed[t]

(* When threads want the mutex in __mutex_lock, one of them gets it, unless*)
(* somebody holds it: unlock, wq_wake_one and the sleep and wakeup RPCs    *)
(* never end with everyone asleep and the mutex free, unless a wakeup RPC  *)
(* failed for the waiter that was picked.                                  *)
Progress ==
  (\E t \in Threads : Wants(t)) ~> (value = "locked" \/ \E t \in Threads : Stranded(t))

(* A waiter that wq_wake_one has marked done leaves wq_wait_final and tries*)
(* for the mutex again, whatever the order of its sleep RPC and the wakeup,*)
(* unless the wakeup RPC failed.                                           *)
PickedRuns ==
  \A t \in Threads : (t \in Queued /\ done[t]) ~> (pc[t] = "lock" \/ Stranded(t))

(* What a thread is doing, in the terms of Monitor.tla.                    *)
Status(t) ==
  IF pc[t] \in {"held", "cvqueue"} THEN "in"
  ELSE IF pc[t] \in {"signal", "broadcast"} THEN pc[t]
  ELSE IF pc[t] = "idle" \/ (pc[t] \in {"wake", "notify"} /\ ret[t] = "idle") THEN "out"
  ELSE IF cvOf[t] # NoCv THEN "wait"
  ELSE "want"

(* The condition variable t signals.                                       *)
Signals(t) == IF pc[t] = "cvqueue" THEN NoCv ELSE arg[t]

Mon == INSTANCE Monitor WITH
         holder <- owner,
         st <- [t \in Threads |-> Status(t)],
         on <- cvOf,
         sig <- [t \in Threads |-> Signals(t)]

(* The mutex and its condition variables are a monitor: the queue, the     *)
(* promotion of waiters and the sleep and wakeup RPCs implement entering,  *)
(* leaving, waiting and signalling, and nothing else.                      *)
IsMonitor == Mon!Spec
=============================================================================
