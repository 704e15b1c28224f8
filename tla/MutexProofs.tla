----------------------------- MODULE MutexProofs -----------------------------
(***************************************************************************)
(* Proofs about Mutex.tla for every number of threads and of condition     *)
(* variables.                                                              *)
(***************************************************************************)
EXTENDS Mutex, WellFoundedInduction, TLAPS

(* The inductive invariant: none of its parts is inductive alone.  Mutual  *)
(* exclusion keeps promotion from happening while the mutex is free, the   *)
(* shape of the queue says which element wq_wait_final unlinks, and both   *)
(* are needed to see that no wakeup is lost.                               *)
IInv == /\ TypeOK
        /\ OwnerIsHolder
        /\ QueuedIsWaiting
        /\ WaitersReachable
        /\ NoLostWakeup

(* No element twice.                                                       *)
Distinct(q) == \A i, j \in DOMAIN q : q[i] = q[j] => i = j

-----------------------------------------------------------------------------
(* Queueing at the tail (slist_add_tail) adds one element.                 *)
LEMMA AppendLemma ==
  ASSUME NEW S, NEW q \in Seq(S), NEW t \in S
  PROVE  /\ Append(q, t) \in Seq(S)
         /\ ToSet(Append(q, t)) = ToSet(q) \cup {t}
         /\ Distinct(q) /\ t \notin ToSet(q) => Distinct(Append(q, t))
<1> DEFINE r == Append(q, t)
<1>1. /\ r \in Seq(S)
      /\ Len(r) = Len(q) + 1
      /\ \A i \in 1 .. Len(q) : r[i] = q[i]
      /\ r[Len(q) + 1] = t
  OBVIOUS
<1>2. DOMAIN r = 1 .. Len(q) + 1 /\ DOMAIN q = 1 .. Len(q) /\ Len(q) \in Nat
  BY <1>1
<1>3. ToSet(r) = ToSet(q) \cup {t}
  <2>1. ToSet(r) \subseteq ToSet(q) \cup {t}
    BY <1>1, <1>2 DEF ToSet
  <2>2. ToSet(q) \cup {t} \subseteq ToSet(r)
    BY <1>1, <1>2 DEF ToSet
  <2> QED BY <2>1, <2>2
<1>4. Distinct(q) /\ t \notin ToSet(q) => Distinct(r)
  BY <1>1, <1>2 DEF Distinct, ToSet
<1> QED BY <1>1, <1>3, <1>4

(* Unlinking an element (SLIST_REMOVE) takes exactly that one out.         *)
LEMMA RemoveLemma ==
  ASSUME NEW S, NEW q \in Seq(S), NEW k \in DOMAIN q, Distinct(q)
  PROVE  /\ RemoveAt(q, k) \in Seq(S)
         /\ ToSet(RemoveAt(q, k)) = ToSet(q) \ {q[k]}
         /\ Distinct(RemoveAt(q, k))
<1> DEFINE a == SubSeq(q, 1, k - 1)
           b == SubSeq(q, k + 1, Len(q))
           r == a \o b
           n == Len(q)
<1>1. n \in Nat /\ DOMAIN q = 1 .. n /\ k \in 1 .. n
  OBVIOUS
<1>2. /\ a \in Seq(S) /\ Len(a) = k - 1
      /\ \A i \in 1 .. k - 1 : a[i] = q[i]
  BY <1>1
<1>3. /\ b \in Seq(S) /\ Len(b) = n - k
      /\ \A i \in 1 .. n - k : b[i] = q[i + k]
  BY <1>1
<1>4. /\ r \in Seq(S) /\ Len(r) = n - 1 /\ DOMAIN r = 1 .. n - 1
      /\ \A i \in 1 .. n - 1 : r[i] = IF i < k THEN q[i] ELSE q[i + 1]
  <2>1. r \in Seq(S) /\ Len(r) = n - 1 /\ DOMAIN r = 1 .. n - 1
    BY <1>1, <1>2, <1>3
  <2>2. ASSUME NEW i \in 1 .. n - 1
        PROVE  r[i] = IF i < k THEN q[i] ELSE q[i + 1]
    <3>0. /\ i \in 1 .. Len(a) => r[i] = a[i]
          /\ i \in Len(a) + 1 .. Len(a) + Len(b) => r[i] = b[i - Len(a)]
      BY <1>2, <1>3
    <3> HIDE DEF a, b, r
    <3>1. CASE i < k
      BY <1>1, <1>2, <3>0, <3>1
    <3>2. CASE ~ (i < k)
      <4>1. i - (k - 1) \in 1 .. n - k /\ r[i] = b[i - (k - 1)]
        BY <1>1, <1>2, <1>3, <3>0, <3>2
      <4>2. i - (k - 1) + k = i + 1
        BY <1>1
      <4> QED BY <1>3, <3>2, <4>1, <4>2
    <3> QED BY <3>1, <3>2
  <2> QED BY <2>1, <2>2
<1> HIDE DEF r
<1>5. ToSet(r) = ToSet(q) \ {q[k]}
  <2>1. ToSet(r) \subseteq ToSet(q) \ {q[k]}
    BY <1>1, <1>4 DEF ToSet, Distinct
  <2>2. ASSUME NEW x \in ToSet(q), x # q[k] PROVE x \in ToSet(r)
    <3>1. PICK j \in 1 .. n : q[j] = x
      BY <1>1 DEF ToSet
    <3>2. CASE j < k
      <4>1. j \in 1 .. n - 1 /\ r[j] = x
        BY <1>1, <1>4, <3>1, <3>2
      <4> QED BY <1>4, <4>1 DEF ToSet
    <3>3. CASE j > k
      <4>1. j - 1 \in 1 .. n - 1 /\ r[j - 1] = x
        BY <1>1, <1>4, <3>1, <3>3
      <4> QED BY <1>4, <4>1 DEF ToSet
    <3> QED BY <1>1, <2>2, <3>1, <3>2, <3>3
  <2> QED BY <2>1, <2>2
<1>6. ASSUME NEW i \in 1 .. n - 1, NEW j \in 1 .. n - 1, r[i] = r[j]
      PROVE  i = j
  <2>1. r[i] = (IF i < k THEN q[i] ELSE q[i + 1]) /\ r[j] = (IF j < k THEN q[j] ELSE q[j + 1])
    BY <1>4
  <2> DEFINE x == IF i < k THEN i ELSE i + 1
             y == IF j < k THEN j ELSE j + 1
  <2>2. x \in DOMAIN q /\ y \in DOMAIN q /\ q[x] = q[y]
    <3>1. x \in 1 .. n /\ y \in 1 .. n
      BY <1>1
    <3>2. r[i] = q[x] /\ r[j] = q[y]
      BY <2>1
    <3> QED BY <1>1, <1>6, <3>1, <3>2
  <2>3. x = y
    <3> HIDE DEF x, y
    <3> QED BY <2>2 DEF Distinct
  <2> QED BY <1>1, <2>3
<1> QED BY <1>4, <1>5, <1>6 DEF RemoveAt, r, Distinct

(* First picks the smallest position of a non-empty set of positions.      *)
LEMMA FirstLemma ==
  ASSUME NEW I \in SUBSET Nat, I # {}
  PROVE  First(I) \in I
<1> DEFINE R == OpToRel(<, Nat)
<1>1. \A x, y \in Nat : <<y, x>> \in R <=> y < x
  BY DEF OpToRel
<1>2. \E i \in I : \A j \in I : ~ (<<j, i>> \in R)
  <2> HIDE DEF R
  <2>1. IsWellFoundedOn(R, Nat)
    BY NatLessThanWellFounded DEF R
  <2> QED BY <2>1, WFMin
<1> HIDE DEF R
<1>3. PICK i \in I : \A j \in I : ~ (<<j, i>> \in R)
  BY <1>2
<1>4. ASSUME NEW j \in I PROVE i <= j
  <2>1. i \in Nat /\ j \in Nat /\ ~ (<<j, i>> \in R)
    BY <1>3
  <2>2. ~ (j < i)
    BY <1>1, <2>1
  <2> QED BY <2>1, <2>2
<1> QED BY <1>3, <1>4 DEF First

-----------------------------------------------------------------------------
(* A fresh mutex (MUTEX_INITIALIZER, mutex_init) satisfies the invariant.  *)
THEOREM InitIInv == Init => IInv
<1> SUFFICES ASSUME Init PROVE IInv
  OBVIOUS
<1>1. Queued = {}
  BY DEF Init, Queued, ToSet
<1>2. TypeOK
  BY NoThreadAssumption, NoCvAssumption DEF Init, TypeOK, PC
<1>3. OwnerIsHolder
  BY NoThreadAssumption DEF Init, OwnerIsHolder, Holding
<1>4. QueuedIsWaiting /\ WaitersReachable /\ NoLostWakeup
  BY <1>1 DEF Init, QueuedIsWaiting, WaitersReachable, NoLostWakeup, FreeIsNoticed,
       PickedIsWoken
<1> QED BY <1>2, <1>3, <1>4 DEF IInv

(* Every step of mutex.c and wait_queue.c keeps the invariant.             *)
LEMMA NextIInv == IInv /\ [Next]_vars => IInv'
<1> SUFFICES ASSUME IInv, [Next]_vars PROVE IInv'
  OBVIOUS
<1> USE NoThreadAssumption, NoCvAssumption
<1>a. TypeOK /\ OwnerIsHolder /\ QueuedIsWaiting /\ WaitersReachable /\ NoLostWakeup
  BY DEF IInv
<1>b. Queued \subseteq Threads
  BY <1>a DEF TypeOK, Queued, ToSet
<1>1. ASSUME NEW t \in Threads, mutex_lock(t) PROVE IInv'
  <2>0. Queued' = Queued
    BY <1>1 DEF Queued, mutex_lock, Goto, wqVars
  <2>1. TypeOK'
    BY <1>a, <1>1 DEF TypeOK, mutex_lock, Goto, PC, wqVars, locals
  <2>2. OwnerIsHolder'
    BY <1>a, <1>1 DEF TypeOK, OwnerIsHolder, Holding, mutex_lock, Goto
  <2>3. QueuedIsWaiting'
    BY <1>a, <1>1, <2>0 DEF TypeOK, QueuedIsWaiting, mutex_lock, Goto, wqVars, locals
  <2>4. WaitersReachable'
    BY <1>a, <1>1, <2>0 DEF TypeOK, WaitersReachable, mutex_lock, Goto, wqVars, locals
  <2>5. NoLostWakeup'
    BY <1>a, <1>1, <2>0 DEF TypeOK, NoLostWakeup, FreeIsNoticed, PickedIsWoken,
         mutex_lock, Goto, wqVars, locals
  <2> QED BY <2>1, <2>2, <2>3, <2>4, <2>5 DEF IInv
<1>2. ASSUME NEW t \in Threads, LockTake(t) PROVE IInv'
  <2>0. Queued' = Queued
    BY <1>2 DEF Queued, LockTake, TakeMutex, Goto, wqVars
  <2>1. TypeOK'
    BY <1>a, <1>2 DEF TypeOK, LockTake, TakeMutex, Goto, PC, wqVars, locals
  <2>2. OwnerIsHolder'
    BY <1>a, <1>2 DEF TypeOK, OwnerIsHolder, Holding, LockTake, TakeMutex, Goto
  <2>3. QueuedIsWaiting'
    BY <1>a, <1>2, <2>0 DEF TypeOK, QueuedIsWaiting, LockTake, TakeMutex, Goto, wqVars,
         locals
  <2>4. WaitersReachable'
    BY <1>a, <1>2, <2>0 DEF TypeOK, WaitersReachable, LockTake, TakeMutex, Goto, wqVars,
         locals
  <2>5. NoLostWakeup'
    BY <1>a, <1>2, <2>0 DEF TypeOK, NoLostWakeup, FreeIsNoticed, PickedIsWoken, LockTake,
         TakeMutex, Goto, wqVars, locals
  <2> QED BY <2>1, <2>2, <2>3, <2>4, <2>5 DEF IInv
<1>3. ASSUME NEW t \in Threads, mutex_trylock(t) PROVE IInv'
  <2>0. Queued' = Queued
    BY <1>3 DEF Queued, mutex_trylock, TakeMutex, Goto, wqVars
  <2>1. TypeOK'
    BY <1>a, <1>3 DEF TypeOK, mutex_trylock, TakeMutex, Goto, PC, wqVars, locals
  <2>2. OwnerIsHolder'
    BY <1>a, <1>3 DEF TypeOK, OwnerIsHolder, Holding, mutex_trylock, TakeMutex, Goto
  <2>3. QueuedIsWaiting'
    BY <1>a, <1>3, <2>0 DEF TypeOK, QueuedIsWaiting, mutex_trylock, TakeMutex, Goto,
         wqVars, locals
  <2>4. WaitersReachable'
    BY <1>a, <1>3, <2>0 DEF TypeOK, WaitersReachable, mutex_trylock, TakeMutex, Goto,
         wqVars, locals
  <2>5. NoLostWakeup'
    BY <1>a, <1>3, <2>0 DEF TypeOK, NoLostWakeup, FreeIsNoticed, PickedIsWoken,
         mutex_trylock, TakeMutex, Goto, wqVars, locals
  <2> QED BY <2>1, <2>2, <2>3, <2>4, <2>5 DEF IInv
<1>4. ASSUME NEW t \in Threads, mutex_unlock(t) PROVE IInv'
  <2>0. Queued' = Queued
    BY <1>4 DEF Queued, mutex_unlock, DropMutex, Goto, wqVars
  <2>1. TypeOK'
    BY <1>a, <1>4 DEF TypeOK, mutex_unlock, DropMutex, Goto, PC, wqVars, locals
  <2>2. OwnerIsHolder'
    BY <1>a, <1>4 DEF TypeOK, OwnerIsHolder, Holding, mutex_unlock, DropMutex, Goto
  <2>3. QueuedIsWaiting'
    BY <1>a, <1>4, <2>0 DEF TypeOK, QueuedIsWaiting, mutex_unlock, DropMutex, Goto,
         wqVars, locals
  <2>4. WaitersReachable'
    BY <1>a, <1>4, <2>0 DEF TypeOK, WaitersReachable, mutex_unlock, DropMutex, Goto,
         wqVars, locals
  <2>5. NoLostWakeup'
    BY <1>a, <1>4, <2>0 DEF TypeOK, NoLostWakeup, FreeIsNoticed, PickedIsWoken,
         mutex_unlock, DropMutex, Goto, wqVars, locals
  <2> QED BY <2>1, <2>2, <2>3, <2>4, <2>5 DEF IInv
<1>5. ASSUME NEW t \in Threads, LockWait(t) PROVE IInv'
  <2>0. /\ wq' \in Seq(Threads)
        /\ Queued' = Queued \cup {t}
        /\ t \notin Queued
        /\ Distinct(wq')
    <3>1. t \notin Queued /\ Distinct(wq) /\ wq \in Seq(Threads) /\ wq' = Append(wq, t)
      BY <1>a, <1>5 DEF TypeOK, QueuedIsWaiting, Distinct, LockWait, wq_wait_init, Goto
    <3> QED BY <3>1, AppendLemma DEF Queued
  <2>1. TypeOK'
    BY <1>a, <1>5, <2>0 DEF TypeOK, LockWait, wq_wait_init, Goto, PC, wqVars, locals
  <2>2. OwnerIsHolder'
    BY <1>a, <1>5 DEF TypeOK, OwnerIsHolder, Holding, LockWait, wq_wait_init, Goto
  <2>3. QueuedIsWaiting'
    BY <1>a, <1>5, <2>0 DEF TypeOK, QueuedIsWaiting, Distinct, LockWait, wq_wait_init,
         Goto, locals
  <2>4. WaitersReachable'
    BY <1>a, <1>5, <2>0 DEF TypeOK, WaitersReachable, LockWait, wq_wait_init, Goto, locals
  <2>5. NoLostWakeup'
    BY <1>a, <1>5, <2>0 DEF TypeOK, NoLostWakeup, FreeIsNoticed, PickedIsWoken, LockWait,
         wq_wait_init, Goto, locals
  <2> QED BY <2>1, <2>2, <2>3, <2>4, <2>5 DEF IInv
<1>6. ASSUME NEW t \in Threads, CondvarQueue(t) PROVE IInv'
  <2>0. /\ wq' \in Seq(Threads)
        /\ Queued' = Queued \cup {t}
        /\ t \notin Queued
        /\ Distinct(wq')
    <3>1. t \notin Queued /\ Distinct(wq) /\ wq \in Seq(Threads) /\ wq' = Append(wq, t)
      BY <1>a, <1>6 DEF TypeOK, QueuedIsWaiting, Distinct, CondvarQueue, wq_wait_init,
           DropMutex, Goto
    <3> QED BY <3>1, AppendLemma DEF Queued
  <2>1. TypeOK'
    BY <1>a, <1>6, <2>0 DEF TypeOK, CondvarQueue, wq_wait_init, DropMutex, Goto, PC,
         wqVars, locals
  <2>2. OwnerIsHolder'
    BY <1>a, <1>6 DEF TypeOK, OwnerIsHolder, Holding, CondvarQueue, wq_wait_init,
         DropMutex, Goto
  <2>3. QueuedIsWaiting'
    BY <1>a, <1>6, <2>0 DEF TypeOK, QueuedIsWaiting, Distinct, CondvarQueue, wq_wait_init,
         DropMutex, Goto, locals
  <2>4. WaitersReachable'
    BY <1>a, <1>6, <2>0 DEF TypeOK, WaitersReachable, CondvarQueue, wq_wait_init,
         DropMutex, Goto, locals
  <2>5. NoLostWakeup'
    BY <1>a, <1>6, <2>0 DEF TypeOK, NoLostWakeup, FreeIsNoticed, PickedIsWoken,
         CondvarQueue, wq_wait_init, DropMutex, Goto, locals
  <2> QED BY <2>1, <2>2, <2>3, <2>4, <2>5 DEF IInv
<1>7. ASSUME NEW t \in Threads, wq_wake_one(t) PROVE IInv'
  <2>0. Queued' = Queued
    BY <1>7 DEF Queued, wq_wake_one
  <2>1. CASE Active = {}
    <3>1. \A u \in Queued : cvOf[u] # NoCv
      BY <2>1 DEF Active, Queued, ToSet
    <3>a. /\ pc[t] = "wake" /\ Return(t)
          /\ UNCHANGED <<value, owner, wq, done, cvOf, failed, linked, wakeup, arg>>
      BY <1>7, <2>1 DEF wq_wake_one
    <3>2. TypeOK'
      BY <1>a, <3>a DEF TypeOK, Return, PC
    <3>3. OwnerIsHolder'
      BY <1>a, <3>a DEF TypeOK, OwnerIsHolder, Holding, Return
    <3>4. QueuedIsWaiting'
      BY <1>a, <2>0, <3>a DEF TypeOK, QueuedIsWaiting, Return
    <3>5. WaitersReachable'
      BY <1>a, <2>0, <3>a DEF TypeOK, WaitersReachable, Return
    <3>6. NoLostWakeup'
      BY <1>a, <2>0, <3>a, <3>1 DEF TypeOK, NoLostWakeup, FreeIsNoticed, PickedIsWoken,
           Return
    <3> QED BY <3>2, <3>3, <3>4, <3>5, <3>6 DEF IInv
  <2>2. CASE Active # {}
    <3> DEFINE u == wq[First(Active)]
    <3>1. u \in Queued /\ u \in Threads /\ cvOf[u] = NoCv
      <4>1. Active \in SUBSET Nat /\ Active \subseteq DOMAIN wq
        BY <1>a DEF Active, TypeOK
      <4>2. First(Active) \in Active
        BY <2>2, <4>1, FirstLemma
      <4>3. u \in Queued /\ cvOf[u] = NoCv
        BY <4>1, <4>2 DEF Active, Queued, ToSet
      <4>4. wq \in Seq(Threads) /\ First(Active) \in DOMAIN wq
        BY <1>a, <4>1, <4>2 DEF TypeOK
      <4>5. u \in Threads
        BY <4>4
      <4> QED BY <4>3, <4>5
    <3>2. /\ pc[t] = "wake"
          /\ done' = [done EXCEPT ![u] = TRUE]
          /\ IF done[u] THEN Return(t)
             ELSE /\ pc' = [pc EXCEPT ![t] = "notify"]
                  /\ target' = [target EXCEPT ![t] = u]
                  /\ UNCHANGED ret
          /\ UNCHANGED <<value, owner, wq, cvOf, failed, linked, wakeup, arg>>
      BY <1>7, <2>2 DEF wq_wake_one
    <3> HIDE DEF u
    <3>3. TypeOK'
      BY <1>a, <3>1, <3>2 DEF TypeOK, Return, PC
    <3>4. OwnerIsHolder'
      BY <1>a, <3>2 DEF TypeOK, OwnerIsHolder, Holding, Return
    <3>5. QueuedIsWaiting'
      BY <1>a, <2>0, <3>2 DEF TypeOK, QueuedIsWaiting, Return
    <3>6. WaitersReachable'
      BY <1>a, <2>0, <3>1, <3>2 DEF TypeOK, WaitersReachable, Return
    <3>7. NoLostWakeup'
      <4>1. FreeIsNoticed'
        BY <1>a, <2>0, <3>1, <3>2 DEF TypeOK, FreeIsNoticed
      <4>2. ASSUME NEW v \in Queued, done'[v]
            PROVE  \/ pc'[v] = "check" \/ wakeup'[v] \/ failed'[v]
                   \/ \E w \in Threads : pc'[w] = "notify" /\ target'[w] = v
        <5>1. CASE v = u /\ ~done[u]
          BY <1>a, <3>1, <3>2, <5>1 DEF TypeOK
        <5>2. CASE done[v]
          <6>1. \/ pc[v] = "check" \/ wakeup[v] \/ failed[v]
                \/ \E w \in Threads : pc[w] = "notify" /\ target[w] = v
            BY <1>a, <5>2 DEF NoLostWakeup, PickedIsWoken
          <6>2. \A w \in Threads : w # t => pc'[w] = pc[w] /\ target'[w] = target[w]
            BY <1>a, <3>2 DEF TypeOK, Return
          <6>3. v \in Threads /\ wakeup' = wakeup /\ failed' = failed
            BY <1>b, <3>2
          <6> QED BY <3>2, <6>1, <6>2, <6>3
        <5> QED
          <6>1. v # u => done'[v] = done[v]
            BY <1>a, <1>b, <3>2 DEF TypeOK
          <6> QED BY <4>2, <5>1, <5>2, <6>1
      <4> QED BY <2>0, <4>1, <4>2 DEF NoLostWakeup, PickedIsWoken
    <3> QED BY <3>3, <3>4, <3>5, <3>6, <3>7 DEF IInv
  <2> QED BY <2>1, <2>2
<1>8. ASSUME NEW t \in Threads, wq_rpc_wakeup(t) PROVE IInv'
  <2>0. Queued' = Queued
    BY <1>8 DEF Queued, wq_rpc_wakeup, Return, Goto, wqVars
  <2>1. TypeOK'
    BY <1>a, <1>8 DEF TypeOK, wq_rpc_wakeup, Return, Goto, PC, wqVars, locals
  <2>2. OwnerIsHolder'
    BY <1>a, <1>8 DEF TypeOK, OwnerIsHolder, Holding, wq_rpc_wakeup, Return, Goto
  <2>3. QueuedIsWaiting'
    BY <1>a, <1>8, <2>0 DEF TypeOK, QueuedIsWaiting, wq_rpc_wakeup, Return, Goto, wqVars,
         locals
  <2>4. WaitersReachable'
    BY <1>a, <1>8, <2>0 DEF TypeOK, WaitersReachable, wq_rpc_wakeup, Return, Goto, wqVars,
         locals
  <2>5. NoLostWakeup'
    BY <1>a, <1>8, <2>0 DEF TypeOK, NoLostWakeup, FreeIsNoticed, PickedIsWoken,
         wq_rpc_wakeup, Return, Goto, wqVars, locals
  <2> QED BY <2>1, <2>2, <2>3, <2>4, <2>5 DEF IInv
<1>9. ASSUME NEW t \in Threads, wq_rpc_sleep(t) PROVE IInv'
  <2>0. Queued' = Queued
    BY <1>9 DEF Queued, wq_rpc_sleep, Goto, wqVars
  <2>1. TypeOK'
    BY <1>a, <1>9 DEF TypeOK, wq_rpc_sleep, Goto, PC, wqVars, locals
  <2>2. OwnerIsHolder'
    BY <1>a, <1>9 DEF TypeOK, OwnerIsHolder, Holding, wq_rpc_sleep, Goto
  <2>3. QueuedIsWaiting'
    BY <1>a, <1>9, <2>0 DEF TypeOK, QueuedIsWaiting, wq_rpc_sleep, Goto, wqVars, locals
  <2>4. WaitersReachable'
    BY <1>a, <1>9, <2>0 DEF TypeOK, WaitersReachable, wq_rpc_sleep, Goto, wqVars, locals
  <2>5. NoLostWakeup'
    BY <1>a, <1>9, <2>0 DEF TypeOK, NoLostWakeup, FreeIsNoticed, PickedIsWoken,
         wq_rpc_sleep, Goto, wqVars, locals
  <2> QED BY <2>1, <2>2, <2>3, <2>4, <2>5 DEF IInv
<1>10. ASSUME NEW t \in Threads, wq_rpc_sleep_error(t) PROVE IInv'
  <2>0. Queued' = Queued
    BY <1>10 DEF Queued, wq_rpc_sleep_error, Goto, wqVars
  <2>1. TypeOK'
    BY <1>a, <1>10 DEF TypeOK, wq_rpc_sleep_error, Goto, PC, wqVars, locals
  <2>2. OwnerIsHolder'
    BY <1>a, <1>10 DEF TypeOK, OwnerIsHolder, Holding, wq_rpc_sleep_error, Goto
  <2>3. QueuedIsWaiting'
    BY <1>a, <1>10, <2>0 DEF TypeOK, QueuedIsWaiting, wq_rpc_sleep_error, Goto, wqVars,
         locals
  <2>4. WaitersReachable'
    BY <1>a, <1>10, <2>0 DEF TypeOK, WaitersReachable, wq_rpc_sleep_error, Goto, wqVars,
         locals
  <2>5. NoLostWakeup'
    BY <1>a, <1>10, <2>0 DEF TypeOK, NoLostWakeup, FreeIsNoticed, PickedIsWoken,
         wq_rpc_sleep_error, Goto, wqVars, locals
  <2> QED BY <2>1, <2>2, <2>3, <2>4, <2>5 DEF IInv
<1>11. ASSUME NEW t \in Threads, wq_wait_final(t), done[t] PROVE IInv'
  <2>0. /\ wq' \in Seq(Threads)
        /\ Queued' = Queued \ {t}
        /\ t \in Queued
        /\ Distinct(wq')
    <3>1. t \in Queued /\ Distinct(wq) /\ wq \in Seq(Threads)
      BY <1>a, <1>11 DEF TypeOK, QueuedIsWaiting, Distinct, wq_wait_final, Goto
    <3> DEFINE k == CHOOSE i \in DOMAIN wq : wq[i] = t
    <3>2. k \in DOMAIN wq /\ wq[k] = t
      BY <3>1 DEF Queued, ToSet
    <3>3. wq' = RemoveAt(wq, k)
      BY <1>11 DEF wq_wait_final
    <3> HIDE DEF k
    <3> QED BY <3>1, <3>2, <3>3, RemoveLemma DEF Queued
  <2>a. /\ pc[t] = "check" /\ pc' = [pc EXCEPT ![t] = "lock"]
        /\ done' = [done EXCEPT ![t] = FALSE]
        /\ failed' = [failed EXCEPT ![t] = FALSE]
        /\ UNCHANGED <<value, owner, cvOf, linked, wakeup, arg, target, ret>>
    BY <1>11 DEF wq_wait_final, Goto, locals
  <2>1. TypeOK'
    BY <1>a, <2>a, <2>0 DEF TypeOK, PC
  <2>2. OwnerIsHolder'
    BY <1>a, <2>a DEF TypeOK, OwnerIsHolder, Holding
  <2>3. QueuedIsWaiting'
    BY <1>a, <2>a, <2>0 DEF TypeOK, QueuedIsWaiting, Distinct
  <2>4. WaitersReachable'
    BY <1>a, <1>11, <2>a, <2>0 DEF TypeOK, WaitersReachable
  <2>5. NoLostWakeup'
    <3>1. FreeIsNoticed'
      BY <1>a, <2>a DEF TypeOK, FreeIsNoticed
    <3>2. ASSUME NEW v \in Queued', done'[v]
          PROVE  \/ pc'[v] = "check" \/ wakeup'[v] \/ failed'[v]
                 \/ \E w \in Threads : pc'[w] = "notify" /\ target'[w] = v
      <4>1. v \in Threads /\ v \in Queued /\ v # t
        BY <1>b, <2>0
      <4>2. done[v]
        BY <1>a, <2>a, <3>2, <4>1 DEF TypeOK
      <4>3. \/ pc[v] = "check" \/ wakeup[v] \/ failed[v]
            \/ \E w \in Threads : pc[w] = "notify" /\ target[w] = v
        BY <1>a, <4>1, <4>2 DEF NoLostWakeup, PickedIsWoken
      <4>4. \A w \in Threads : w # t => pc'[w] = pc[w] /\ failed'[w] = failed[w]
        BY <1>a, <2>a DEF TypeOK
      <4> QED BY <2>a, <4>1, <4>3, <4>4
    <3> QED BY <3>1, <3>2 DEF NoLostWakeup, PickedIsWoken
  <2> QED BY <2>1, <2>2, <2>3, <2>4, <2>5 DEF IInv
<1>12. ASSUME NEW t \in Threads, wq_wait_final(t), ~done[t] PROVE IInv'
  <2>0. Queued' = Queued
    BY <1>12 DEF Queued, wq_wait_final
  <2>a. /\ pc[t] = "check" /\ pc' = [pc EXCEPT ![t] = "sleep"]
        /\ UNCHANGED <<value, owner, wq, done, cvOf, failed, linked, wakeup, arg, target, ret>>
    BY <1>12 DEF wq_wait_final, Goto, locals
  <2>1. TypeOK'
    BY <1>a, <2>a DEF TypeOK, PC
  <2>2. OwnerIsHolder'
    BY <1>a, <2>a DEF TypeOK, OwnerIsHolder, Holding
  <2>3. QueuedIsWaiting'
    BY <1>a, <2>a, <2>0 DEF TypeOK, QueuedIsWaiting
  <2>4. WaitersReachable'
    BY <1>a, <2>a, <2>0 DEF TypeOK, WaitersReachable
  <2>5. NoLostWakeup'
    BY <1>a, <1>12, <2>a, <2>0 DEF TypeOK, NoLostWakeup, FreeIsNoticed, PickedIsWoken
  <2> QED BY <2>1, <2>2, <2>3, <2>4, <2>5 DEF IInv
<1>13. ASSUME NEW t \in Threads, NEW c \in Condvars, condvar_wait(t, c) PROVE IInv'
  <2>0. Queued' = Queued
    BY <1>13 DEF Queued, condvar_wait, Goto, wqVars
  <2>1. TypeOK'
    BY <1>a, <1>13 DEF TypeOK, condvar_wait, Goto, PC, wqVars, locals
  <2>2. OwnerIsHolder'
    BY <1>a, <1>13 DEF TypeOK, OwnerIsHolder, Holding, condvar_wait, Goto
  <2>3. QueuedIsWaiting'
    BY <1>a, <1>13, <2>0 DEF TypeOK, QueuedIsWaiting, condvar_wait, Goto, wqVars, locals
  <2>4. WaitersReachable'
    BY <1>a, <1>13, <2>0 DEF TypeOK, WaitersReachable, condvar_wait, Goto, wqVars, locals
  <2>5. NoLostWakeup'
    BY <1>a, <1>13, <2>0 DEF TypeOK, NoLostWakeup, FreeIsNoticed, PickedIsWoken,
         condvar_wait, Goto, wqVars, locals
  <2> QED BY <2>1, <2>2, <2>3, <2>4, <2>5 DEF IInv
<1>14. ASSUME NEW t \in Threads, NEW c \in Condvars, NEW how \in {"signal", "broadcast"},
              cv_signal(t, c, how)
       PROVE  IInv'
  <2>0. Queued' = Queued
    BY <1>14 DEF Queued, cv_signal, Goto, wqVars
  <2>1. TypeOK'
    BY <1>a, <1>14 DEF TypeOK, cv_signal, Goto, PC, wqVars, locals
  <2>2. OwnerIsHolder'
    BY <1>a, <1>14 DEF TypeOK, OwnerIsHolder, Holding, cv_signal, Goto
  <2>3. QueuedIsWaiting'
    BY <1>a, <1>14, <2>0 DEF TypeOK, QueuedIsWaiting, cv_signal, Goto, wqVars, locals
  <2>4. WaitersReachable'
    BY <1>a, <1>14, <2>0 DEF TypeOK, WaitersReachable, cv_signal, Goto, wqVars, locals
  <2>5. NoLostWakeup'
    BY <1>a, <1>14, <2>0 DEF TypeOK, NoLostWakeup, FreeIsNoticed, PickedIsWoken,
         cv_signal, Goto, wqVars, locals
  <2> QED BY <2>1, <2>2, <2>3, <2>4, <2>5 DEF IInv
<1>15. ASSUME NEW t \in Threads, wq_promote_condvar(t) PROVE IInv'
  <2>0. Queued' = Queued
    BY <1>15 DEF Queued, wq_promote_condvar
  <2>1. PICK S \in SUBSET Threads :
          cvOf' = [u \in Threads |-> IF u \in S THEN NoCv ELSE cvOf[u]]
    <3> DEFINE I == WaitingOn(arg[t])
               P == IF pc[t] = "broadcast" \/ I = {} THEN I ELSE {First(I)}
    <3>1. cvOf' = [u \in Threads |-> IF \E i \in P : wq[i] = u THEN NoCv ELSE cvOf[u]]
      BY <1>15 DEF wq_promote_condvar
    <3> HIDE DEF P
    <3>2. cvOf' = [u \in Threads |->
                     IF u \in {v \in Threads : \E i \in P : wq[i] = v} THEN NoCv ELSE cvOf[u]]
      BY <3>1
    <3> QED BY <3>2
  <2>2. /\ pc[t] \in {"signal", "broadcast"}
        /\ pc' = [pc EXCEPT ![t] = "held"]
        /\ arg' = [arg EXCEPT ![t] = NoCv]
        /\ UNCHANGED <<value, owner, wq, done, failed, linked, wakeup, target, ret>>
    BY <1>15 DEF wq_promote_condvar
  <2>3. value = "locked"
    BY <1>a, <2>2 DEF TypeOK, OwnerIsHolder, Holding
  <2>4. TypeOK'
    BY <1>a, <2>1, <2>2 DEF TypeOK, PC
  <2>5. OwnerIsHolder'
    BY <1>a, <2>2 DEF TypeOK, OwnerIsHolder, Holding
  <2>6. QueuedIsWaiting'
    BY <1>a, <2>0, <2>2 DEF TypeOK, QueuedIsWaiting
  <2>7. WaitersReachable'
    BY <1>a, <2>0, <2>1, <2>2 DEF TypeOK, WaitersReachable
  <2>8. NoLostWakeup'
    BY <1>a, <2>0, <2>2, <2>3 DEF TypeOK, NoLostWakeup, FreeIsNoticed, PickedIsWoken
  <2> QED BY <2>4, <2>5, <2>6, <2>7, <2>8 DEF IInv
<1>16. ASSUME NEW t \in Threads, NEW c \in Condvars, condvar_destroy(t, c) PROVE IInv'
  <2>0. Queued' = Queued
    BY <1>16 DEF Queued, condvar_destroy, wqVars
  <2>a. \A u \in Queued : cvOf[u] # c
    BY <1>16 DEF condvar_destroy, WaitingOn, Queued, ToSet
  <2>1. TypeOK'
    BY <1>a, <1>16 DEF TypeOK, condvar_destroy, PC, wqVars, locals
  <2>2. OwnerIsHolder'
    BY <1>a, <1>16 DEF TypeOK, OwnerIsHolder, Holding, condvar_destroy
  <2>3. QueuedIsWaiting'
    BY <1>a, <1>16, <2>0 DEF TypeOK, QueuedIsWaiting, condvar_destroy, wqVars, locals
  <2>4. WaitersReachable'
    BY <1>a, <1>16, <2>0, <2>a DEF TypeOK, WaitersReachable, condvar_destroy, wqVars, locals
  <2>5. NoLostWakeup'
    BY <1>a, <1>16, <2>0 DEF TypeOK, NoLostWakeup, FreeIsNoticed, PickedIsWoken,
         condvar_destroy, wqVars, locals
  <2> QED BY <2>1, <2>2, <2>3, <2>4, <2>5 DEF IInv
<1>17. CASE UNCHANGED vars
  <2>0. Queued' = Queued
    BY <1>17 DEF Queued, vars
  <2> QED
    BY <1>a, <1>17, <2>0 DEF IInv, TypeOK, OwnerIsHolder, Holding, QueuedIsWaiting,
                             WaitersReachable, NoLostWakeup, FreeIsNoticed,
                             PickedIsWoken, vars
<1>18. ASSUME NEW t \in Threads, wq_rpc_wakeup_error(t) PROVE IInv'
  <2>0. Queued' = Queued
    BY <1>18 DEF Queued, wq_rpc_wakeup_error, Return, Goto, wqVars
  <2>1. TypeOK'
    BY <1>a, <1>18 DEF TypeOK, wq_rpc_wakeup_error, Return, Goto, PC, wqVars, locals
  <2>2. OwnerIsHolder'
    BY <1>a, <1>18 DEF TypeOK, OwnerIsHolder, Holding, wq_rpc_wakeup_error, Return, Goto
  <2>3. QueuedIsWaiting'
    BY <1>a, <1>18, <2>0 DEF TypeOK, QueuedIsWaiting, wq_rpc_wakeup_error, Return, Goto, wqVars,
         locals
  <2>4. WaitersReachable'
    BY <1>a, <1>18, <2>0 DEF TypeOK, WaitersReachable, wq_rpc_wakeup_error, Return, Goto, wqVars,
         locals
  <2>5. NoLostWakeup'
    BY <1>a, <1>18, <2>0 DEF TypeOK, NoLostWakeup, FreeIsNoticed, PickedIsWoken,
         wq_rpc_wakeup_error, Return, Goto, wqVars, locals
  <2> QED BY <2>1, <2>2, <2>3, <2>4, <2>5 DEF IInv
<1> QED
  BY <1>1, <1>2, <1>3, <1>4, <1>5, <1>6, <1>7, <1>8, <1>9, <1>10, <1>11, <1>12, <1>13,
     <1>14, <1>15, <1>16, <1>17, <1>18 DEF Next, Call, Run, Error

-----------------------------------------------------------------------------
(* The invariant holds in every reachable state.                           *)
THEOREM Invariance == Spec => []IInv
<1>1. Init => IInv
  BY InitIInv
<1>2. IInv /\ [Next]_vars => IInv'
  BY NextIInv
<1> QED BY <1>1, <1>2, PTL DEF Spec

(* Type correctness.                                                       *)
THEOREM TypeCorrect == Spec => []TypeOK
BY Invariance, PTL DEF IInv

(* Mutual exclusion as the code asserts it, for any number of threads.     *)
THEOREM MutualExclusion == Spec => []OwnerIsHolder
BY Invariance, PTL DEF IInv

(* No wakeup is lost, for any number of threads.                           *)
THEOREM WakeupsAreKept == Spec => []NoLostWakeup
BY Invariance, PTL DEF IInv

(* No wait queue element outlives the stack frame it is in, and no thread  *)
(* has two.                                                                *)
THEOREM ElementsAreAlive == Spec => []QueuedIsWaiting
BY Invariance, PTL DEF IInv

(* Whoever waits on a condition variable can be found by a signal.         *)
THEOREM SignalsReachWaiters == Spec => []WaitersReachable
BY Invariance, PTL DEF IInv

-----------------------------------------------------------------------------
(* Mutex.tla implements Monitor.tla.                                       *)
(* The initial state is the monitor's.                                     *)
LEMMA InitRefines == Init => Mon!Init
<1> SUFFICES ASSUME Init PROVE Mon!Init
  OBVIOUS
<1>1. \A t \in Threads : Status(t) = "out" /\ Signals(t) = NoCv
  BY DEF Init, Status, Signals
<1> QED BY <1>1 DEF Init, Mon!Init

(* Every step is a step of the monitor or changes nothing in it.           *)
LEMMA NextRefines == IInv /\ [Next]_vars => [Mon!Next]_(Mon!vars)
<1> SUFFICES ASSUME IInv, [Next]_vars PROVE [Mon!Next]_(Mon!vars)
  OBVIOUS
<1> USE NoThreadAssumption, NoCvAssumption
<1>a. TypeOK /\ OwnerIsHolder /\ QueuedIsWaiting /\ WaitersReachable
  BY DEF IInv
<1>1. ASSUME NEW t \in Threads, mutex_lock(t)
      PROVE  Mon!Request(t)
  <2>1. \A u \in Threads : Status(u)' = IF u = t THEN "want" ELSE Status(u)
    BY <1>a, <1>1 DEF TypeOK, WaitersReachable, QueuedIsWaiting, Status, Signals,
         mutex_lock, Goto, wqVars, locals
  <2>2. \A u \in Threads : Signals(u)' = Signals(u)
    BY <1>a, <1>1 DEF TypeOK, WaitersReachable, QueuedIsWaiting, Status, Signals,
         mutex_lock, Goto, wqVars, locals
  <2>3. [u \in Threads |-> Status(u)]' = [[u \in Threads |-> Status(u)] EXCEPT ![t] = "want"]
    BY <2>1
  <2>4. [u \in Threads |-> Signals(u)]' = [u \in Threads |-> Signals(u)]
    BY <2>2
  <2>5. Status(t) = "out"
    BY <1>a, <1>1 DEF TypeOK, WaitersReachable, QueuedIsWaiting, Status, Signals,
         mutex_lock, Goto
  <2> QED BY <1>a, <1>1, <2>3, <2>4, <2>5 DEF TypeOK, OwnerIsHolder, Mon!Request,
       mutex_lock, Goto, wqVars, locals
<1>2. ASSUME NEW t \in Threads, LockTake(t)
      PROVE  Mon!Acquire(t)
  <2>1. \A u \in Threads : Status(u)' = IF u = t THEN "in" ELSE Status(u)
    BY <1>a, <1>2 DEF TypeOK, WaitersReachable, QueuedIsWaiting, Status, Signals,
         LockTake, TakeMutex, Goto, wqVars, locals
  <2>2. \A u \in Threads : Signals(u)' = Signals(u)
    BY <1>a, <1>2 DEF TypeOK, WaitersReachable, QueuedIsWaiting, Status, Signals,
         LockTake, TakeMutex, Goto, wqVars, locals
  <2>3. [u \in Threads |-> Status(u)]' = [[u \in Threads |-> Status(u)] EXCEPT ![t] = "in"]
    BY <2>1
  <2>4. [u \in Threads |-> Signals(u)]' = [u \in Threads |-> Signals(u)]
    BY <2>2
  <2>5. Status(t) = "want"
    BY <1>a, <1>2 DEF TypeOK, WaitersReachable, QueuedIsWaiting, Status, Signals,
         LockTake, TakeMutex, Goto
  <2> QED BY <1>a, <1>2, <2>3, <2>4, <2>5 DEF TypeOK, OwnerIsHolder, Mon!Acquire,
       Mon!Enter, LockTake, TakeMutex, Goto, wqVars, locals
<1>3. ASSUME NEW t \in Threads, mutex_trylock(t)
      PROVE  Mon!TryAcquire(t)
  <2>1. \A u \in Threads : Status(u)' = IF u = t THEN "in" ELSE Status(u)
    BY <1>a, <1>3 DEF TypeOK, WaitersReachable, QueuedIsWaiting, Status, Signals,
         mutex_trylock, TakeMutex, Goto, wqVars, locals
  <2>2. \A u \in Threads : Signals(u)' = Signals(u)
    BY <1>a, <1>3 DEF TypeOK, WaitersReachable, QueuedIsWaiting, Status, Signals,
         mutex_trylock, TakeMutex, Goto, wqVars, locals
  <2>3. [u \in Threads |-> Status(u)]' = [[u \in Threads |-> Status(u)] EXCEPT ![t] = "in"]
    BY <2>1
  <2>4. [u \in Threads |-> Signals(u)]' = [u \in Threads |-> Signals(u)]
    BY <2>2
  <2>5. Status(t) = "out"
    BY <1>a, <1>3 DEF TypeOK, WaitersReachable, QueuedIsWaiting, Status, Signals,
         mutex_trylock, TakeMutex, Goto
  <2> QED BY <1>a, <1>3, <2>3, <2>4, <2>5 DEF TypeOK, OwnerIsHolder, Mon!TryAcquire,
       Mon!Enter, mutex_trylock, TakeMutex, Goto, wqVars, locals
<1>4. ASSUME NEW t \in Threads, mutex_unlock(t)
      PROVE  Mon!Release(t)
  <2>1. \A u \in Threads : Status(u)' = IF u = t THEN "out" ELSE Status(u)
    BY <1>a, <1>4 DEF TypeOK, WaitersReachable, QueuedIsWaiting, Status, Signals,
         mutex_unlock, DropMutex, Goto, wqVars, locals
  <2>2. \A u \in Threads : Signals(u)' = Signals(u)
    BY <1>a, <1>4 DEF TypeOK, WaitersReachable, QueuedIsWaiting, Status, Signals,
         mutex_unlock, DropMutex, Goto, wqVars, locals
  <2>3. [u \in Threads |-> Status(u)]' = [[u \in Threads |-> Status(u)] EXCEPT ![t] = "out"]
    BY <2>1
  <2>4. [u \in Threads |-> Signals(u)]' = [u \in Threads |-> Signals(u)]
    BY <2>2
  <2>5. Status(t) = "in"
    BY <1>a, <1>4 DEF TypeOK, WaitersReachable, QueuedIsWaiting, Status, Signals,
         mutex_unlock, DropMutex, Goto
  <2> QED BY <1>a, <1>4, <2>3, <2>4, <2>5 DEF TypeOK, OwnerIsHolder, Mon!Release,
       mutex_unlock, DropMutex, Goto, wqVars, locals
<1>5. ASSUME NEW t \in Threads, LockWait(t)
      PROVE  UNCHANGED Mon!vars
  <2>1. \A u \in Threads : Status(u)' = Status(u) /\ Signals(u)' = Signals(u)
    BY <1>a, <1>5 DEF TypeOK, WaitersReachable, QueuedIsWaiting, Status, Signals,
         LockWait, wq_wait_init, Goto, wqVars, locals
  <2>2. cvOf' = cvOf /\ owner' = owner
    <3>1. cvOf[t] = NoCv
      BY <1>a, <1>5 DEF TypeOK, WaitersReachable, QueuedIsWaiting, LockWait, Goto
    <3> QED BY <1>a, <1>5, <3>1 DEF TypeOK, LockWait, wq_wait_init
  <2> QED BY <2>1, <2>2 DEF Mon!vars
<1>6. ASSUME NEW t \in Threads, CondvarQueue(t)
      PROVE  Mon!Wait(t, arg[t])
  <2>1. \A u \in Threads : Status(u)' = IF u = t THEN "wait" ELSE Status(u)
    BY <1>a, <1>6 DEF TypeOK, WaitersReachable, QueuedIsWaiting, Status, Signals,
         CondvarQueue, wq_wait_init, DropMutex, Goto, wqVars, locals
  <2>2. \A u \in Threads : Signals(u)' = Signals(u)
    BY <1>a, <1>6 DEF TypeOK, WaitersReachable, QueuedIsWaiting, Status, Signals,
         CondvarQueue, wq_wait_init, DropMutex, Goto, wqVars, locals
  <2>3. [u \in Threads |-> Status(u)]' = [[u \in Threads |-> Status(u)] EXCEPT ![t] = "wait"]
    BY <2>1
  <2>4. [u \in Threads |-> Signals(u)]' = [u \in Threads |-> Signals(u)]
    BY <2>2
  <2>5. Status(t) = "in"
    BY <1>a, <1>6 DEF TypeOK, WaitersReachable, QueuedIsWaiting, Status, Signals,
         CondvarQueue, wq_wait_init, DropMutex, Goto
  <2> QED BY <1>a, <1>6, <2>3, <2>4, <2>5 DEF TypeOK, OwnerIsHolder, Mon!Wait,
       CondvarQueue, wq_wait_init, DropMutex, Goto, wqVars, locals
<1>7. ASSUME NEW t \in Threads, wq_wake_one(t)
      PROVE  UNCHANGED Mon!vars
  <2>1. \A u \in Threads : Status(u)' = Status(u) /\ Signals(u)' = Signals(u)
    BY <1>a, <1>7 DEF TypeOK, WaitersReachable, QueuedIsWaiting, Status, Signals,
         wq_wake_one, Return, wqVars, locals
  <2>2. cvOf' = cvOf /\ owner' = owner
    BY <1>7 DEF wq_wake_one, Return, wqVars
  <2> QED BY <2>1, <2>2 DEF Mon!vars
<1>8. ASSUME NEW t \in Threads, wq_rpc_wakeup(t)
      PROVE  UNCHANGED Mon!vars
  <2>1. \A u \in Threads : Status(u)' = Status(u) /\ Signals(u)' = Signals(u)
    BY <1>a, <1>8 DEF TypeOK, WaitersReachable, QueuedIsWaiting, Status, Signals,
         wq_rpc_wakeup, Return, wqVars, locals
  <2>2. cvOf' = cvOf /\ owner' = owner
    BY <1>8 DEF wq_rpc_wakeup, Return, wqVars
  <2> QED BY <2>1, <2>2 DEF Mon!vars
<1>9. ASSUME NEW t \in Threads, wq_rpc_sleep(t)
      PROVE  UNCHANGED Mon!vars
  <2>1. \A u \in Threads : Status(u)' = Status(u) /\ Signals(u)' = Signals(u)
    BY <1>a, <1>9 DEF TypeOK, WaitersReachable, QueuedIsWaiting, Status, Signals,
         wq_rpc_sleep, Goto, wqVars, locals
  <2>2. cvOf' = cvOf /\ owner' = owner
    BY <1>9 DEF wq_rpc_sleep, Goto, wqVars
  <2> QED BY <2>1, <2>2 DEF Mon!vars
<1>10. ASSUME NEW t \in Threads, wq_rpc_sleep_error(t)
       PROVE  UNCHANGED Mon!vars
  <2>1. \A u \in Threads : Status(u)' = Status(u) /\ Signals(u)' = Signals(u)
    BY <1>a, <1>10 DEF TypeOK, WaitersReachable, QueuedIsWaiting, Status, Signals,
         wq_rpc_sleep_error, Goto, wqVars, locals
  <2>2. cvOf' = cvOf /\ owner' = owner
    BY <1>10 DEF wq_rpc_sleep_error, Goto, wqVars
  <2> QED BY <2>1, <2>2 DEF Mon!vars
<1>11. ASSUME NEW t \in Threads, wq_wait_final(t)
       PROVE  UNCHANGED Mon!vars
  <2>1. \A u \in Threads : Status(u)' = Status(u) /\ Signals(u)' = Signals(u)
    BY <1>a, <1>11 DEF TypeOK, WaitersReachable, QueuedIsWaiting, Status, Signals,
         wq_wait_final, Goto, wqVars, locals
  <2>2. cvOf' = cvOf /\ owner' = owner
    BY <1>11 DEF wq_wait_final, Goto, wqVars
  <2> QED BY <2>1, <2>2 DEF Mon!vars
<1>12. ASSUME NEW t \in Threads, NEW c \in Condvars, condvar_wait(t, c)
       PROVE  UNCHANGED Mon!vars
  <2>1. \A u \in Threads : Status(u)' = Status(u) /\ Signals(u)' = Signals(u)
    BY <1>a, <1>12 DEF TypeOK, WaitersReachable, QueuedIsWaiting, Status, Signals,
         condvar_wait, Goto, wqVars, locals
  <2>2. cvOf' = cvOf /\ owner' = owner
    BY <1>12 DEF condvar_wait, Goto, wqVars
  <2> QED BY <2>1, <2>2 DEF Mon!vars
<1>13. ASSUME NEW t \in Threads, NEW c \in Condvars, NEW how \in {"signal", "broadcast"},
              cv_signal(t, c, how)
       PROVE  Mon!Notify(t, c, how)
  <2>1. \A u \in Threads : Status(u)' = IF u = t THEN how ELSE Status(u)
    BY <1>a, <1>13 DEF TypeOK, Status, cv_signal, Goto, wqVars
  <2>2. \A u \in Threads : Signals(u)' = IF u = t THEN c ELSE Signals(u)
    BY <1>a, <1>13 DEF TypeOK, Signals, cv_signal, Goto
  <2>3. [u \in Threads |-> Status(u)]' = [[u \in Threads |-> Status(u)] EXCEPT ![t] = how]
    BY <2>1
  <2>4. [u \in Threads |-> Signals(u)]' = [[u \in Threads |-> Signals(u)] EXCEPT ![t] = c]
    BY <2>2
  <2>5. Status(t) = "in" /\ cvOf' = cvOf /\ owner' = owner
    BY <1>13 DEF Status, cv_signal, Goto, wqVars
  <2> QED BY <2>3, <2>4, <2>5 DEF Mon!Notify
<1>14. ASSUME NEW t \in Threads, NEW c \in Condvars, condvar_destroy(t, c)
       PROVE  UNCHANGED Mon!vars
  <2>1. \A u \in Threads : Status(u)' = Status(u) /\ Signals(u)' = Signals(u)
    BY <1>a, <1>14 DEF TypeOK, WaitersReachable, QueuedIsWaiting, Status, Signals,
         condvar_destroy, wqVars, locals
  <2>2. cvOf' = cvOf /\ owner' = owner
    BY <1>14 DEF condvar_destroy, wqVars
  <2> QED BY <2>1, <2>2 DEF Mon!vars
<1>15. ASSUME NEW t \in Threads, wq_promote_condvar(t)
       PROVE  Mon!Signal(t) \/ Mon!Broadcast(t)
  <2> DEFINE c == arg[t]
             I == WaitingOn(c)
             P == IF pc[t] = "broadcast" \/ I = {} THEN I ELSE {First(I)}
             S == {u \in Threads : \E i \in P : wq[i] = u}
  <2>1. /\ pc[t] \in {"signal", "broadcast"}
        /\ pc' = [pc EXCEPT ![t] = "held"]
        /\ cvOf' = [u \in Threads |-> IF u \in S THEN NoCv ELSE cvOf[u]]
        /\ arg' = [arg EXCEPT ![t] = NoCv]
        /\ UNCHANGED <<owner, wq, ret>>
    BY <1>15 DEF wq_promote_condvar
  <2>2. c \in Condvars /\ Status(t) = pc[t] /\ Signals(t) = c
    BY <1>a, <2>1 DEF TypeOK, Status, Signals
  <2>3. I \in SUBSET Nat /\ I \subseteq DOMAIN wq
    BY <1>a DEF TypeOK, WaitingOn
  <2>4. P \subseteq I
    BY <2>3, FirstLemma
  <2>5. \A u \in Threads : u \in S => u \in Queued /\ cvOf[u] = c
    BY <2>3, <2>4 DEF WaitingOn, Queued, ToSet
  <2>6. \A u \in Threads : cvOf[u] = c => \E i \in I : wq[i] = u
    <3>1. ASSUME NEW u \in Threads, cvOf[u] = c PROVE u \in Queued
      BY <1>a, <2>2, <3>1 DEF WaitersReachable
    <3> QED BY <3>1 DEF WaitingOn, Queued, ToSet
  <2> HIDE DEF P
  <2> HIDE DEF S
  <2>7. \A u \in Threads :
          Status(u)' = IF u = t THEN "in" ELSE IF u \in S THEN "want" ELSE Status(u)
    BY <1>a, <2>1, <2>2, <2>5 DEF TypeOK, QueuedIsWaiting, WaitersReachable, Status
  <2>8. \A u \in Threads : Signals(u)' = IF u = t THEN NoCv ELSE Signals(u)
    BY <1>a, <2>1 DEF TypeOK, Signals
  <2>9. Mon!Resume(t, S)
    <3>1. [u \in Threads |-> Signals(u)]' = [[u \in Threads |-> Signals(u)] EXCEPT ![t] = NoCv]
      BY <2>8
    <3> QED BY <2>1, <2>7, <3>1 DEF Mon!Resume
  <2>10. CASE pc[t] = "broadcast"
    <3>1. S = Mon!Waiters(c)
      BY <2>5, <2>6, <2>10 DEF S, P, Mon!Waiters
    <3> QED BY <2>2, <2>9, <2>10, <3>1 DEF Mon!Broadcast
  <2>11. CASE pc[t] = "signal" /\ I = {}
    <3>1. S = {} /\ Mon!Waiters(c) = {}
      BY <2>6, <2>11 DEF S, P, Mon!Waiters
    <3> QED BY <2>2, <2>9, <2>11, <3>1 DEF Mon!Signal
  <2>12. CASE pc[t] = "signal" /\ I # {}
    <3>1. First(I) \in DOMAIN wq /\ wq \in Seq(Threads)
      BY <1>a, <2>3, <2>12, FirstLemma DEF TypeOK
    <3>2. wq[First(I)] \in Threads
      BY <3>1
    <3>3. S = {wq[First(I)]}
      BY <2>12, <3>2 DEF S, P
    <3>4. wq[First(I)] \in Mon!Waiters(c)
      BY <2>5, <3>2, <3>3 DEF Mon!Waiters
    <3> QED BY <2>2, <2>9, <2>12, <3>3, <3>4 DEF Mon!Signal
  <2> QED BY <2>1, <2>10, <2>11, <2>12
<1>16. CASE UNCHANGED vars
  BY <1>16 DEF vars, Mon!vars, Status, Signals
<1>17. ASSUME NEW t \in Threads, CondvarQueue(t) PROVE arg[t] \in Condvars
  BY <1>a, <1>17 DEF TypeOK, CondvarQueue, Goto
<1>18. ASSUME NEW t \in Threads, wq_rpc_wakeup_error(t)
      PROVE  UNCHANGED Mon!vars
  <2>1. \A u \in Threads : Status(u)' = Status(u) /\ Signals(u)' = Signals(u)
    BY <1>a, <1>18 DEF TypeOK, WaitersReachable, QueuedIsWaiting, Status, Signals,
         wq_rpc_wakeup_error, Return, wqVars, locals
  <2>2. cvOf' = cvOf /\ owner' = owner
    BY <1>18 DEF wq_rpc_wakeup_error, Return, wqVars
  <2> QED BY <2>1, <2>2 DEF Mon!vars
<1> QED
  BY <1>1, <1>2, <1>3, <1>4, <1>5, <1>6, <1>7, <1>8, <1>9, <1>10, <1>11, <1>12, <1>13,
     <1>14, <1>15, <1>16, <1>17, <1>18 DEF Next, Call, Run, Error, Mon!Next

(* Every behaviour of the mutex is a behaviour of the monitor.             *)
THEOREM MutexIsMonitor == Spec => IsMonitor
<1>1. Init => Mon!Init
  BY InitRefines
<1>2. IInv /\ [Next]_vars => [Mon!Next]_(Mon!vars)
  BY NextRefines
<1> QED BY <1>1, <1>2, Invariance, PTL DEF Spec, IsMonitor, Mon!Spec
=============================================================================
