-------------------------- MODULE SupplicantProofs --------------------------
(***************************************************************************)
(* Theorems about the threads of tee-supplicant in Rpc.tla, for any bound  *)
(* on their number: what num_waiters counts, and that somebody always      *)
(* takes the next request.                                                 *)
(***************************************************************************)
EXTENDS RpcProofs, FiniteSetTheorems

-----------------------------------------------------------------------------
WPCs == {"none", "new", "loop", "recv", "received", "spawn", "create", "work", "exit"}

(* The threads num_waiters is for: those that wait, those that were        *)
(* created and have yet to run, and those that are about to create one.    *)
Waiting == {w \in Workers : wpc[w] \in {"recv", "received", "new", "create"}}

(* Threads that may have left process_one_request without num_waiters_dec: *)
(* the process has given up, and they end.                                 *)
GaveUp == {w \in Workers : abort /\ wpc[w] \in {"loop", "exit"}}

WShapes == /\ wpc \in [Workers -> WPCs]
           /\ abort \in BOOLEAN
           /\ num_waiters \in Nat
           /\ plat \in Platforms

Listens == ~abort => \E w \in Workers : wpc[w] \in {"loop", "recv", "new", "received", "spawn", "create"}

(* The count is off by no more than those who gave up.                     *)
Counted(W, G, n) == Cardinality(W) <= n /\ n <= Cardinality(W \cup G)

(* The inductive invariant.                                                *)
WInv == WShapes /\ Counted(Waiting, GaveUp, num_waiters) /\ Listens

-----------------------------------------------------------------------------
(* Sets of threads of tee-supplicant are finite; one thread more is one    *)
(* more to count.                                                          *)
LEMMA CountLemma ==
  ASSUME NEW S \in SUBSET Workers
  PROVE  /\ IsFiniteSet(S) /\ Cardinality(S) \in Nat /\ Cardinality(S) <= MaxWorkers
         /\ \A w \in Workers : w \notin S => Cardinality(S \cup {w}) = Cardinality(S) + 1
         /\ \A w \in S : Cardinality(S) >= 1 /\ Cardinality(S \ {w}) = Cardinality(S) - 1
         /\ \A T \in SUBSET S : Cardinality(T) <= Cardinality(S)
         /\ Cardinality(S) = 0 <=> S = {}
<1>1. IsFiniteSet(Workers) /\ Cardinality(Workers) = MaxWorkers
  BY FS_Interval, WorkersAssumption DEF Workers
<1>2. IsFiniteSet(S) /\ Cardinality(S) <= MaxWorkers
  BY <1>1, FS_Subset
<1>3. Cardinality(S) \in Nat
  BY <1>2, FS_CardinalityType
<1>4. ASSUME NEW w \in Workers, w \notin S PROVE Cardinality(S \cup {w}) = Cardinality(S) + 1
  BY <1>2, <1>4, FS_AddElement
<1>5. ASSUME NEW w \in S PROVE Cardinality(S) >= 1 /\ Cardinality(S \ {w}) = Cardinality(S) - 1
  <2>1. Cardinality(S) # 0
    BY <1>2, FS_EmptySet
  <2>2. Cardinality(S \ {w}) = Cardinality(S) - 1
    BY <1>2, FS_RemoveElement
  <2> QED BY <1>3, <2>1, <2>2
<1>6. ASSUME NEW T \in SUBSET S PROVE Cardinality(T) <= Cardinality(S)
  BY <1>2, FS_Subset
<1>7. Cardinality(S) = 0 <=> S = {}
  BY <1>2, FS_EmptySet
<1> QED BY <1>2, <1>3, <1>4, <1>5, <1>6, <1>7

(* One thread enters or leaves a set, or does neither.                     *)
LEMMA MoveLemma ==
  ASSUME NEW S \in SUBSET Workers, NEW T \in SUBSET Workers, NEW w \in Workers,
         S \ {w} = T \ {w}
  PROVE  /\ w \in S /\ w \in T => Cardinality(T) = Cardinality(S)
         /\ w \notin S /\ w \notin T => Cardinality(T) = Cardinality(S)
         /\ w \in S /\ w \notin T => Cardinality(T) = Cardinality(S) - 1
         /\ w \notin S /\ w \in T => Cardinality(T) = Cardinality(S) + 1
         /\ Cardinality(S) \in Nat /\ Cardinality(T) \in Nat
<1>1. Cardinality(S) \in Nat /\ Cardinality(T) \in Nat
  BY CountLemma
<1>2. CASE w \in S /\ w \in T
  <2>1. S = T
    BY <1>2
  <2> QED BY <1>1, <1>2, <2>1
<1>3. CASE w \notin S /\ w \notin T
  <2>1. S = T
    BY <1>3
  <2> QED BY <1>1, <1>3, <2>1
<1>4. CASE w \in S /\ w \notin T
  <2>1. T = S \ {w}
    BY <1>4
  <2> QED BY <1>1, <1>4, <2>1, CountLemma
<1>5. CASE w \notin S /\ w \in T
  <2>1. T = S \cup {w}
    BY <1>5
  <2> QED BY <1>1, <1>5, <2>1, CountLemma
<1> QED BY <1>2, <1>3, <1>4, <1>5

(* The thread w goes to l and changes num_waiters as that says; or it      *)
(* gives up without.                                                       *)
WaitPCs == {"recv", "received", "new", "create"}
LEMMA OneMoves ==
  ASSUME WInv, NEW w \in Workers, NEW l \in WPCs,
         wpc' = [wpc EXCEPT ![w] = l], abort' \in BOOLEAN, abort => abort', UNCHANGED plat,
         \/ wpc[w] \in WaitPCs /\ l \in WaitPCs /\ num_waiters' = num_waiters
         \/ wpc[w] \in WaitPCs /\ l \notin WaitPCs /\ num_waiters' = num_waiters - 1
         \/ wpc[w] \in WaitPCs /\ w \in GaveUp' /\ num_waiters' = num_waiters
         \/ wpc[w] \notin WaitPCs /\ w \notin GaveUp /\ l \in WaitPCs /\ num_waiters' = num_waiters + 1
         \/ wpc[w] \notin WaitPCs /\ l \notin WaitPCs /\ num_waiters' = num_waiters
              /\ (w \in GaveUp => w \in GaveUp')
  PROVE  WShapes' /\ Counted(Waiting, GaveUp, num_waiters)'
<1> DEFINE A == Waiting \cup GaveUp
           B == Waiting' \cup GaveUp'
           C == (A \ {w}) \cup (B \cap {w})
<1>1. /\ wpc \in [Workers -> WPCs] /\ num_waiters \in Nat /\ plat \in Platforms
      /\ Cardinality(Waiting) <= num_waiters /\ num_waiters <= Cardinality(A)
  BY DEF WInv, WShapes, Counted
<1>2. /\ Waiting \in SUBSET Workers /\ Waiting' \in SUBSET Workers
      /\ A \in SUBSET Workers /\ B \in SUBSET Workers /\ C \in SUBSET Workers
  BY DEF Waiting, GaveUp
<1>3. wpc'[w] = l /\ \A v \in Workers \ {w} : wpc'[v] = wpc[v]
  BY <1>1
<1>4. /\ w \in Waiting <=> wpc[w] \in WaitPCs
      /\ w \in Waiting' <=> l \in WaitPCs
      /\ Waiting \ {w} = Waiting' \ {w}
  BY <1>3 DEF Waiting, WaitPCs
<1>5. A \ {w} \subseteq B
  BY <1>3 DEF Waiting, GaveUp
<1>6. C \subseteq B /\ A \ {w} = C \ {w} /\ (w \in C <=> w \in B)
  BY <1>5
<1>7. /\ w \in A <=> wpc[w] \in WaitPCs \/ w \in GaveUp
      /\ w \in C <=> l \in WaitPCs \/ w \in GaveUp'
  BY <1>4, <1>6
<1> HIDE DEF A, B, C
<1>8. Cardinality(C) <= Cardinality(B) /\ Cardinality(C) \in Nat /\ Cardinality(B) \in Nat
      /\ Cardinality(A) \in Nat
  BY <1>2, <1>6, CountLemma
<1>9. /\ w \in Waiting /\ w \in Waiting' => Cardinality(Waiting') = Cardinality(Waiting)
      /\ w \notin Waiting /\ w \notin Waiting' => Cardinality(Waiting') = Cardinality(Waiting)
      /\ w \in Waiting /\ w \notin Waiting' => Cardinality(Waiting') = Cardinality(Waiting) - 1
      /\ w \notin Waiting /\ w \in Waiting' => Cardinality(Waiting') = Cardinality(Waiting) + 1
      /\ Cardinality(Waiting) \in Nat /\ Cardinality(Waiting') \in Nat
  BY <1>2, <1>4, MoveLemma
<1>10. /\ w \in A /\ w \in C => Cardinality(C) = Cardinality(A)
       /\ w \notin A /\ w \notin C => Cardinality(C) = Cardinality(A)
       /\ w \in A /\ w \notin C => Cardinality(C) = Cardinality(A) - 1
       /\ w \notin A /\ w \in C => Cardinality(C) = Cardinality(A) + 1
  BY <1>2, <1>6, MoveLemma
<1>11. Cardinality(Waiting') <= num_waiters' /\ num_waiters' <= Cardinality(B) /\ num_waiters' \in Nat
  BY <1>1, <1>4, <1>7, <1>8, <1>9, <1>10
<1>12. WShapes'
  BY <1>1, <1>11 DEF WShapes
<1> QED BY <1>11, <1>12 DEF Counted, B

-----------------------------------------------------------------------------
(* The steps of a thread of tee-supplicant.                                *)
LEMMA WorkerMoves ==
  ASSUME WInv, NEW w \in Workers, UNCHANGED plat,
         \/ thread_main(w) \/ process_one_request(w) \/ loop_ends(w) \/ waiter_gone(w)
         \/ spawn_thread(w) \/ pthread_create_fails(w) \/ read_request(w)
         \/ request_fails(w) \/ \E c \in Clients : write_response(w, c)
  PROVE  WInv'
<1> USE DEF WorkerAt, WGoto, WPCs, WaitPCs
<1>0. /\ wpc \in [Workers -> WPCs] /\ abort \in BOOLEAN /\ num_waiters \in Nat
      /\ \A l : wpc' = [wpc EXCEPT ![w] = l] => wpc'[w] = l
  BY DEF WInv, WShapes
<1>1. CASE thread_main(w)
  <2>1. WShapes' /\ Counted(Waiting, GaveUp, num_waiters)'
    BY <1>0, <1>1, OneMoves DEF thread_main, num_waiters_dec
  <2> QED BY <1>0, <1>1, <2>1 DEF WInv, Listens, thread_main
<1>2. CASE process_one_request(w)
  <2>0. w \notin GaveUp
    BY <1>2 DEF process_one_request, GaveUp
  <2>1. WShapes' /\ Counted(Waiting, GaveUp, num_waiters)'
    BY <1>0, <1>2, <2>0, OneMoves DEF process_one_request, num_waiters_inc
  <2> QED BY <1>0, <1>2, <2>1 DEF WInv, Listens, process_one_request
<1>3. CASE loop_ends(w)
  <2>1. CASE w # 1
    <3>1. wpc' = [wpc EXCEPT ![w] = "exit"]
      BY <1>0, <1>3, <2>1 DEF loop_ends
    <3>2. w \in GaveUp' /\ num_waiters' = num_waiters /\ wpc[w] = "loop" /\ abort' = abort /\ abort
      BY <1>0, <1>3, <2>1, <3>1 DEF loop_ends, GaveUp
    <3>3. WShapes' /\ Counted(Waiting, GaveUp, num_waiters)'
      BY <1>0, <3>1, <3>2, OneMoves
    <3> QED BY <3>2, <3>3 DEF WInv, Listens
  <2>2. CASE w = 1
    <3>1. wpc' = [v \in Workers |-> "exit"] /\ num_waiters' = 0 /\ abort' = abort /\ abort
      BY <1>3, <2>2 DEF loop_ends
    <3>2. Waiting' = {}
      BY <3>1 DEF Waiting
    <3>3. Cardinality(Waiting') = 0 /\ 0 <= Cardinality((Waiting \cup GaveUp)')
      <4>1. (Waiting \cup GaveUp)' \in SUBSET Workers
        BY DEF Waiting, GaveUp
      <4>2. Cardinality((Waiting \cup GaveUp)') \in Nat
        BY ONLY <4>1, CountLemma
      <4> QED BY <3>2, <4>2, FS_EmptySet
    <3> QED BY <1>0, <3>1, <3>3 DEF WInv, WShapes, Counted, Listens
  <2> QED BY <2>1, <2>2
<1>4. CASE waiter_gone(w)
  <2>1. WShapes' /\ Counted(Waiting, GaveUp, num_waiters)'
    BY <1>0, <1>4, OneMoves DEF waiter_gone, num_waiters_dec
  <2>2. Listens'
    <3> SUFFICES ASSUME ~abort' PROVE Listens'
      BY DEF Listens
    <3>1. CASE num_waiters' = 0
      BY <1>0, <1>4, <3>1 DEF waiter_gone, Listens
    <3>2. CASE num_waiters' # 0
      <4>1. GaveUp' = {}
        BY DEF GaveUp
      <4>2. Cardinality(Waiting') # 0
        <5>1. (Waiting \cup GaveUp)' = Waiting'
          BY <4>1
        <5>2. Waiting' \in SUBSET Workers
          BY DEF Waiting
        <5>3. Cardinality(Waiting') \in Nat
          BY ONLY <5>2, CountLemma
        <5> QED BY <2>1, <3>2, <5>1, <5>3 DEF Counted, WShapes
      <4>3. Waiting' # {}
        BY <4>2, FS_EmptySet
      <4> QED BY <4>3 DEF Waiting, Listens
    <3> QED BY <3>1, <3>2
  <2> QED BY <2>1, <2>2 DEF WInv
<1>5. CASE spawn_thread(w)
  <2>0. w \notin GaveUp
    BY <1>5 DEF spawn_thread, GaveUp
  <2>1. WShapes' /\ Counted(Waiting, GaveUp, num_waiters)'
    BY <1>0, <1>5, <2>0, OneMoves DEF spawn_thread, num_waiters_inc
  <2> QED BY <1>0, <1>5, <2>1 DEF WInv, Listens, spawn_thread
<1>6. CASE pthread_create_fails(w)
  <2>1. WShapes' /\ Counted(Waiting, GaveUp, num_waiters)'
    BY <1>0, <1>6, OneMoves DEF pthread_create_fails, num_waiters_dec, gives_up
  <2> QED BY <1>6, <2>1 DEF WInv, Listens, pthread_create_fails, gives_up
<1>7. CASE read_request(w)
  <2>1. WShapes' /\ Counted(Waiting, GaveUp, num_waiters)'
    BY <1>0, <1>7, OneMoves DEF read_request
  <2> QED BY <1>0, <1>7, <2>1 DEF WInv, Listens, read_request
<1>8. CASE request_fails(w)
  <2>1. abort' /\ wpc' = [wpc EXCEPT ![w] = "loop"] /\ num_waiters' = num_waiters /\ wpc[w] \in {"recv", "received", "work"}
    BY <1>8 DEF request_fails, gives_up
  <2>2. w \in GaveUp'
    BY <1>0, <2>1 DEF GaveUp
  <2>3. WShapes' /\ Counted(Waiting, GaveUp, num_waiters)'
    BY <1>0, <1>8, <2>1, <2>2, OneMoves DEF request_fails, gives_up
  <2> QED BY <2>1, <2>3 DEF WInv, Listens
<1>9. CASE \E c \in Clients : write_response(w, c)
  <2>1. /\ wpc[w] = "work" /\ wpc' = [wpc EXCEPT ![w] = "loop"]
        /\ UNCHANGED <<num_waiters, abort>>
    BY <1>9 DEF write_response
  <2>2. w \notin GaveUp
    BY <2>1 DEF GaveUp
  <2>3. WShapes' /\ Counted(Waiting, GaveUp, num_waiters)'
    BY <1>0, <2>1, <2>2, OneMoves
  <2> QED BY <1>0, <2>1, <2>3 DEF WInv, Listens
<1> QED BY <1>1, <1>2, <1>3, <1>4, <1>5, <1>6, <1>7, <1>8, <1>9

(* The thread that creates another goes on to work, and the new one is     *)
(* counted in its place.                                                   *)
LEMMA CreateMoves ==
  ASSUME WInv, NEW w \in Workers, pthread_create(w, plat.limit), UNCHANGED plat
  PROVE  WInv'
<1> DEFINE none == {x \in 1..plat.limit : wpc[x] = "none"}
           v == Min(none)
<1>1. v \in none /\ v \in Workers
  <2>1. none \in SUBSET Nat /\ none # {} /\ none \subseteq Workers
    <3>1. plat.limit \in 1..MaxWorkers
      BY PlatformsAssumption DEF WInv, WShapes, Workers
    <3>2. none # {}
      BY DEF pthread_create
    <3> QED BY <3>1, <3>2, WorkersAssumption DEF Workers
  <2> HIDE DEF none
  <2> QED BY <2>1, MinLemma
<1>2. wpc[w] = "create" /\ wpc[v] = "none" /\ v # w
  BY <1>1 DEF pthread_create, WorkerAt
<1>3. /\ wpc' = [wpc EXCEPT ![w] = "work", ![v] = "new"]
      /\ UNCHANGED <<num_waiters, abort>>
  BY DEF pthread_create
<1> HIDE DEF none, v
<1>4. /\ wpc \in [Workers -> WPCs] /\ wpc' \in [Workers -> WPCs]
      /\ wpc'[w] = "work" /\ wpc'[v] = "new"
      /\ \A x \in Workers \ {v, w} : wpc'[x] = wpc[x]
  BY <1>1, <1>2, <1>3 DEF WInv, WShapes, WPCs
<1> DEFINE M == Waiting \ {w}
           A == Waiting \cup GaveUp
           N == A \ {w}
           B == Waiting' \cup GaveUp'
<1>5. /\ Waiting \in SUBSET Workers /\ Waiting' \in SUBSET Workers /\ M \in SUBSET Workers
      /\ A \in SUBSET Workers /\ N \in SUBSET Workers /\ B \in SUBSET Workers
  BY DEF Waiting, GaveUp
<1>6. /\ w \in Waiting /\ v \notin M /\ Waiting' = M \cup {v}
      /\ w \in A /\ v \notin N /\ B = N \cup {v}
  BY <1>1, <1>2, <1>3, <1>4 DEF Waiting, GaveUp
<1>7. /\ Cardinality(M) = Cardinality(Waiting) - 1 /\ Cardinality(Waiting') = Cardinality(M) + 1
      /\ Cardinality(N) = Cardinality(A) - 1 /\ Cardinality(B) = Cardinality(N) + 1
      /\ Cardinality(Waiting) \in Nat /\ Cardinality(A) \in Nat
  <2> HIDE DEF A, B
  <2> QED BY <1>1, <1>5, <1>6, CountLemma
<1>8. Counted(Waiting, GaveUp, num_waiters)'
  <2>1. Cardinality(Waiting') = Cardinality(Waiting) /\ Cardinality(B) = Cardinality(A)
    BY <1>7
  <2> QED BY <1>3, <2>1 DEF WInv, Counted
<1>9. WShapes'
  BY <1>3, <1>4 DEF WInv, WShapes
<1>10. Listens'
  BY <1>1, <1>4 DEF Listens
<1> QED BY <1>8, <1>9, <1>10 DEF WInv

(* Nothing else touches the threads or the counter.                        *)
LEMMA OthersKeep ==
  ASSUME WInv, UNCHANGED <<wpc, num_waiters, abort, plat>>
  PROVE  WInv'
BY DEF WInv, WShapes, Counted, Waiting, GaveUp, Listens

LEMMA NextWInv == WInv /\ [Next]_vars => WInv'
<1> SUFFICES ASSUME WInv, [Next]_vars PROVE WInv'
  OBVIOUS
<1>1. CASE UNCHANGED vars
  BY <1>1, OthersKeep DEF vars, wvars
<1>2. ASSUME NEW k \in Cores, NEW c \in Clients, call(k, c) \/ return_from_rpc(k, c) PROVE WInv'
  BY <1>2, OthersKeep DEF call, return_from_rpc, wvars
<1>3. ASSUME NEW k \in Cores, thread_step(k) \/ interrupt(k) PROVE WInv'
  BY <1>3, OthersKeep DEF thread_step, interrupt, wvars
<1>4. ASSUME NEW k \in Cores, smc_return(k) PROVE WInv'
  BY <1>4, OthersKeep DEF smc_return, call_done, serve_alloc, serve_free, serve_intr, serve_cmd,
       supp_request, wvars
<1>5. ASSUME NEW w \in Workers, worker_step(w) PROVE WInv'
  <2>1. CASE pthread_create(w, plat.limit)
    BY <1>5, <2>1, CreateMoves DEF worker_step
  <2> QED BY <1>5, <2>1, WorkerMoves DEF worker_step
<1>6. ASSUME NEW w \in Workers, worker_fails(w) PROVE WInv'
  BY <1>6, WorkerMoves DEF worker_fails
<1>7. ASSUME NEW w \in Workers, NEW c \in Clients, response(w, c) PROVE WInv'
  BY <1>7, WorkerMoves DEF response
<1>8. CASE release \/ disable_shm_cache \/ enable_shm_cache
  BY <1>8, OthersKeep DEF release, supp_release, disable_shm_cache, enable_shm_cache, wvars
<1> QED BY <1>1, <1>2, <1>3, <1>4, <1>5, <1>6, <1>7, <1>8 DEF Next

LEMMA InitWInv == Init => WInv
<1> SUFFICES ASSUME Init PROVE WInv
  OBVIOUS
<1>1. /\ wpc = [w \in Workers |-> IF w = 1 THEN "loop" ELSE "none"] /\ 1 \in Workers
      /\ num_waiters = 0 /\ ~abort /\ abort \in BOOLEAN /\ plat \in Platforms
  <2>1. 1 \in Workers
    BY WorkersAssumption DEF Workers
  <2> QED BY <2>1 DEF Init, SupplicantInit
<1>2. Waiting = {} /\ GaveUp = {} /\ Waiting \cup GaveUp = {}
  BY <1>1 DEF Waiting, GaveUp
<1>3. Counted(Waiting, GaveUp, num_waiters)
  BY <1>1, <1>2, FS_EmptySet DEF Counted
<1> QED BY <1>1, <1>3 DEF WInv, WShapes, Listens, WPCs

LEMMA WaitersInvariance == Spec => []WInv
<1>1. Init => WInv
  BY InitWInv
<1>2. WInv /\ [Next]_vars => WInv'
  BY NextWInv
<1> QED BY <1>1, <1>2, PTL DEF Spec

-----------------------------------------------------------------------------
(* tee_supplicant.c, num_waiters_inc and num_waiters_dec: until the        *)
(* process gives up, num_waiters is the number of threads that wait for a  *)
(* request, have one and have yet to say so, were created and have yet to  *)
(* run, or are about to create one.                                        *)
THEOREM WaitersAreCounted == Spec => []WaitersCounted
<1>1. WInv => WaitersCounted
  <2> SUFFICES ASSUME WInv, ~abort PROVE WaitersCounted
    BY DEF WaitersCounted
  <2> DEFINE R == {w \in Workers : wpc[w] \in {"recv", "received", "new"}}
             C == {w \in Workers : wpc[w] = "create"}
  <2>1. /\ R \in SUBSET Workers /\ C \in SUBSET Workers /\ Waiting \in SUBSET Workers
        /\ Waiting = R \cup C /\ R \cap C = {} /\ Waiting \cup GaveUp = Waiting
    BY DEF Waiting, GaveUp
  <2>2. num_waiters = Cardinality(R \cup C)
    <3>1. Cardinality(Waiting) \in Nat
      BY <2>1, CountLemma
    <3> QED BY <2>1, <3>1 DEF WInv, WShapes, Counted
  <2>3. Cardinality(R \cup C) = Cardinality(R) + Cardinality(C)
    <3> HIDE DEF R, C
    <3>1. /\ IsFiniteSet(R) /\ IsFiniteSet(C)
          /\ Cardinality(R) \in Nat /\ Cardinality(C) \in Nat
      BY <2>1, CountLemma
    <3>2. Cardinality(R \cup C) = Cardinality(R) + Cardinality(C) - Cardinality(R \cap C)
      BY <3>1, FS_Union
    <3>3. Cardinality(R \cap C) = 0
      BY <2>1, FS_EmptySet
    <3> QED BY <3>1, <3>2, <3>3
  <2> QED BY <2>2, <2>3 DEF WaitersCounted
<1> QED BY <1>1, WaitersInvariance, PTL

(* tee_supplicant.c process_one_request, spawn_thread: as long as the      *)
(* process has not given up there is a thread that takes the next request  *)
(* or is on its way to, however many requests never end and however often  *)
(* the last waiter leaves.                                                 *)
THEOREM ThereIsAListener == Spec => []SomebodyListens
<1>1. WInv => SomebodyListens
  BY DEF WInv, Listens, SomebodyListens
<1> QED BY <1>1, WaitersInvariance, PTL
=============================================================================
