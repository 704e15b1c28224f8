--------------------------------- MODULE Rpc ---------------------------------
(***************************************************************************)
(* RPCs from one end to the other: the core's threads (Threads.tla), the   *)
(* driver in the normal world, and tee-supplicant (Supplicant.tla).  The   *)
(* driver is external.  A client's task makes a call, serves the RPCs of   *)
(* its thread (memory itself, commands through tee-supplicant), and        *)
(* resumes the thread.  It may disable and enable the cache whenever the   *)
(* core lets it, and calls are made with the cache on and off.  The answer *)
(* to a command is known by the client that waits for it.                  *)
(***************************************************************************)
EXTENDS Threads, Supplicant

ASSUME RequestsAssumption == Requests = Clients

CONSTANTS Slow,      \* clients whose requests may take for ever (a socket)
          Platforms  \* [cpus, irqs, limit, cache]: the CPUs that are online, the
                     \* CPUs that take interrupts of the normal world, the threads
                     \* tee-supplicant may have, whether the driver uses the cache

ASSUME PlatformsAssumption ==
  \A p \in Platforms : p.cpus \subseteq Cores /\ p.irqs \subseteq Cores /\ p.limit \in Workers

VARIABLES cl,      \* [pc, n, arg] of the client's task
          shm,     \* cookies of argument buffers that are allocated
          late,    \* a call was made with the cache off while a pointer
                   \* that the disabling left was around (history)
          plat     \* the platform

vars == <<tvars, wvars, cl, shm, late, plat>>

Idle == [pc |-> "idle", n |-> None, arg |-> None]

Init == /\ ThreadsInit /\ SupplicantInit
        /\ cl = [c \in Clients |-> Idle]
        /\ shm = {}
        /\ late = FALSE
        /\ plat \in Platforms

SetClient(c, l, n, a) == cl' = [cl EXCEPT ![c] = [pc |-> l, n |-> n, arg |-> a]]

-----------------------------------------------------------------------------
call(k, c) ==
  /\ k \in plat.cpus /\ cl[c].pc = "idle"
  /\ thread_alloc_and_run(k, c)
  /\ SetClient(c, "inside", None, None)
  /\ late' = (late \/ (~prealloc /\ \E n \in Thr : mobj[n] = "freed"))
  /\ UNCHANGED <<wvars, shm, plat>>

(* The call returns, or the thread asks for a service.  The driver gives   *)
(* and frees memory itself (which of the free buffers it takes makes no    *)
(* difference) and hands commands to tee-supplicant.                       *)
call_done(c) == cl' = [cl EXCEPT ![c] = Idle] /\ UNCHANGED <<wvars, shm>>

serve_alloc(c, n) ==
  LET a == CHOOSE b \in Cookies \ shm : TRUE
  IN /\ \/ Cookies \ shm # {} /\ shm' = shm \cup {a} /\ SetClient(c, "ready", n, a)
        \/ UNCHANGED shm /\ SetClient(c, "ready", n, None)
     /\ UNCHANGED wvars

serve_free(c, n) == /\ shm' = shm \ {rv[n]}
                    /\ SetClient(c, "ready", n, "freed")
                    /\ UNCHANGED wvars

serve_intr(c, n) == SetClient(c, "ready", n, "nothing") /\ UNCHANGED <<wvars, shm>>

serve_cmd(c, n) == /\ supp_request(c)
                   /\ SetClient(c, "waiting", n, None)
                   /\ UNCHANGED shm

smc_return(k) ==
  LET c == caller[k]
      n == cpu[k].n
  IN /\ CpuAt(k, "smc")
     /\ \/ cpu[k].arg = "done" /\ call_done(c)
        \/ cpu[k].arg = "alloc" /\ serve_alloc(c, n)
        \/ cpu[k].arg \in {"free", "return"} /\ serve_free(c, n)
        \/ cpu[k].arg = "intr" /\ serve_intr(c, n)
        \/ cpu[k].arg = "cmd" /\ serve_cmd(c, n)
     /\ ToNormal(k)
     /\ UNCHANGED <<late, plat>>

response(w, c) ==
  /\ write_response(w, c)
  /\ SetClient(c, "ready", cl[c].n, c)
  /\ UNCHANGED <<tvars, shm, late, plat>>

release ==
  /\ supp_release
  /\ cl' = [c \in Clients |-> IF cl[c].pc # "waiting" THEN cl[c]
                             ELSE [pc |-> "ready", n |-> cl[c].n, arg |-> c]]
  /\ UNCHANGED <<tvars, shm, late, plat>>

return_from_rpc(k, c) ==
  /\ k \in plat.cpus /\ cl[c].pc = "ready"
  /\ thread_resume_from_rpc(k, c, cl[c].n, cl[c].arg)
  /\ SetClient(c, "inside", None, None)
  /\ UNCHANGED <<wvars, shm, late, plat>>

(* optee_disable_shm_cache: the buffer that comes back is freed.           *)
disable_shm_cache ==
  /\ plat.cache
  /\ \E c \in Cookies \cup {None} :
       thread_disable_prealloc_rpc_cache(c) /\ shm' = shm \ {c}
  /\ UNCHANGED <<wvars, cl, late, plat>>

enable_shm_cache ==
  /\ plat.cache
  /\ thread_enable_prealloc_rpc_cache
  /\ UNCHANGED <<wvars, cl, shm, late, plat>>

-----------------------------------------------------------------------------
thread_step(k) ==
  /\ \/ run(k) \/ resume(k) \/ thread_rpc_cmd(k) \/ get_rpc_arg(k) \/ rpc_done(k)
     \/ thread_state_suspend(k) \/ std_smc_entry_end(k) \/ std_smc_entry_refused(k) \/ arg_freed(k)
     \/ thread_state_free(k)
  /\ UNCHANGED <<wvars, cl, shm, late, plat>>

interrupt(k) == k \in plat.irqs /\ foreign_intr(k) /\ UNCHANGED <<wvars, cl, shm, late, plat>>

worker_step(w) ==
  /\ \/ thread_main(w) \/ process_one_request(w) \/ loop_ends(w) \/ waiter_gone(w)
     \/ spawn_thread(w) \/ pthread_create(w, plat.limit) \/ pthread_create_fails(w) \/ read_request(w)
  /\ UNCHANGED <<tvars, cl, shm, late, plat>>

worker_fails(w) == request_fails(w) /\ UNCHANGED <<tvars, cl, shm, late, plat>>

Next == \/ \E k \in Cores :
             \/ \E c \in Clients : call(k, c) \/ return_from_rpc(k, c)
             \/ thread_step(k) \/ interrupt(k) \/ smc_return(k)
        \/ \E w \in Workers :
             \/ worker_step(w) \/ worker_fails(w)
             \/ \E c \in Clients : response(w, c)
        \/ release
        \/ disable_shm_cache \/ enable_shm_cache

(* CPUs, the threads of the process and the driver go on; a task that is   *)
(* ready gets a CPU in the end (they are free again and again); requests   *)
(* that are not slow are worked off.                                       *)
Fairness ==
  /\ \A k \in Cores : WF_vars(thread_step(k) \/ smc_return(k))
  /\ \A w \in Workers : WF_vars(worker_step(w))
  /\ \A c \in Clients \ Slow :
       /\ WF_vars(release \/ \E w \in Workers : response(w, c))
       /\ SF_vars(\E k \in Cores : return_from_rpc(k, c))

Spec == Init /\ [][Next]_vars /\ Fairness

-----------------------------------------------------------------------------
Values == Cookies \cup {None, "freed", "nothing"} \cup Clients

TypeOK ==
  /\ state \in [Thr -> {"free", "active", "suspended"}]
  /\ copy \in [Thr -> BOOLEAN]
  /\ \A n \in Thr : regs[n] = "own" \/ regs[n] \in Values
  /\ at \in [Thr -> {"run", "refused", "alloc", "cmd", "return", "free"}]
  /\ rv \in [Thr -> Cookies \cup {None}]
  /\ carg \in [Thr -> Cookies \cup {None}]
  /\ mobj \in [Thr -> {"null", "held", "freed"}]
  /\ curr \in [Cores -> Thr \cup {None}]
  /\ sp \in [Cores -> Thr \cup {None}]
  /\ caller \in [Cores -> Clients \cup {None}]
  /\ \A c \in Clients : cl[c].pc \in {"idle", "inside", "waiting", "ready"}
  /\ serving \in [Workers -> Clients \cup {NoRequest}]
  /\ num_waiters \in 0..2 * MaxWorkers
  /\ queue \in Seq(Clients)

(* thread_a64.S, "Mask all maskable exceptions before switching to         *)
(* temporary stack": no two CPUs are ever on the stack of one thread, and  *)
(* a CPU is off the stack before somebody else can take or resume the      *)
(* thread.                                                                 *)
StackExclusive ==
  \A k \in Cores :
    /\ sp[k] # None => curr[k] = sp[k] /\ state[sp[k]] = "active"
    /\ \A j \in Cores \ {k} : curr[k] # None => curr[j] # curr[k]

(* thread_resume_from_rpc: a task that comes back finds its thread         *)
(* suspended, whatever others did meanwhile; OPTEE_SMC_RETURN_ERESUME is   *)
(* never returned.                                                         *)
AnswersFindTheirThread ==
  \A c \in Clients : cl[c].pc \in {"waiting", "ready"} =>
    /\ state[cl[c].n] = "suspended"
    /\ \A d \in Clients \ {c} : cl[d].n # cl[c].n

(* thread.c:556: "Return from RPC to request service of a foreign          *)
(* interrupt must not get parameters from non-secure world."  A thread     *)
(* that made an RPC gets the answer to its own, and one that was           *)
(* interrupted, between or during RPCs, goes on with its own registers.    *)
AnswerIsOwn ==
  \A k \in Cores : CpuAt(k, "thread") =>
    LET n == curr[k] IN
    CASE at[n] \in {"run", "refused"} -> regs[n] = "own"
      [] at[n] = "cmd" -> regs[n] = caller[k]
      [] at[n] \in {"return", "free"} -> regs[n] = "freed"
      [] at[n] = "alloc" -> regs[n] \in Cookies \cup {None}

(* The driver has freed the buffer of the RPC, which the thread has yet to *)
(* see.                                                                    *)
GivenBack(n) == /\ at[n] \in {"return", "free"}
                /\ \/ regs[n] = "freed"
                   \/ \E c \in Clients : cl[c].n = n /\ cl[c].arg = "freed"
                   \/ \E k \in Cores : CpuAt(k, "resume") /\ cpu[k].n = n /\ cpu[k].arg = "freed"
(* Where the buffer a is.                                                  *)
Holders(a) ==
       {<<"thread", n>> : n \in {m \in Thr : carg[m] = a /\ ~GivenBack(m)}}
  \cup {<<"rpc", n>> : n \in {m \in Thr : at[m] = "return" /\ rv[m] = a /\ ~GivenBack(m)}}
  \cup {<<"regs", n>> : n \in {m \in Thr : at[m] = "alloc" /\ regs[m] = a}}
  \cup {<<"task", c>> : c \in {d \in Clients : cl[d].arg = a}}
  \cup {<<"cpu", k>> : k \in {j \in Cores : CpuAt(j, "resume") /\ cpu[j].arg = a}}

(* thread.c get_rpc_arg, __thread_std_smc_entry and                        *)
(* thread_disable_prealloc_rpc_cache: an argument buffer is of one thread  *)
(* or on its way to it, and is not lost, with the cache on or off.  No     *)
(* mobj is freed twice unless a call is made between disabling the cache   *)
(* and enabling it again: thread.c:1185 leaves rpc_mobj behind, and a call *)
(* without an RPC frees it again at thread.c:602.                          *)
BuffersHeld ==
  /\ \A a \in shm : Cardinality(Holders(a)) = 1
  /\ \A n \in Thr : carg[n] \in shm \cup {None} \/ GivenBack(n)
  /\ faulted => late

(* tee_supplicant.c: num_waiters counts the threads that wait for a        *)
(* request and those that were created and have yet to run.                *)
WaitersCounted ==
  ~abort => num_waiters = Cardinality({w \in Workers : wpc[w] \in {"recv", "received", "new"}})
                        + Cardinality({w \in Workers : wpc[w] = "create"})

(* So there is always a thread that takes the next request, or is on its   *)
(* way to, however many requests take for ever.                            *)
SomebodyListens ==
  ~abort => \E w \in Workers : wpc[w] \in {"loop", "recv", "new", "received", "spawn", "create"}

(* A request is answered and its thread goes on, though other requests may *)
(* take for ever; unless tee-supplicant has given up.                      *)
RequestsAnswered ==
  \A c \in Clients \ Slow : cl[c].pc = "waiting" ~> (cl[c].pc = "inside" \/ abort)
=============================================================================
