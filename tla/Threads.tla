------------------------------- MODULE Threads -------------------------------
(***************************************************************************)
(* Threads of the core and their RPCs (core/arch/arm/kernel/thread.c,      *)
(* thread_a64.S).  A standard call takes a free thread; the thread leaves  *)
(* the secure world for an RPC or a foreign interrupt, suspended, and is   *)
(* resumed by a later call, on any CPU.  A CPU between two threads is on   *)
(* its temporary stack.  What runs under thread_global_lock is one step.   *)
(*                                                                         *)
(* The argument buffer of RPCs is normal world memory, named by a cookie,  *)
(* that the thread allocates with its first RPC and keeps for its next     *)
(* calls while thread_prealloc_rpc_cache is set.                           *)
(***************************************************************************)
EXTENDS Naturals, FiniteSets, FiniteSetsExt

CONSTANTS Thr,       \* indices of threads[]
          Cores,
          Clients,   \* tasks of the normal world that call
          Cookies,
          None

ASSUME ThrAssumption == Thr \subseteq Nat /\ None \notin Thr \cup Cores \cup Clients \cup Cookies

(* A cookie, a task, and the other values of registers are told apart.     *)
ASSUME CookiesAssumption == /\ Cookies \cap Clients = {}
                            /\ {"own", "freed", "nothing", None} \cap (Cookies \cup Clients) = {}
                            /\ None \notin {"own", "freed", "nothing"}

VARIABLES
  state,     \* threads[n].state
  copy,      \* THREAD_FLAGS_COPY_ARGS_ON_RETURN of threads[n].flags
  regs,      \* a0..a5 of threads[n].regs: "own", or what was copied
  at,        \* what the thread does: "run", "refused", or the RPC it makes
  rv,        \* the cookie in rv[] of that RPC
  carg,      \* threads[n].rpc_carg (None: rpc_arg is NULL)
  mobj,      \* threads[n].rpc_mobj: NULL, or to a mobj that is held or freed
  prealloc,  \* thread_prealloc_rpc_cache
  curr,      \* l->curr_thread of the CPU
  sp,        \* the thread whose stack the CPU is on; None: the temporary one
  cpu,       \* [pc, n, arg]: where the CPU is, with which locals
  caller,    \* whose call the CPU is in
  faulted    \* a mobj was freed twice

tvars == <<state, copy, regs, at, rv, carg, mobj, prealloc, curr, sp, cpu, caller, faulted>>

Outside == [pc |-> "normal", n |-> None, arg |-> None]

ThreadsInit == /\ state = [n \in Thr |-> "free"]
               /\ copy = [n \in Thr |-> FALSE]
               /\ regs = [n \in Thr |-> "own"]
               /\ at = [n \in Thr |-> "run"]
               /\ rv = [n \in Thr |-> None]
               /\ carg = [n \in Thr |-> None]
               /\ mobj = [n \in Thr |-> "null"]
               /\ prealloc = FALSE
               /\ curr = [k \in Cores |-> None]
               /\ sp = [k \in Cores |-> None]
               /\ cpu = [k \in Cores |-> Outside]
               /\ caller = [k \in Cores |-> None]
               /\ faulted = FALSE

CpuAt(k, l) == cpu[k].pc = l
SetCpu(k, l, n, a) == cpu' = [cpu EXCEPT ![k] = [pc |-> l, n |-> n, arg |-> a]]
Args == UNCHANGED <<carg, mobj, prealloc, faulted>>

-----------------------------------------------------------------------------
(* Fault: a thread that is suspended is taken as well.                     *)
alloc_any_inactive(k, c) ==
  LET free == {n \in Thr : state[n] # "active"}
  IN /\ CpuAt(k, "normal") /\ free # {}
     /\ state' = [state EXCEPT ![Min(free)] = "active"]
     /\ SetCpu(k, "start", Min(free), None)
     /\ caller' = [caller EXCEPT ![k] = c]
     /\ UNCHANGED <<copy, regs, at, rv, curr, sp>> /\ Args

(* A call from client c.  Without a free thread it is turned away with     *)
(* OPTEE_SMC_RETURN_ETHREAD_LIMIT and the client waits.                    *)
thread_alloc_and_run(k, c) ==
  LET free == {n \in Thr : state[n] = "free"}
  IN /\ CpuAt(k, "normal") /\ free # {}
     /\ state' = [state EXCEPT ![Min(free)] = "active"]
     /\ SetCpu(k, "start", Min(free), None)
     /\ caller' = [caller EXCEPT ![k] = c]
     /\ UNCHANGED <<copy, regs, at, rv, curr, sp>> /\ Args

(* After the lock: init_regs, thread_resume.  The handler may refuse the   *)
(* call (its a0 is not OPTEE_SMC_RETURN_OK).                               *)
run(k) ==
  LET n == cpu[k].n
  IN /\ CpuAt(k, "start")
     /\ curr' = [curr EXCEPT ![k] = n]
     /\ sp' = [sp EXCEPT ![k] = n]
     /\ copy' = [copy EXCEPT ![n] = FALSE]
     /\ regs' = [regs EXCEPT ![n] = "own"]
     /\ \E l \in {"run", "refused"} : at' = [at EXCEPT ![n] = l]
     /\ SetCpu(k, "thread", n, None)
     /\ UNCHANGED <<state, rv, caller>> /\ Args

(* Client c returns from an RPC or interrupt of thread n with arguments a. *)
(* A thread that is not suspended is OPTEE_SMC_RETURN_ERESUME, which       *)
(* AnswersFindTheirThread rules out.                                       *)
thread_resume_from_rpc(k, c, n, a) ==
  /\ CpuAt(k, "normal") /\ state[n] = "suspended"
  /\ state' = [state EXCEPT ![n] = "active"]
  /\ SetCpu(k, "resume", n, a)
  /\ caller' = [caller EXCEPT ![k] = c]
  /\ UNCHANGED <<copy, regs, at, rv, curr, sp>> /\ Args

(* Fault: the flag stays set.                                              *)
resume_keeps_flag(k) ==
  LET n == cpu[k].n
  IN /\ CpuAt(k, "resume")
     /\ curr' = [curr EXCEPT ![k] = n]
     /\ sp' = [sp EXCEPT ![k] = n]
     /\ regs' = IF copy[n] THEN [regs EXCEPT ![n] = cpu[k].arg] ELSE regs
     /\ UNCHANGED copy
     /\ SetCpu(k, "thread", n, None)
     /\ UNCHANGED <<state, at, rv, caller>> /\ Args

(* After the lock: an RPC gets its answer, an interrupt nothing.           *)
resume(k) ==
  LET n == cpu[k].n
  IN /\ CpuAt(k, "resume")
     /\ curr' = [curr EXCEPT ![k] = n]
     /\ sp' = [sp EXCEPT ![k] = n]
     /\ regs' = IF copy[n] THEN [regs EXCEPT ![n] = cpu[k].arg] ELSE regs
     /\ copy' = [copy EXCEPT ![n] = FALSE]
     /\ SetCpu(k, "thread", n, None)
     /\ UNCHANGED <<state, at, rv, caller>> /\ Args

-----------------------------------------------------------------------------
(* Fault: the CPU stays on the stack of the thread.                        *)
leave_on_stack(k, l, kind) ==
  SetCpu(k, l, curr[k], kind) /\ UNCHANGED sp

(* The CPU leaves the stack of its thread, to suspend or free it.          *)
to_tmp_stack(k, l, kind) ==
  SetCpu(k, l, curr[k], kind) /\ sp' = [sp EXCEPT ![k] = None]

(* The thread makes an RPC, with the cookie a.                             *)
thread_rpc(k, kind, a) ==
  /\ at' = [at EXCEPT ![curr[k]] = kind]
  /\ rv' = [rv EXCEPT ![curr[k]] = a]
  /\ regs' = [regs EXCEPT ![curr[k]] = "own"]
  /\ to_tmp_stack(k, "suspend", "rpc")

(* It has what the RPC returned and goes on.                               *)
rpc_over(n) == /\ at' = [at EXCEPT ![n] = "run"]
               /\ rv' = [rv EXCEPT ![n] = None]
               /\ regs' = [regs EXCEPT ![n] = "own"]

OnThread(k, l) == CpuAt(k, "thread") /\ at[curr[k]] = l

(* thread_rpc_cmd.  get_rpc_arg allocates the argument buffer first.       *)
thread_rpc_cmd(k) ==
  LET n == curr[k]
  IN /\ OnThread(k, "run")
     /\ thread_rpc(k, IF carg[n] = None THEN "alloc" ELSE "cmd", carg[n])
     /\ UNCHANGED <<state, copy, curr, caller>> /\ Args

(* The buffer is there and the command follows; or there is none; or no    *)
(* mobj can be had for it, and it is given back.                           *)
get_rpc_arg(k) ==
  LET n == curr[k]
  IN /\ OnThread(k, "alloc")
     /\ \/ /\ regs[n] = None
           /\ rpc_over(n)
           /\ UNCHANGED <<carg, mobj, cpu, sp>>
        \/ /\ regs[n] # None
           /\ thread_rpc(k, "return", regs[n])
           /\ UNCHANGED <<carg, mobj>>
        \/ /\ regs[n] # None
           /\ carg' = [carg EXCEPT ![n] = regs[n]]
           /\ mobj' = [mobj EXCEPT ![n] = "held"]
           /\ thread_rpc(k, "cmd", regs[n])
     /\ UNCHANGED <<state, copy, prealloc, curr, caller, faulted>>

(* thread_rpc_cmd returns: with the answer, or without a buffer.           *)
rpc_done(k) ==
  /\ OnThread(k, "cmd") \/ OnThread(k, "return")
  /\ rpc_over(curr[k])
  /\ UNCHANGED <<state, copy, curr, sp, cpu, caller>> /\ Args

(* foreign_intr_handler                                                    *)
foreign_intr(k) ==
  /\ CpuAt(k, "thread")
  /\ to_tmp_stack(k, "suspend", "intr")
  /\ UNCHANGED <<state, copy, regs, at, rv, curr, caller>> /\ Args

(* The thread is marked as suspended ...                                   *)
thread_state_suspend(k) ==
  LET n == curr[k]
  IN /\ CpuAt(k, "suspend")
     /\ state' = [state EXCEPT ![n] = "suspended"]
     /\ copy' = [copy EXCEPT ![n] = @ \/ cpu[k].arg = "rpc"]
     /\ curr' = [curr EXCEPT ![k] = None]
     /\ SetCpu(k, "smc", n, IF cpu[k].arg = "rpc" THEN at[n] ELSE "intr")
     /\ UNCHANGED <<regs, at, rv, sp, caller>> /\ Args

(* ... and then the CPU goes to the normal world.                          *)
ToNormal(k) == /\ cpu' = [cpu EXCEPT ![k] = Outside]
               /\ caller' = [caller EXCEPT ![k] = None]
               /\ sp' = [sp EXCEPT ![k] = None]
               /\ UNCHANGED <<state, copy, regs, at, rv, curr>> /\ Args

-----------------------------------------------------------------------------
(* mobj_free                                                               *)
Freed(n) == faulted' = (faulted \/ mobj[n] = "freed")

(* __thread_std_smc_entry, when the call is done.                          *)
std_smc_entry_end(k) ==
  LET n == curr[k]
  IN /\ OnThread(k, "run")
     /\ UNCHANGED <<state, copy, carg, prealloc, curr, caller>>
     /\ IF prealloc
        THEN to_tmp_stack(k, "free", None) /\ UNCHANGED <<at, rv, regs, mobj, faulted>>
        ELSE IF carg[n] # None
        THEN thread_rpc(k, "free", carg[n]) /\ UNCHANGED <<mobj, faulted>>
        ELSE /\ Freed(n) /\ mobj' = [mobj EXCEPT ![n] = "null"]
             /\ to_tmp_stack(k, "free", None) /\ UNCHANGED <<at, rv, regs>>

(* A call that was refused keeps what the thread has.                      *)
std_smc_entry_refused(k) ==
  /\ OnThread(k, "refused")
  /\ at' = [at EXCEPT ![curr[k]] = "run"]
  /\ to_tmp_stack(k, "free", None)
  /\ UNCHANGED <<state, copy, regs, rv, curr, caller>> /\ Args

(* Fault: rpc_arg and rpc_carg are not reset.                              *)
arg_kept(k) ==
  LET n == curr[k]
  IN /\ OnThread(k, "free")
     /\ Freed(n) /\ mobj' = [mobj EXCEPT ![n] = "null"]
     /\ rpc_over(n)
     /\ to_tmp_stack(k, "free", None)
     /\ UNCHANGED <<state, copy, carg, prealloc, curr, caller>>

(* The argument buffer has been freed.                                     *)
arg_freed(k) ==
  LET n == curr[k]
  IN /\ OnThread(k, "free")
     /\ Freed(n) /\ mobj' = [mobj EXCEPT ![n] = "null"]
     /\ carg' = [carg EXCEPT ![n] = None]
     /\ rpc_over(n)
     /\ to_tmp_stack(k, "free", None)
     /\ UNCHANGED <<state, copy, prealloc, curr, caller>>

thread_state_free(k) ==
  LET n == curr[k]
  IN /\ CpuAt(k, "free")
     /\ state' = [state EXCEPT ![n] = "free"]
     /\ copy' = [copy EXCEPT ![n] = FALSE]
     /\ curr' = [curr EXCEPT ![k] = None]
     /\ SetCpu(k, "smc", n, "done")
     /\ UNCHANGED <<regs, at, rv, sp, caller>> /\ Args

-----------------------------------------------------------------------------
(* Fast calls, on a CPU of the normal world.                               *)
AllFree == \A n \in Thr : state[n] = "free"

(* One buffer a call is given back, c; None: there was none left.  The     *)
(* pointer to the mobj stays.                                              *)
thread_disable_prealloc_rpc_cache(c) ==
  LET used == {n \in Thr : carg[n] # None}
  IN /\ AllFree
     /\ IF used = {}
        THEN prealloc' = FALSE /\ c = None /\ UNCHANGED <<carg, mobj, faulted>>
        ELSE /\ c = carg[Min(used)]
             /\ Freed(Min(used)) /\ mobj' = [mobj EXCEPT ![Min(used)] = "freed"]
             /\ carg' = [carg EXCEPT ![Min(used)] = None]
             /\ UNCHANGED prealloc
     /\ UNCHANGED <<state, copy, regs, at, rv, curr, sp, cpu, caller>>

thread_enable_prealloc_rpc_cache ==
  /\ AllFree
  /\ prealloc' = TRUE
  /\ UNCHANGED <<state, copy, regs, at, rv, carg, mobj, curr, sp, cpu, caller, faulted>>
=============================================================================
