----------------------------- MODULE RpcProofs ------------------------------
(***************************************************************************)
(* Theorems about Rpc.tla, for any number of CPUs, threads, clients and    *)
(* threads of tee-supplicant: stacks are of one CPU, a task that returns   *)
(* from an RPC finds its thread, and a thread gets the answer to its own   *)
(* RPC.                                                                    *)
(***************************************************************************)
EXTENDS Rpc, WellFoundedInduction, TLAPS

-----------------------------------------------------------------------------
(* The inductive invariant.  A thread that is not free is with one CPU     *)
(* that is in the secure world with it, or suspended and with one CPU that *)
(* leaves, or with one client.                                             *)
Owns(k) == cpu[k].pc \in {"start", "resume", "thread", "suspend", "free"}
Leaves(k) == cpu[k].pc = "smc" /\ cpu[k].arg # "done"
Awaits(c) == cl[c].pc \in {"waiting", "ready"}

Ats == {"run", "refused", "alloc", "cmd", "return", "free"}
Rpcs == {"alloc", "cmd", "return", "free"}

(* The variables are functions on their index sets.                        *)
Shapes ==
  /\ state \in [Thr -> {"free", "active", "suspended"}]
  /\ copy \in [Thr -> BOOLEAN]
  /\ at \in [Thr -> Ats]
  /\ regs = [n \in Thr |-> regs[n]]
  /\ curr \in [Cores -> Thr \cup {None}]
  /\ sp \in [Cores -> Thr \cup {None}]
  /\ caller \in [Cores -> Clients \cup {None}]
  /\ cpu = [k \in Cores |-> cpu[k]]
  /\ cl = [c \in Clients |-> cl[c]]
  /\ serving \in [Workers -> Clients \cup {NoRequest}]
  /\ queue \in Seq(Clients)

(* Where a CPU is says which thread it has, and on which stack it is.      *)
CpuPlace(k) ==
  /\ Owns(k) \/ cpu[k].pc \in {"normal", "smc"}
  /\ Owns(k) => cpu[k].n \in Thr /\ state[cpu[k].n] = "active"
  /\ Leaves(k) => cpu[k].n \in Thr /\ state[cpu[k].n] = "suspended"
  /\ curr[k] = IF cpu[k].pc \in {"thread", "suspend", "free"} THEN cpu[k].n ELSE None
  /\ sp[k] = IF cpu[k].pc = "thread" THEN cpu[k].n ELSE None
  /\ cpu[k].pc # "normal" => caller[k] \in Clients /\ cl[caller[k]].pc = "inside"
CpuPlaces == \A k \in Cores : CpuPlace(k)

(* A client that is outside has a thread, which is suspended.              *)
ClientPlaces ==
  \A c \in Clients :
    /\ Awaits(c) \/ cl[c].pc \in {"idle", "inside"}
    /\ Awaits(c) => cl[c].n \in Thr /\ state[cl[c].n] = "suspended"
    /\ ~Awaits(c) => cl[c].n = None

(* No two have the same thread or the same caller.                         *)
CpusApart ==
  \A j, k \in Cores : j # k =>
    /\ Owns(j) /\ Owns(k) => cpu[j].n # cpu[k].n
    /\ Leaves(j) /\ Leaves(k) => cpu[j].n # cpu[k].n
    /\ cpu[j].pc # "normal" /\ cpu[k].pc # "normal" => caller[j] # caller[k]
ClientsApart ==
  /\ \A c, d \in Clients : c # d /\ Awaits(c) /\ Awaits(d) => cl[c].n # cl[d].n
  /\ \A c \in Clients, k \in Cores : Awaits(c) /\ Leaves(k) => cl[c].n # cpu[k].n
Apart == CpusApart /\ ClientsApart

(* A request is known to tee-supplicant once, and its client waits.        *)
Pending ==
  /\ \A w \in Workers : serving[w] # NoRequest => cl[serving[w]].pc = "waiting"
  /\ \A i \in 1..Len(queue) : cl[queue[i]].pc = "waiting"
  /\ \A i, j \in 1..Len(queue) : i # j => queue[i] # queue[j]
  /\ \A w \in Workers, i \in 1..Len(queue) : serving[w] # queue[i]
  /\ \A v, w \in Workers : v # w /\ serving[v] = serving[w] => serving[v] = NoRequest

(* The value v in the registers of a thread of client c that is at l.      *)
Fits(l, v, c) == \/ l \in {"run", "refused"} /\ v = "own"
                 \/ l = "cmd" /\ v = c
                 \/ l \in {"return", "free"} /\ v = "freed"
                 \/ l = "alloc" /\ v \in Cookies \cup {None}

(* The registers fit, or will when what a is is copied into them.          *)
WillFit(n, a, c) == Fits(at[n], IF copy[n] THEN a ELSE regs[n], c)

CpuAnswers(k) ==
  LET n == cpu[k].n IN
  /\ CpuAt(k, "resume") => WillFit(n, cpu[k].arg, caller[k])
  /\ CpuAt(k, "thread") => ~copy[n] /\ Fits(at[n], regs[n], caller[k])
  /\ CpuAt(k, "suspend") =>
       /\ ~copy[n]
       /\ \/ cpu[k].arg = "intr" /\ Fits(at[n], regs[n], caller[k])
          \/ cpu[k].arg = "rpc" /\ at[n] \in Rpcs
  /\ Leaves(k) =>
       \/ cpu[k].arg = "intr" /\ ~copy[n] /\ Fits(at[n], regs[n], caller[k])
       \/ cpu[k].arg = at[n] /\ copy[n] /\ at[n] \in Rpcs

ClientAnswers(c) ==
  LET n == cl[c].n IN
  /\ cl[c].pc = "waiting" => at[n] = "cmd" /\ copy[n]
  /\ cl[c].pc = "ready" => WillFit(n, cl[c].arg, c)

Answers == /\ \A k \in Cores : CpuAnswers(k)
           /\ \A c \in Clients : ClientAnswers(c)

IInv == Shapes /\ CpuPlaces /\ ClientPlaces /\ Apart /\ Pending /\ Answers

-----------------------------------------------------------------------------
(* thread_alloc_and_run takes the first free thread.                       *)
LEMMA MinLemma ==
  ASSUME NEW I \in SUBSET Nat, I # {}
  PROVE  Min(I) \in I
<1> DEFINE R == OpToRel(<, Nat)
<1>1. \A x, y \in Nat : <<y, x>> \in R <=> y < x
  BY DEF OpToRel
<1>2. \E i \in I : \A j \in I : ~ (<<j, i>> \in R)
  <2> HIDE DEF R
  <2>1. IsWellFoundedOn(R, Nat)
    BY NatLessThanWellFounded DEF R
  <2> QED BY <2>1, WFMin
<1> HIDE DEF R
<1>3. PICK i \in I : \A j \in I : ~ (<<j, i>> \in R)
  BY <1>2
<1>4. ASSUME NEW j \in I PROVE i <= j
  <2>1. i \in Nat /\ j \in Nat /\ ~ (<<j, i>> \in R)
    BY <1>3
  <2> QED BY <1>1, <2>1
<1> QED BY <1>3, <1>4 DEF Min

(* Nothing runs when the core has booted.                                  *)
LEMMA InitIInv == Init => IInv
<1> SUFFICES ASSUME Init PROVE IInv
  OBVIOUS
<1> USE DEF Init, ThreadsInit, SupplicantInit, Outside, Idle, Owns, Leaves, Awaits
<1>1. Shapes
  BY DEF Shapes, Ats
<1>2. CpuPlaces /\ ClientPlaces /\ Apart
  BY DEF CpuPlaces, CpuPlace, ClientPlaces, Apart, CpusApart, ClientsApart
<1>3. Pending
  BY DEF Pending
<1>4. Answers
  BY DEF Answers, CpuAnswers, ClientAnswers, CpuAt
<1> QED BY <1>1, <1>2, <1>3, <1>4 DEF IInv

(* A CPU k goes on with its thread, to the place q; the thread is at x,    *)
(* with registers r and flag b.                                            *)
Local(k, q, x, r, b) ==
  LET n == cpu[k].n
      l == q.pc
      a == q.arg IN
  /\ Owns(k) /\ q.n = n /\ l \in {"thread", "suspend", "free"} /\ x \in Ats /\ b \in BOOLEAN
  /\ cpu' = [cpu EXCEPT ![k] = q]
  /\ curr' = [curr EXCEPT ![k] = n]
  /\ sp' = [sp EXCEPT ![k] = IF l = "thread" THEN n ELSE None]
  /\ at' = [at EXCEPT ![n] = x]
  /\ regs' = [regs EXCEPT ![n] = r]
  /\ copy' = [copy EXCEPT ![n] = b]
  /\ l = "thread" => ~b /\ Fits(x, r, caller[k])
  /\ l = "suspend" => /\ ~b
                      /\ \/ a = "intr" /\ Fits(x, r, caller[k])
                         \/ a = "rpc" /\ x \in Rpcs
  /\ UNCHANGED <<state, caller, wvars, cl>>

(* Such a step is nobody else's business.                                  *)
LEMMA LocalStep ==
  ASSUME IInv, NEW k \in Cores, NEW q, NEW x, NEW r, NEW b,
         Local(k, q, x, r, b)
  PROVE  IInv'
<1> DEFINE n == cpu[k].n
<1>1. n \in Thr /\ state[n] = "active"
  BY DEF IInv, CpuPlaces, CpuPlace, Local
<1>2. /\ \A j \in Cores \ {k} : /\ cpu'[j] = cpu[j] /\ curr'[j] = curr[j] /\ sp'[j] = sp[j]
                                /\ (Owns(j)' <=> Owns(j)) /\ (Leaves(j)' <=> Leaves(j))
                                /\ Owns(j) => cpu[j].n # n
                                /\ Leaves(j) => cpu[j].n # n
      /\ \A m \in Thr \ {n} : at'[m] = at[m] /\ regs'[m] = regs[m] /\ copy'[m] = copy[m]
      /\ at'[n] = x /\ regs'[n] = r /\ copy'[n] = b
      /\ cpu'[k] = q /\ q.n = n /\ curr'[k] = n
      /\ sp'[k] = IF q.pc = "thread" THEN n ELSE None
      /\ Owns(k) /\ Owns(k)' /\ ~Leaves(k)' /\ cpu[k].pc # "normal"
  <2>1. /\ cpu'[k] = q /\ q.n = n /\ curr'[k] = n
        /\ sp'[k] = IF q.pc = "thread" THEN n ELSE None
        /\ at'[n] = x /\ regs'[n] = r /\ copy'[n] = b
    BY <1>1 DEF IInv, Shapes, Local
  <2>2. Owns(k) /\ Owns(k)' /\ ~Leaves(k)' /\ cpu[k].pc # "normal"
    BY <2>1 DEF Local, Owns, Leaves
  <2>3. ASSUME NEW m \in Thr \ {n}
        PROVE  at'[m] = at[m] /\ regs'[m] = regs[m] /\ copy'[m] = copy[m]
    BY <1>1 DEF IInv, Shapes, Local
  <2>4. ASSUME NEW j \in Cores \ {k}
        PROVE  cpu'[j] = cpu[j] /\ curr'[j] = curr[j] /\ sp'[j] = sp[j]
    BY DEF IInv, Shapes, Local
  <2>5. ASSUME NEW j \in Cores \ {k}
        PROVE  (Owns(j)' <=> Owns(j)) /\ (Leaves(j)' <=> Leaves(j))
    BY <2>4 DEF Owns, Leaves
  <2>6. ASSUME NEW j \in Cores \ {k}
        PROVE  (Owns(j) => cpu[j].n # n) /\ (Leaves(j) => cpu[j].n # n)
    BY <1>1, <2>2 DEF IInv, CpuPlaces, CpuPlace, Apart, CpusApart, ClientsApart
  <2> QED BY <2>1, <2>2, <2>3, <2>4, <2>5, <2>6
<1>3. \A c \in Clients : (Awaits(c)' <=> Awaits(c)) /\ (Awaits(c) => cl[c].n \in Thr \ {n})
  BY <1>1 DEF IInv, ClientPlaces, Local, Awaits
<1>4. Shapes'
  BY <1>1 DEF IInv, Shapes, Local, wvars
<1>5. CpuPlaces'
  BY <1>1, <1>2 DEF IInv, CpuPlaces, CpuPlace, Local
<1>6. ClientPlaces'
  BY <1>3 DEF IInv, ClientPlaces, Local
<1>7. Apart'
  BY <1>2, <1>3 DEF IInv, Apart, CpusApart, ClientsApart, Local
<1>8. Pending'
  BY DEF IInv, Pending, Local, wvars
<1>9. Answers'
  <2>1. CpuAnswers(k)'
    BY <1>2 DEF Local, CpuAnswers, CpuAt
  <2>2. ASSUME NEW j \in Cores \ {k} PROVE CpuAnswers(j)'
    BY <1>2 DEF IInv, Answers, CpuAnswers, CpuPlaces, CpuPlace, CpuAt, WillFit, Local, Owns
  <2>3. ASSUME NEW c \in Clients PROVE ClientAnswers(c)'
    BY <1>2, <1>3 DEF IInv, Answers, ClientAnswers, WillFit, Local, Awaits
  <2> QED BY <2>1, <2>2, <2>3 DEF Answers
<1> QED BY <1>4, <1>5, <1>6, <1>7, <1>8, <1>9 DEF IInv

(* What runs on the stack of a thread, and its start and resumption.       *)
LEMMA ThreadRuns ==
  ASSUME IInv, NEW k \in Cores,
         \/ run(k) \/ resume(k) \/ thread_rpc_cmd(k) \/ get_rpc_arg(k) \/ rpc_done(k)
         \/ std_smc_entry_end(k) \/ std_smc_entry_refused(k) \/ arg_freed(k)
         \/ foreign_intr(k),
         UNCHANGED <<wvars, cl>>
  PROVE  IInv'
<1> DEFINE n == cpu[k].n
           At(l, a) == [pc |-> l, n |-> n, arg |-> a]
<1>0. Owns(k) /\ n \in Thr /\ copy[n] \in BOOLEAN /\ at[n] \in Ats
  <2>1. Owns(k)
    BY DEF run, resume, thread_rpc_cmd, get_rpc_arg, rpc_done, std_smc_entry_end,
           std_smc_entry_refused, arg_freed, foreign_intr, OnThread, CpuAt, Owns
  <2> QED BY <2>1 DEF IInv, CpuPlaces, CpuPlace, Shapes
<1>1. ASSUME cpu[k].pc = "thread"
      PROVE  /\ curr[k] = n /\ curr = [curr EXCEPT ![k] = n]
             /\ sp[k] = n /\ sp = [sp EXCEPT ![k] = n]
             /\ ~copy[n] /\ copy = [copy EXCEPT ![n] = FALSE]
             /\ at = [at EXCEPT ![n] = at[n]] /\ regs = [regs EXCEPT ![n] = regs[n]]
             /\ cpu = [cpu EXCEPT ![k] = cpu[k]]
             /\ Fits(at[n], regs[n], caller[k])
  <2>1. curr[k] = n /\ sp[k] = n
    BY <1>1 DEF IInv, CpuPlaces, CpuPlace
  <2>2. ~copy[n] /\ Fits(at[n], regs[n], caller[k])
    BY <1>1 DEF IInv, Answers, CpuAnswers, CpuAt
  <2> QED BY <1>0, <2>1, <2>2 DEF IInv, Shapes
<1>2. CASE run(k)
  <2>1. PICK l \in {"run", "refused"} : at' = [at EXCEPT ![n] = l]
    BY <1>2 DEF run
  <2>2. Local(k, At("thread", None), l, "own", FALSE)
    BY <1>0, <1>2, <2>1 DEF run, Local, SetCpu, Fits, Ats
  <2> QED BY <2>2, LocalStep
<1>3. CASE resume(k)
  <2>1. Fits(at[n], IF copy[n] THEN cpu[k].arg ELSE regs[n], caller[k])
    BY <1>3 DEF resume, IInv, Answers, CpuAnswers, WillFit
  <2>2. /\ regs' = [regs EXCEPT ![n] = IF copy[n] THEN cpu[k].arg ELSE regs[n]]
        /\ at' = [at EXCEPT ![n] = at[n]]
    BY <1>0, <1>3 DEF resume, IInv, Shapes
  <2>3. Local(k, At("thread", None), at[n], IF copy[n] THEN cpu[k].arg ELSE regs[n], FALSE)
    BY <1>0, <1>3, <2>1, <2>2 DEF resume, Local, SetCpu
  <2> QED BY <2>3, LocalStep
<1>4. ASSUME NEW kind \in Rpcs, NEW a, CpuAt(k, "thread"), thread_rpc(k, kind, a),
             UNCHANGED <<state, copy, curr, caller>>
      PROVE  IInv'
  <2>1. Local(k, At("suspend", "rpc"), kind, "own", FALSE)
    BY <1>0, <1>1, <1>4 DEF CpuAt, thread_rpc, to_tmp_stack, SetCpu, Local, Ats, Rpcs
  <2> QED BY <2>1, LocalStep
<1>5. ASSUME CpuAt(k, "thread"), rpc_over(n), UNCHANGED <<state, copy, curr, caller, cpu, sp>>
      PROVE  IInv'
  <2>1. Local(k, cpu[k], "run", "own", FALSE)
    BY <1>0, <1>1, <1>5 DEF CpuAt, rpc_over, Local, Ats, Fits
  <2> QED BY <2>1, LocalStep
<1>6. ASSUME CpuAt(k, "thread"), to_tmp_stack(k, "free", None), NEW x \in Ats, NEW r,
             at' = [at EXCEPT ![n] = x], regs' = [regs EXCEPT ![n] = r],
             UNCHANGED <<state, copy, curr, caller>>
      PROVE  IInv'
  <2>1. Local(k, At("free", None), x, r, FALSE)
    BY <1>0, <1>1, <1>6 DEF CpuAt, to_tmp_stack, SetCpu, Local
  <2> QED BY <2>1, LocalStep
<1>7. CASE thread_rpc_cmd(k)
  <2> DEFINE kind == IF carg[n] = None THEN "alloc" ELSE "cmd"
  <2>1. CpuAt(k, "thread") /\ thread_rpc(k, kind, carg[n]) /\ UNCHANGED <<state, copy, curr, caller>>
    BY <1>1, <1>7 DEF thread_rpc_cmd, OnThread, CpuAt
  <2>2. kind \in Rpcs
    BY DEF Rpcs
  <2> HIDE DEF kind
  <2> QED BY <1>4, <2>1, <2>2
<1>8. CASE get_rpc_arg(k)
  <2>0. CpuAt(k, "thread") /\ UNCHANGED <<state, copy, curr, caller>> /\ curr[k] = n
    BY <1>1, <1>8 DEF get_rpc_arg, OnThread, CpuAt
  <2>1. CASE rpc_over(n) /\ UNCHANGED <<cpu, sp>>
    BY <1>5, <2>0, <2>1
  <2>2. ASSUME NEW kind \in {"return", "cmd"}, thread_rpc(k, kind, regs[n]) PROVE IInv'
    BY <1>4, <2>0, <2>2 DEF Rpcs
  <2> QED BY <1>8, <2>0, <2>1, <2>2 DEF get_rpc_arg
<1>9. CASE rpc_done(k)
  <2>1. CpuAt(k, "thread") /\ rpc_over(n) /\ UNCHANGED <<state, copy, curr, caller, cpu, sp>>
    BY <1>1, <1>9 DEF rpc_done, OnThread, CpuAt
  <2> QED BY <1>5, <2>1
<1>10. CASE std_smc_entry_end(k)
  <2>0. CpuAt(k, "thread") /\ UNCHANGED <<state, copy, curr, caller>> /\ curr[k] = n
    BY <1>1, <1>10 DEF std_smc_entry_end, OnThread, CpuAt
  <2>1. CASE to_tmp_stack(k, "free", None) /\ UNCHANGED <<at, regs>>
    <3>1. at' = [at EXCEPT ![n] = at[n]] /\ regs' = [regs EXCEPT ![n] = regs[n]]
      BY <1>1, <2>0, <2>1 DEF CpuAt
    <3> QED BY <1>0, <1>6, <2>0, <2>1, <3>1
  <2>2. CASE thread_rpc(k, "free", carg[n])
    BY <1>4, <2>0, <2>2 DEF Rpcs
  <2> QED BY <1>10, <2>0, <2>1, <2>2 DEF std_smc_entry_end
<1>11. CASE std_smc_entry_refused(k)
  <2>1. /\ CpuAt(k, "thread") /\ to_tmp_stack(k, "free", None) /\ "run" \in Ats
        /\ at' = [at EXCEPT ![n] = "run"] /\ regs' = [regs EXCEPT ![n] = regs[n]]
        /\ UNCHANGED <<state, copy, curr, caller>>
    BY <1>1, <1>11 DEF std_smc_entry_refused, OnThread, CpuAt, Ats
  <2> QED BY <1>6, <2>1
<1>12. CASE arg_freed(k)
  <2>1. /\ CpuAt(k, "thread") /\ to_tmp_stack(k, "free", None) /\ "run" \in Ats
        /\ at' = [at EXCEPT ![n] = "run"] /\ regs' = [regs EXCEPT ![n] = "own"]
        /\ UNCHANGED <<state, copy, curr, caller>>
    BY <1>1, <1>12 DEF arg_freed, OnThread, CpuAt, Ats, rpc_over
  <2> QED BY <1>6, <2>1
<1>13. CASE foreign_intr(k)
  <2>1. Local(k, At("suspend", "intr"), at[n], regs[n], FALSE)
    BY <1>0, <1>1, <1>13 DEF CpuAt, foreign_intr, to_tmp_stack, SetCpu, Local
  <2> QED BY <2>1, LocalStep
<1> QED BY <1>2, <1>3, <1>7, <1>8, <1>9, <1>10, <1>11, <1>12, <1>13

(* The client c enters on the CPU k with the thread m, which is free or    *)
(* its own.                                                                *)
Enter(k, c, m, q) ==
  /\ CpuAt(k, "normal") /\ q.pc \in {"start", "resume"} /\ q.n = m /\ m \in Thr
  /\ \/ cl[c].pc = "idle" /\ state[m] = "free"
     \/ cl[c].pc = "ready" /\ cl[c].n = m
  /\ q.pc = "resume" => WillFit(m, q.arg, c)
  /\ state' = [state EXCEPT ![m] = "active"]
  /\ cpu' = [cpu EXCEPT ![k] = q]
  /\ caller' = [caller EXCEPT ![k] = c]
  /\ cl' = [cl EXCEPT ![c] = [pc |-> "inside", n |-> None, arg |-> None]]
  /\ UNCHANGED <<copy, regs, at, curr, sp, wvars>>

LEMMA EnterStep ==
  ASSUME IInv, NEW k \in Cores, NEW c \in Clients, NEW m, NEW q, Enter(k, c, m, q)
  PROVE  IInv'
<1>1. /\ cpu'[k] = q /\ q.n = m /\ m \in Thr /\ caller'[k] = c /\ state'[m] = "active"
      /\ cl'[c].pc = "inside" /\ cl'[c].n = None
      /\ \A j \in Cores \ {k} : cpu'[j] = cpu[j] /\ caller'[j] = caller[j]
      /\ \A d \in Clients \ {c} : cl'[d] = cl[d]
      /\ \A o \in Thr \ {m} : state'[o] = state[o]
  BY DEF IInv, Shapes, Enter
<1>2. /\ Owns(k)' /\ ~Leaves(k)' /\ ~Awaits(c)' /\ cpu[k].pc = "normal"
      /\ cl[c].pc # "inside" /\ cl[c].pc # "waiting"
      /\ \A j \in Cores \ {k} : (Owns(j)' <=> Owns(j)) /\ (Leaves(j)' <=> Leaves(j))
      /\ \A d \in Clients \ {c} : Awaits(d)' <=> Awaits(d)
  BY <1>1 DEF Enter, Owns, Leaves, Awaits, CpuAt
<1>3. /\ \A j \in Cores \ {k} : /\ Owns(j) => cpu[j].n # m
                                /\ Leaves(j) => cpu[j].n # m
                                /\ cpu[j].pc # "normal" => caller[j] # c
      /\ \A d \in Clients \ {c} : Awaits(d) => cl[d].n # m
  <2>1. state[m] \in {"free", "suspended"}
    BY DEF IInv, ClientPlaces, Enter, Awaits
  <2>2. CASE cl[c].pc = "idle" /\ state[m] = "free"
    BY <1>2, <2>2 DEF IInv, CpuPlaces, CpuPlace, ClientPlaces
  <2>3. CASE cl[c].pc = "ready" /\ cl[c].n = m
    <3>1. Awaits(c)
      BY <2>3 DEF Awaits
    <3> QED BY <1>2, <2>1, <2>3, <3>1 DEF IInv, CpuPlaces, CpuPlace, Apart, CpusApart, ClientsApart
  <2> QED BY <2>2, <2>3 DEF Enter
<1>4. Shapes'
  BY DEF IInv, Shapes, Enter, wvars
<1>5. CpuPlaces'
  <2>1. curr'[k] = None /\ sp'[k] = None
    BY <1>2 DEF IInv, CpuPlaces, CpuPlace, Enter
  <2>2. CpuPlace(k)'
    BY <1>1, <1>2, <2>1 DEF CpuPlace, Enter
  <2>3. ASSUME NEW j \in Cores \ {k} PROVE CpuPlace(j)'
    BY <1>1, <1>2, <1>3 DEF IInv, CpuPlaces, CpuPlace, Enter
  <2> QED BY <2>2, <2>3 DEF CpuPlaces
<1>6. ClientPlaces'
  BY <1>1, <1>2, <1>3 DEF IInv, ClientPlaces
<1>7. Apart'
  <2>1. CpusApart'
    BY <1>1, <1>2, <1>3 DEF IInv, Apart, CpusApart
  <2>2. ClientsApart'
    BY <1>1, <1>2, <1>3 DEF IInv, Apart, ClientsApart
  <2> QED BY <2>1, <2>2 DEF Apart
<1>8. Pending'
  <2>1. queue' = queue /\ serving' = serving
    BY DEF Enter, wvars
  <2>2. \A d \in Clients : cl[d].pc = "waiting" => cl'[d].pc = "waiting"
    BY <1>1, <1>2
  <2>3. /\ \A w \in Workers : serving[w] # NoRequest => serving[w] \in Clients
        /\ \A i \in 1..Len(queue) : queue[i] \in Clients
    BY DEF IInv, Shapes
  <2> QED BY <2>1, <2>2, <2>3 DEF IInv, Pending
<1>9. Answers'
  <2>1. CpuAnswers(k)'
    BY <1>1, <1>2 DEF Enter, CpuAnswers, CpuAt, WillFit
  <2>2. ASSUME NEW j \in Cores \ {k} PROVE CpuAnswers(j)'
    BY <1>1, <1>2 DEF IInv, Answers, CpuAnswers, CpuAt, WillFit, Enter
  <2>3. ASSUME NEW d \in Clients PROVE ClientAnswers(d)'
    BY <1>1 DEF IInv, Answers, ClientAnswers, WillFit, Enter
  <2> QED BY <2>1, <2>2, <2>3 DEF Answers
<1> QED BY <1>4, <1>5, <1>6, <1>7, <1>8, <1>9 DEF IInv

(* The CPU k gives up its thread, which is then suspended or free.         *)
GiveUp(k, q, s, b) ==
  LET n == cpu[k].n IN
  /\ Owns(k) /\ q.pc = "smc" /\ b \in BOOLEAN /\ s \in {"suspended", "free"}
  /\ q.arg # "done" => q.n = n /\ s = "suspended"
  /\ q.arg # "done" => \/ q.arg = "intr" /\ ~b /\ Fits(at[n], regs[n], caller[k])
                       \/ q.arg = at[n] /\ b /\ at[n] \in Rpcs
  /\ state' = [state EXCEPT ![n] = s]
  /\ copy' = [copy EXCEPT ![n] = b]
  /\ curr' = [curr EXCEPT ![k] = None]
  /\ cpu' = [cpu EXCEPT ![k] = q]
  /\ sp[k] = None
  /\ UNCHANGED <<regs, at, sp, caller, wvars, cl>>

LEMMA GiveUpStep ==
  ASSUME IInv, NEW k \in Cores, NEW q, NEW s, NEW b, GiveUp(k, q, s, b)
  PROVE  IInv'
<1> DEFINE n == cpu[k].n
<1>1. n \in Thr /\ state[n] = "active"
  BY DEF IInv, CpuPlaces, CpuPlace, GiveUp
<1>2. /\ cpu'[k] = q /\ curr'[k] = None /\ state'[n] = s /\ copy'[n] = b
      /\ \A j \in Cores \ {k} : cpu'[j] = cpu[j] /\ curr'[j] = curr[j]
      /\ \A m \in Thr \ {n} : state'[m] = state[m] /\ copy'[m] = copy[m]
  BY <1>1 DEF IInv, Shapes, GiveUp
<1>3. /\ ~Owns(k)' /\ Owns(k) /\ cpu[k].pc # "normal" /\ (Leaves(k)' => q.arg # "done" /\ q.n = n)
      /\ \A j \in Cores \ {k} : (Owns(j)' <=> Owns(j)) /\ (Leaves(j)' <=> Leaves(j))
      /\ \A c \in Clients : Awaits(c)' <=> Awaits(c)
  BY <1>2 DEF GiveUp, Owns, Leaves, Awaits
<1>4. /\ \A j \in Cores \ {k} : /\ Owns(j) => cpu[j].n \in Thr \ {n}
                                /\ Leaves(j) => cpu[j].n \in Thr \ {n}
      /\ \A c \in Clients : Awaits(c) => cl[c].n \in Thr \ {n}
  BY <1>1, <1>3 DEF IInv, CpuPlaces, CpuPlace, ClientPlaces, Apart, CpusApart, ClientsApart
<1>5. Shapes'
  BY <1>1 DEF IInv, Shapes, GiveUp, wvars
<1>6. CpuPlaces'
  <2>1. CpuPlace(k)'
    BY <1>1, <1>2, <1>3 DEF IInv, CpuPlaces, CpuPlace, GiveUp, Leaves
  <2>2. ASSUME NEW j \in Cores \ {k} PROVE CpuPlace(j)'
    BY <1>2, <1>3, <1>4 DEF IInv, CpuPlaces, CpuPlace, GiveUp
  <2> QED BY <2>1, <2>2 DEF CpuPlaces
<1>7. ClientPlaces'
  BY <1>2, <1>3, <1>4 DEF IInv, ClientPlaces, GiveUp
<1>8. Apart'
  BY <1>2, <1>3, <1>4 DEF IInv, Apart, CpusApart, ClientsApart, GiveUp
<1>9. Pending'
  BY DEF IInv, Pending, GiveUp, wvars
<1>10. Answers'
  <2>1. CpuAnswers(k)'
    BY <1>2, <1>3 DEF GiveUp, CpuAnswers, CpuAt
  <2>2. ASSUME NEW j \in Cores \ {k} PROVE CpuAnswers(j)'
    <3>1. CASE Owns(j) \/ Leaves(j)
      <4>1. copy'[cpu[j].n] = copy[cpu[j].n]
        BY <1>2, <1>4, <3>1
      <4> QED BY <1>2, <1>3, <4>1 DEF IInv, Answers, CpuAnswers, CpuAt, WillFit, GiveUp
    <3>2. CASE ~Owns(j) /\ ~Leaves(j)
      BY <1>2, <1>3, <3>2 DEF CpuAnswers, CpuAt, Owns
    <3> QED BY <3>1, <3>2
  <2>3. ASSUME NEW c \in Clients PROVE ClientAnswers(c)'
    BY <1>2, <1>4 DEF IInv, Answers, ClientAnswers, WillFit, GiveUp, Awaits
  <2> QED BY <2>1, <2>2, <2>3 DEF Answers
<1> QED BY <1>5, <1>6, <1>7, <1>8, <1>9, <1>10 DEF IInv

(* The CPU k goes to the normal world, where its client c becomes q.       *)
Exit(k, c, q) ==
  LET n == cpu[k].n
  IN /\ CpuAt(k, "smc") /\ caller[k] = c
     /\ \/ q.pc = "idle" /\ q.n = None
        \/ /\ q.pc \in {"waiting", "ready"} /\ Leaves(k) /\ q.n = n
           /\ q.pc = "waiting" => at[n] = "cmd" /\ copy[n]
           /\ q.pc = "ready" => WillFit(n, q.arg, c)
     /\ cl' = [cl EXCEPT ![c] = q]
     /\ cpu' = [cpu EXCEPT ![k] = Outside]
     /\ caller' = [caller EXCEPT ![k] = None]
     /\ sp' = [sp EXCEPT ![k] = None]
     /\ UNCHANGED <<state, copy, regs, at, curr>>

LEMMA ExitStep ==
  ASSUME IInv, NEW k \in Cores, NEW c, NEW q, Exit(k, c, q),
         \/ UNCHANGED wvars
         \/ q.pc = "waiting" /\ supp_request(c)
  PROVE  IInv'
<1> DEFINE n == cpu[k].n
<1>1. /\ c \in Clients /\ cl[c].pc = "inside" /\ cpu[k].pc = "smc"
      /\ ~Owns(k) /\ ~Awaits(c) /\ caller[k] = c
  BY DEF IInv, CpuPlaces, CpuPlace, Exit, CpuAt, Owns, Awaits
<1>2. /\ cl'[c] = q /\ cpu'[k] = Outside /\ caller'[k] = None /\ sp'[k] = None
      /\ \A j \in Cores \ {k} : cpu'[j] = cpu[j] /\ caller'[j] = caller[j] /\ sp'[j] = sp[j]
      /\ \A d \in Clients \ {c} : cl'[d] = cl[d]
  BY <1>1 DEF IInv, Shapes, Exit
<1>3. /\ ~Owns(k)' /\ ~Leaves(k)' /\ cpu'[k].pc = "normal"
      /\ \A j \in Cores \ {k} : (Owns(j)' <=> Owns(j)) /\ (Leaves(j)' <=> Leaves(j))
      /\ \A d \in Clients \ {c} : Awaits(d)' <=> Awaits(d)
      /\ Awaits(c)' => Leaves(k) /\ q.n = n /\ n \in Thr /\ state[n] = "suspended"
  <2>1. ~Owns(k)' /\ ~Leaves(k)' /\ cpu'[k].pc = "normal"
    BY <1>2 DEF Owns, Leaves, Outside
  <2>2. Awaits(c)' => Leaves(k) /\ q.n = n /\ n \in Thr /\ state[n] = "suspended"
    BY <1>1, <1>2 DEF IInv, CpuPlaces, CpuPlace, Exit, Awaits
  <2> QED BY <1>2, <2>1, <2>2 DEF Owns, Leaves, Awaits
<1>4. \A j \in Cores \ {k} : cpu[j].pc # "normal" => caller[j] # c
  BY <1>1 DEF IInv, Apart, CpusApart
<1>5. Shapes'
  <2>1. queue' \in Seq(Clients) /\ serving' = serving
    <3>1. queue \in Seq(Clients)
      BY DEF IInv, Shapes
    <3>2. CASE UNCHANGED wvars
      BY <3>1, <3>2 DEF wvars
    <3>3. CASE supp_request(c)
      BY <1>1, <3>1, <3>3 DEF supp_request
    <3> QED BY <3>2, <3>3
  <2> QED BY <1>1, <2>1 DEF IInv, Shapes, Exit
<1>6. CpuPlaces'
  <2>1. curr'[k] = None
    BY <1>1 DEF IInv, CpuPlaces, CpuPlace, Exit
  <2>2. CpuPlace(k)'
    BY <1>2, <1>3, <2>1 DEF CpuPlace
  <2>3. ASSUME NEW j \in Cores \ {k} PROVE CpuPlace(j)'
    BY <1>2, <1>3, <1>4 DEF IInv, CpuPlaces, CpuPlace, Exit
  <2> QED BY <2>2, <2>3 DEF CpuPlaces
<1>7. ClientPlaces'
  <2>1. /\ Awaits(c)' \/ q.pc \in {"idle", "inside"}
        /\ ~Awaits(c)' => q.n = None
    BY <1>2 DEF Exit, Awaits
  <2> QED BY <1>2, <1>3, <2>1 DEF IInv, ClientPlaces, Exit
<1>8. Apart'
  <2>1. CpusApart'
    BY <1>2, <1>3 DEF IInv, Apart, CpusApart
  <2>2. ClientsApart'
    BY <1>2, <1>3 DEF IInv, Apart, CpusApart, ClientsApart
  <2> QED BY <2>1, <2>2 DEF Apart
<1>9. Pending'
  <2>1. /\ \A w \in Workers : serving[w] # NoRequest => serving[w] \in Clients \ {c}
        /\ \A i \in 1..Len(queue) : queue[i] \in Clients \ {c}
    <3>1. /\ \A w \in Workers : serving[w] # NoRequest => serving[w] \in Clients
          /\ \A i \in 1..Len(queue) : queue[i] \in Clients
      BY DEF IInv, Shapes
    <3>2. /\ \A w \in Workers : serving[w] # NoRequest => serving[w] # c
          /\ \A i \in 1..Len(queue) : queue[i] # c
      BY <1>1 DEF IInv, Pending
    <3> QED BY <3>1, <3>2
  <2>2. \A d \in Clients \ {c} : cl'[d].pc = cl[d].pc
    BY <1>2
  <2>3. CASE UNCHANGED wvars
    BY <2>1, <2>2, <2>3 DEF IInv, Pending, wvars
  <2>4. CASE q.pc = "waiting" /\ supp_request(c)
    <3>1. /\ serving' = serving /\ Len(queue') = Len(queue) + 1 /\ Len(queue) \in Nat
          /\ \A i \in 1..Len(queue) : queue'[i] = queue[i]
          /\ queue'[Len(queue) + 1] = c
      BY <1>1, <2>4 DEF IInv, Shapes, supp_request
    <3>2. c # NoRequest
      BY <1>1, NoRequestAssumption, RequestsAssumption
    <3>3. \A i \in 1..Len(queue') : i \in 1..Len(queue) \/ i = Len(queue) + 1
      BY <3>1
    <3>4. cl'[c].pc = "waiting"
      BY <1>2, <2>4
    <3> QED BY <2>1, <2>2, <3>1, <3>2, <3>3, <3>4 DEF IInv, Pending
  <2> QED BY <2>3, <2>4
<1>10. Answers'
  <2>1. CpuAnswers(k)'
    BY <1>2, <1>3 DEF CpuAnswers, CpuAt, Outside
  <2>2. ASSUME NEW j \in Cores \ {k} PROVE CpuAnswers(j)'
    BY <1>2, <1>3 DEF IInv, Answers, CpuAnswers, CpuAt, WillFit, Exit
  <2>3. ClientAnswers(c)'
    BY <1>2 DEF Exit, ClientAnswers, WillFit
  <2>4. ASSUME NEW d \in Clients \ {c} PROVE ClientAnswers(d)'
    BY <1>2 DEF IInv, Answers, ClientAnswers, WillFit, Exit
  <2> QED BY <2>1, <2>2, <2>3, <2>4 DEF Answers
<1> QED BY <1>5, <1>6, <1>7, <1>8, <1>9, <1>10 DEF IInv

(* A thread of tee-supplicant takes a request or does something else that  *)
(* the rest does not see.                                                  *)
LEMMA WorkerStep ==
  ASSUME IInv, NEW w \in Workers, UNCHANGED <<tvars, cl>>,
         UNCHANGED <<serving, queue>> \/ read_request(w)
  PROVE  IInv'
<1>0. UNCHANGED <<state, copy, regs, at, curr, sp, cpu, caller, cl>>
  BY DEF tvars
<1>1. CpuPlaces' /\ ClientPlaces' /\ Apart' /\ Answers'
  BY <1>0 DEF IInv, CpuPlaces, CpuPlace, ClientPlaces, Apart, CpusApart, ClientsApart, Answers,
       CpuAnswers, ClientAnswers, WillFit, CpuAt, Owns, Leaves, Awaits
<1>2. CASE UNCHANGED <<serving, queue>>
  <2>1. Shapes' /\ Pending'
    BY <1>0, <1>2 DEF IInv, Shapes, Pending
  <2> QED BY <1>1, <2>1 DEF IInv
<1>3. CASE read_request(w)
  <2>1. /\ queue # <<>> /\ queue \in Seq(Clients) /\ queue' = Tail(queue)
        /\ serving' = [serving EXCEPT ![w] = queue[1]]
    BY <1>3 DEF read_request, IInv, Shapes
  <2>2. /\ Len(queue) \in Nat \ {0} /\ queue[1] \in Clients /\ 1 \in 1..Len(queue)
        /\ Len(queue') = Len(queue) - 1 /\ queue' \in Seq(Clients)
        /\ \A i \in 1..Len(queue') : i + 1 \in 1..Len(queue) /\ i + 1 # 1 /\ queue'[i] = queue[i + 1]
    BY <2>1
  <2>3. /\ serving'[w] = queue[1]
        /\ \A v \in Workers \ {w} : serving'[v] = serving[v]
    BY <2>1 DEF IInv, Shapes
  <2>4. Shapes'
    BY <1>0, <2>1, <2>2 DEF IInv, Shapes
  <2>5. Pending'
    <3>1. /\ \A v \in Workers : serving'[v] # NoRequest => cl[serving'[v]].pc = "waiting"
          /\ \A i \in 1..Len(queue') : cl[queue'[i]].pc = "waiting"
      BY <2>2, <2>3 DEF IInv, Pending
    <3>2. \A i, j \in 1..Len(queue') : i # j => queue'[i] # queue'[j]
      <4> SUFFICES ASSUME NEW i \in 1..Len(queue'), NEW j \in 1..Len(queue'), i # j
                   PROVE  queue'[i] # queue'[j]
        OBVIOUS
      <4>1. i + 1 # j + 1
        BY <2>2
      <4> QED BY <2>2, <4>1 DEF IInv, Pending
    <3>3. \A v \in Workers, i \in 1..Len(queue') : serving'[v] # queue'[i]
      BY <2>2, <2>3 DEF IInv, Pending
    <3>4. \A u, v \in Workers : u # v /\ serving'[u] = serving'[v] => serving'[u] = NoRequest
      BY <2>2, <2>3 DEF IInv, Pending
    <3> QED BY <1>0, <3>1, <3>2, <3>3, <3>4 DEF Pending
  <2> QED BY <1>1, <2>4, <2>5 DEF IInv
<1> QED BY <1>2, <1>3

(* Requests are answered: of one client by a thread of tee-supplicant, or  *)
(* of all when the process has exited.                                     *)
LEMMA AnswerStep ==
  ASSUME IInv, (\E w \in Workers, c \in Clients : response(w, c)) \/ release
  PROVE  IInv'
<1> DEFINE Answered(c) == cl[c].pc = "waiting" /\ cl'[c] = [pc |-> "ready", n |-> cl[c].n, arg |-> c]
<1>1. /\ UNCHANGED tvars /\ Shapes' /\ Pending'
      /\ \A c \in Clients : cl'[c] = cl[c] \/ Answered(c)
  <2>1. ASSUME NEW w \in Workers, NEW c \in Clients, response(w, c)
        PROVE  <1>1!:
    <3>1. /\ serving[w] = c /\ c # NoRequest /\ cl[c].pc = "waiting"
          /\ \A i \in 1..Len(queue) : queue[i] # c
          /\ \A v \in Workers \ {w} : serving[v] # c
      BY <2>1, NoRequestAssumption, RequestsAssumption
         DEF response, write_response, IInv, Pending
    <3>2. /\ UNCHANGED <<tvars, queue>>
          /\ cl' = [cl EXCEPT ![c] = [pc |-> "ready", n |-> cl[c].n, arg |-> c]]
          /\ serving' = [serving EXCEPT ![w] = NoRequest]
      BY <2>1 DEF response, write_response, SetClient
    <3>3. \A d \in Clients : cl'[d] = IF d = c THEN [pc |-> "ready", n |-> cl[c].n, arg |-> c] ELSE cl[d]
      BY <3>2 DEF IInv, Shapes
    <3>4. \A v \in Workers : serving'[v] = IF v = w THEN NoRequest ELSE serving[v]
      BY <3>2 DEF IInv, Shapes
    <3>5. Shapes'
      BY <3>2 DEF IInv, Shapes, tvars
    <3>6. Pending'
      <4>1. /\ \A v \in Workers \ {w} : serving[v] # NoRequest => serving[v] \in Clients \ {c}
            /\ \A i \in 1..Len(queue) : queue[i] \in Clients \ {c}
        BY <3>1 DEF IInv, Shapes
      <4>2. \A i \in 1..Len(queue) : queue[i] # NoRequest
        BY <4>1, NoRequestAssumption, RequestsAssumption
      <4> QED BY <3>2, <3>3, <3>4, <4>1, <4>2 DEF IInv, Pending
    <3> QED BY <3>1, <3>2, <3>3, <3>5, <3>6
  <2>2. CASE release
    <3>1. /\ UNCHANGED tvars /\ queue' = <<>> /\ serving' = [w \in Workers |-> NoRequest]
          /\ cl' = [c \in Clients |-> IF cl[c].pc # "waiting" THEN cl[c]
                                      ELSE [pc |-> "ready", n |-> cl[c].n, arg |-> c]]
      BY <2>2 DEF release, supp_release
    <3>2. Shapes'
      BY <3>1 DEF IInv, Shapes, tvars
    <3>3. Pending'
      BY <3>1 DEF Pending
    <3> QED BY <3>1, <3>2, <3>3
  <2> QED BY <2>1, <2>2
<1>2. UNCHANGED <<state, copy, regs, at, curr, sp, cpu, caller>>
  BY <1>1 DEF tvars
<1>3. /\ \A c \in Clients : (Awaits(c)' <=> Awaits(c)) /\ cl'[c].n = cl[c].n
      /\ \A c \in Clients : cl[c].pc = "inside" <=> cl'[c].pc = "inside"
      /\ \A c \in Clients : cl[c].pc = "idle" <=> cl'[c].pc = "idle"
      /\ \A k \in Cores : (Owns(k)' <=> Owns(k)) /\ (Leaves(k)' <=> Leaves(k))
  <2>1. \A k \in Cores : (Owns(k)' <=> Owns(k)) /\ (Leaves(k)' <=> Leaves(k))
    BY <1>2 DEF Owns, Leaves
  <2>2. ASSUME NEW c \in Clients
        PROVE  /\ (Awaits(c)' <=> Awaits(c)) /\ cl'[c].n = cl[c].n
               /\ cl[c].pc = "inside" <=> cl'[c].pc = "inside"
               /\ cl[c].pc = "idle" <=> cl'[c].pc = "idle"
    <3>1. CASE cl'[c] = cl[c]
      BY <3>1 DEF Awaits
    <3>2. CASE Answered(c)
      BY <3>2 DEF Awaits
    <3> QED BY <1>1, <3>1, <3>2
  <2> QED BY <2>1, <2>2
<1>4. CpuPlaces'
  BY <1>2, <1>3 DEF IInv, CpuPlaces, CpuPlace
<1>5. ClientPlaces'
  BY <1>2, <1>3 DEF IInv, ClientPlaces
<1>6. Apart'
  BY <1>2, <1>3 DEF IInv, Apart, CpusApart, ClientsApart
<1>7. Answers'
  <2>1. ASSUME NEW k \in Cores PROVE CpuAnswers(k)'
    BY <1>2, <1>3 DEF IInv, Answers, CpuAnswers, CpuAt, WillFit
  <2>2. ASSUME NEW c \in Clients PROVE ClientAnswers(c)'
    <3>1. CASE cl'[c] = cl[c]
      BY <1>2, <3>1 DEF IInv, Answers, ClientAnswers, WillFit
    <3>2. CASE Answered(c)
      <4>1. at[cl[c].n] = "cmd" /\ copy[cl[c].n]
        BY <3>2 DEF IInv, Answers, ClientAnswers
      <4>2. cl'[c].pc = "ready" /\ cl'[c].n = cl[c].n /\ cl'[c].arg = c
        BY <3>2
      <4> QED BY <1>2, <4>1, <4>2 DEF ClientAnswers, WillFit, Fits
    <3> QED BY <1>1, <3>1, <3>2
  <2> QED BY <2>1, <2>2 DEF Answers
<1> QED BY <1>1, <1>4, <1>5, <1>6, <1>7 DEF IInv

-----------------------------------------------------------------------------
(* Every step of the core, the driver and tee-supplicant keeps the         *)
(* invariant.                                                              *)
LEMMA NextIInv == IInv /\ [Next]_vars => IInv'
<1> SUFFICES ASSUME IInv, [Next]_vars PROVE IInv'
  OBVIOUS
<1>1. ASSUME UNCHANGED <<state, copy, regs, at, curr, sp, cpu, caller, wvars, cl>>
      PROVE  IInv'
  <2>1. /\ \A k \in Cores : (Owns(k)' <=> Owns(k)) /\ (Leaves(k)' <=> Leaves(k))
        /\ \A c \in Clients : Awaits(c)' <=> Awaits(c)
    BY <1>1 DEF Owns, Leaves, Awaits
  <2>2. Shapes' /\ Pending'
    BY <1>1 DEF IInv, Shapes, Pending, wvars
  <2>3. CpuPlaces' /\ ClientPlaces' /\ Apart'
    BY <1>1, <2>1 DEF IInv, CpuPlaces, CpuPlace, ClientPlaces, Apart, CpusApart, ClientsApart
  <2>4. Answers'
    BY <1>1, <2>1 DEF IInv, Answers, CpuAnswers, ClientAnswers, WillFit, CpuAt
  <2> QED BY <2>2, <2>3, <2>4 DEF IInv
<1>2. CASE UNCHANGED vars
  BY <1>1, <1>2 DEF vars, tvars
<1>3. ASSUME NEW k \in Cores, NEW c \in Clients, call(k, c) PROVE IInv'
  <2> DEFINE free == {m \in Thr : state[m] = "free"}
             q == [pc |-> "start", n |-> Min(free), arg |-> None]
  <2>1. Min(free) \in free
    <3>1. free \in SUBSET Nat /\ free # {}
      BY <1>3, ThrAssumption DEF call, thread_alloc_and_run
    <3> HIDE DEF free
    <3> QED BY <3>1, MinLemma
  <2>2. Enter(k, c, Min(free), q)
    <3>1. /\ CpuAt(k, "normal") /\ cl[c].pc = "idle"
          /\ state' = [state EXCEPT ![Min(free)] = "active"]
          /\ cpu' = [cpu EXCEPT ![k] = q]
          /\ caller' = [caller EXCEPT ![k] = c]
          /\ cl' = [cl EXCEPT ![c] = [pc |-> "inside", n |-> None, arg |-> None]]
          /\ UNCHANGED <<copy, regs, at, curr, sp, wvars>>
      BY <1>3 DEF call, thread_alloc_and_run, SetCpu, SetClient
    <3>2. Min(free) \in Thr /\ state[Min(free)] = "free"
      BY <2>1
    <3> HIDE DEF free
    <3> QED BY <3>1, <3>2 DEF Enter
  <2> QED BY <2>2, EnterStep
<1>4. ASSUME NEW k \in Cores, NEW c \in Clients, return_from_rpc(k, c) PROVE IInv'
  <2>1. cl[c].n \in Thr /\ WillFit(cl[c].n, cl[c].arg, c)
    BY <1>4 DEF return_from_rpc, IInv, ClientPlaces, Answers, ClientAnswers, Awaits
  <2>2. Enter(k, c, cl[c].n, [pc |-> "resume", n |-> cl[c].n, arg |-> cl[c].arg])
    BY <1>4, <2>1 DEF return_from_rpc, thread_resume_from_rpc, SetCpu, SetClient, Enter
  <2> QED BY <2>2, EnterStep
<1>5. ASSUME NEW k \in Cores, thread_step(k) \/ interrupt(k) PROVE IInv'
  <2> DEFINE n == cpu[k].n
  <2>0. UNCHANGED <<wvars, cl>>
    BY <1>5 DEF thread_step, interrupt
  <2>1. CASE \/ run(k) \/ resume(k) \/ thread_rpc_cmd(k) \/ get_rpc_arg(k) \/ rpc_done(k)
             \/ std_smc_entry_end(k) \/ std_smc_entry_refused(k) \/ arg_freed(k) \/ foreign_intr(k)
    BY <2>0, <2>1, ThreadRuns
  <2>2. CASE thread_state_suspend(k)
    <3>1. /\ Owns(k) /\ curr[k] = n /\ sp[k] = None /\ n \in Thr
          /\ cpu[k].pc = "suspend" /\ CpuAnswers(k)
      BY <2>2 DEF thread_state_suspend, CpuAt, IInv, CpuPlaces, CpuPlace, Owns, Answers
    <3>2. ~copy[n]
      BY <3>1 DEF CpuAnswers, CpuAt
    <3>3. CASE cpu[k].arg = "intr" /\ Fits(at[n], regs[n], caller[k])
      <4>1. copy' = [copy EXCEPT ![n] = FALSE]
        BY <2>2, <3>1, <3>2, <3>3 DEF thread_state_suspend
      <4>2. GiveUp(k, [pc |-> "smc", n |-> n, arg |-> "intr"], "suspended", FALSE)
        BY <2>0, <2>2, <3>1, <3>3, <4>1 DEF thread_state_suspend, SetCpu, GiveUp
      <4> QED BY <4>2, GiveUpStep
    <3>4. CASE cpu[k].arg = "rpc" /\ at[n] \in Rpcs
      <4>1. copy' = [copy EXCEPT ![n] = TRUE]
        BY <2>2, <3>1, <3>4 DEF thread_state_suspend
      <4>2. GiveUp(k, [pc |-> "smc", n |-> n, arg |-> at[n]], "suspended", TRUE)
        BY <2>0, <2>2, <3>1, <3>4, <4>1 DEF thread_state_suspend, SetCpu, GiveUp
      <4> QED BY <4>2, GiveUpStep
    <3> QED BY <3>1, <3>3, <3>4 DEF CpuAnswers, CpuAt
  <2>3. CASE thread_state_free(k)
    <3>1. Owns(k) /\ curr[k] = n /\ sp[k] = None
      BY <2>3 DEF thread_state_free, CpuAt, IInv, CpuPlaces, CpuPlace, Owns
    <3>2. GiveUp(k, [pc |-> "smc", n |-> n, arg |-> "done"], "free", FALSE)
      BY <2>0, <2>3, <3>1 DEF thread_state_free, SetCpu, GiveUp
    <3> QED BY <3>2, GiveUpStep
  <2> QED BY <1>5, <2>1, <2>2, <2>3 DEF thread_step, interrupt
<1>6. ASSUME NEW k \in Cores, smc_return(k) PROVE IInv'
  <2> DEFINE n == cpu[k].n
             c == caller[k]
             To(l, m, a) == [pc |-> l, n |-> m, arg |-> a]
  <2>0. /\ CpuAt(k, "smc")
        /\ cpu' = [cpu EXCEPT ![k] = Outside] /\ caller' = [caller EXCEPT ![k] = None]
        /\ sp' = [sp EXCEPT ![k] = None] /\ UNCHANGED <<state, copy, regs, at, curr>>
    BY <1>6 DEF smc_return, ToNormal
  <2>1. cpu[k].arg # "done" =>
          /\ Leaves(k)
          /\ \/ cpu[k].arg = "intr" /\ ~copy[n] /\ Fits(at[n], regs[n], c)
             \/ cpu[k].arg = at[n] /\ copy[n] /\ at[n] \in Rpcs
    BY <2>0 DEF IInv, Answers, CpuAnswers, CpuAt, Leaves
  <2>2. CASE cpu[k].arg = "done" /\ call_done(c)
    <3>1. Exit(k, c, Idle) /\ UNCHANGED wvars
      BY <2>0, <2>2 DEF call_done, Exit, Idle
    <3> QED BY <3>1, ExitStep
  <2>3. CASE cpu[k].arg = "alloc" /\ serve_alloc(c, n)
    <3>1. PICK a \in Cookies \cup {None} : cl' = [cl EXCEPT ![c] = To("ready", n, a)]
      BY <2>3 DEF serve_alloc, SetClient
    <3>2. WillFit(n, a, c)
      BY <2>1, <2>3 DEF WillFit, Fits, Rpcs
    <3>3. Exit(k, c, To("ready", n, a)) /\ UNCHANGED wvars
      BY <2>0, <2>1, <2>3, <3>1, <3>2 DEF serve_alloc, Exit
    <3> QED BY <3>3, ExitStep
  <2>4. CASE cpu[k].arg \in {"free", "return"} /\ serve_free(c, n)
    <3>1. WillFit(n, "freed", c)
      BY <2>1, <2>4 DEF WillFit, Fits, Rpcs
    <3>2. Exit(k, c, To("ready", n, "freed")) /\ UNCHANGED wvars
      BY <2>0, <2>1, <2>4, <3>1 DEF serve_free, SetClient, Exit
    <3> QED BY <3>2, ExitStep
  <2>5. CASE cpu[k].arg = "intr" /\ serve_intr(c, n)
    <3>1. WillFit(n, "nothing", c)
      BY <2>1, <2>5 DEF WillFit, Rpcs
    <3>2. Exit(k, c, To("ready", n, "nothing")) /\ UNCHANGED wvars
      BY <2>0, <2>1, <2>5, <3>1 DEF serve_intr, SetClient, Exit
    <3> QED BY <3>2, ExitStep
  <2>6. CASE cpu[k].arg = "cmd" /\ serve_cmd(c, n)
    <3>1. at[n] = "cmd" /\ copy[n]
      BY <2>1, <2>6
    <3>2. Exit(k, c, To("waiting", n, None)) /\ supp_request(c)
      BY <2>0, <2>1, <2>6, <3>1 DEF serve_cmd, SetClient, Exit
    <3>3. To("waiting", n, None).pc = "waiting"
      OBVIOUS
    <3> QED BY <3>2, <3>3, ExitStep
  <2> QED BY <1>6, <2>2, <2>3, <2>4, <2>5, <2>6 DEF smc_return
<1>7. ASSUME NEW w \in Workers, worker_step(w) \/ worker_fails(w) PROVE IInv'
  <2>1. UNCHANGED <<tvars, cl>>
    BY <1>7 DEF worker_step, worker_fails
  <2>2. UNCHANGED <<serving, queue>> \/ read_request(w)
    BY <1>7 DEF worker_step, worker_fails, thread_main, process_one_request, loop_ends,
         waiter_gone, spawn_thread, pthread_create, pthread_create_fails, request_fails
  <2> QED BY <2>1, <2>2, WorkerStep
<1>8. CASE (\E w \in Workers, c \in Clients : response(w, c)) \/ release
  BY <1>8, AnswerStep
<1>9. CASE disable_shm_cache \/ enable_shm_cache
  BY <1>1, <1>9 DEF disable_shm_cache, enable_shm_cache, thread_disable_prealloc_rpc_cache,
       thread_enable_prealloc_rpc_cache
<1> QED BY <1>2, <1>3, <1>4, <1>5, <1>6, <1>7, <1>8, <1>9 DEF Next

(* The invariant of thread.c, the driver and tee-supplicant together.      *)
THEOREM Invariance == Spec => []IInv
<1>1. Init => IInv
  BY InitIInv
<1>2. IInv /\ [Next]_vars => IInv'
  BY NextIInv
<1> QED BY <1>1, <1>2, PTL DEF Spec

(* thread_a64.S: however calls, RPCs and interrupts of any number of CPUs  *)
(* interleave, no two are on one thread's stack.                           *)
THEOREM StacksAreExclusive == Spec => []StackExclusive
<1>1. IInv => StackExclusive
  <2> SUFFICES ASSUME IInv, NEW k \in Cores
               PROVE  /\ sp[k] # None => curr[k] = sp[k] /\ state[sp[k]] = "active"
                      /\ \A j \in Cores \ {k} : curr[k] # None => curr[j] # curr[k]
    BY DEF StackExclusive
  <2>1. CpuPlace(k) /\ \A j \in Cores : CpuPlace(j)
    BY DEF IInv, CpuPlaces
  <2>2. \A j \in Cores : curr[j] # None => Owns(j) /\ curr[j] = cpu[j].n
    BY <2>1 DEF CpuPlace, Owns
  <2>3. sp[k] # None => curr[k] = sp[k] /\ state[sp[k]] = "active"
    BY <2>1 DEF CpuPlace, Owns
  <2> QED BY <2>2, <2>3 DEF IInv, Apart, CpusApart
<1> QED BY <1>1, Invariance, PTL

(* thread_resume_from_rpc: any task that returns from an RPC finds its own *)
(* thread suspended; OPTEE_SMC_RETURN_ERESUME is never returned.           *)
THEOREM ThreadsAreFound == Spec => []AnswersFindTheirThread
<1>1. IInv => AnswersFindTheirThread
  <2> SUFFICES ASSUME IInv, NEW c \in Clients, cl[c].pc \in {"waiting", "ready"}
               PROVE  /\ state[cl[c].n] = "suspended"
                      /\ \A d \in Clients \ {c} : cl[d].n # cl[c].n
    BY DEF AnswersFindTheirThread
  <2>1. Awaits(c)
    BY DEF Awaits
  <2>2. cl[c].n \in Thr /\ cl[c].n # None /\ state[cl[c].n] = "suspended"
    BY <2>1, ThrAssumption DEF IInv, ClientPlaces
  <2> QED BY <2>1, <2>2 DEF IInv, ClientPlaces, Apart, ClientsApart
<1> QED BY <1>1, Invariance, PTL

(* thread.c:556: a thread gets the answer to its own RPC, and one that was *)
(* interrupted keeps its registers, on whichever CPU it goes on.           *)
THEOREM AnswersAreOwn == Spec => []AnswerIsOwn
<1>1. IInv => AnswerIsOwn
  <2> SUFFICES ASSUME IInv, NEW k \in Cores, CpuAt(k, "thread")
               PROVE  CASE at[curr[k]] \in {"run", "refused"} -> regs[curr[k]] = "own"
                        [] at[curr[k]] = "cmd" -> regs[curr[k]] = caller[k]
                        [] at[curr[k]] \in {"return", "free"} -> regs[curr[k]] = "freed"
                        [] at[curr[k]] = "alloc" -> regs[curr[k]] \in Cookies \cup {None}
    BY DEF AnswerIsOwn
  <2>1. curr[k] = cpu[k].n
    BY DEF IInv, CpuPlaces, CpuPlace, CpuAt
  <2>2. Fits(at[curr[k]], regs[curr[k]], caller[k])
    BY <2>1 DEF IInv, Answers, CpuAnswers
  <2> QED BY <2>2 DEF Fits
<1> QED BY <1>1, Invariance, PTL
=============================================================================
