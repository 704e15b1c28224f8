---------------------------- MODULE BufferProofs ----------------------------
(***************************************************************************)
(* Theorems about the argument buffers of RPCs in Rpc.tla, for any number  *)
(* of CPUs, threads, clients and buffers: a buffer that the normal world   *)
(* has allocated is in one place, it is not lost, and no mobj is freed     *)
(* twice unless calls are made while the cache is off.                     *)
(***************************************************************************)
EXTENDS SupplicantProofs

-----------------------------------------------------------------------------
(* Types, of what RpcProofs does not need.                                 *)
BShapes ==
  /\ rv \in [Thr -> Cookies \cup {None}]
  /\ carg \in [Thr -> Cookies \cup {None}]
  /\ mobj \in [Thr -> {"null", "held", "freed"}]
  /\ shm \subseteq Cookies
  /\ \A n \in Thr : regs[n] = "own" \/ regs[n] \in Values

(* What the thread n does says what it has in rpc_carg and rv[].           *)
ThreadBuffer(n) ==
  /\ state[n] = "free" => at[n] = "run"
  /\ at[n] \in {"alloc", "return"} => carg[n] = None
  /\ at[n] = "return" => rv[n] # None
  /\ at[n] = "free" => carg[n] # None /\ rv[n] = carg[n]
  /\ copy[n] => regs[n] = "own"
  /\ carg[n] # None => mobj[n] = "held"

(* What is on its way to a thread that was interrupted is nothing.         *)
CpuBuffer(k) ==
  LET n == cpu[k].n IN
  /\ CpuAt(k, "start") \/ CpuAt(k, "free") => at[n] = "run"
  /\ CpuAt(k, "suspend") /\ cpu[k].arg = "rpc" => regs[n] = "own"
  /\ CpuAt(k, "resume") /\ ~copy[n] => cpu[k].arg = "nothing"

ClientBuffer(c) ==
  /\ cl[c].pc # "ready" => cl[c].arg = None
  /\ cl[c].pc = "ready" /\ ~copy[cl[c].n] => cl[c].arg = "nothing"

(* A pointer that a disabled cache left behind is not looked at while the  *)
(* cache is on or no thread runs; otherwise there was a call that the      *)
(* disabling did not expect, and only then is a mobj freed twice.          *)
Dangling == (\E n \in Thr : mobj[n] = "freed") => prealloc \/ AllFree \/ late
Excused == faulted => late

(* One place for each buffer.                                              *)
OnePlace(a) == IF a \in shm THEN \E h : Holders(a) = {h} ELSE Holders(a) = {}

BInv == /\ BShapes
        /\ \A n \in Thr : ThreadBuffer(n)
        /\ \A k \in Cores : CpuBuffer(k)
        /\ \A c \in Clients : ClientBuffer(c)
        /\ Dangling /\ Excused
        /\ \A a \in Cookies : OnePlace(a)

-----------------------------------------------------------------------------
(* The places a buffer can be in, one predicate for each.                  *)
InThread(n, a) == carg[n] = a /\ ~GivenBack(n)
InRpc(n, a) == at[n] = "return" /\ rv[n] = a /\ ~GivenBack(n)
InRegs(n, a) == at[n] = "alloc" /\ regs[n] = a
InTask(c, a) == cl[c].arg = a
InCpu(k, a) == CpuAt(k, "resume") /\ cpu[k].arg = a

LEMMA HolderMember ==
  \A a, h : h \in Holders(a) <=>
    \/ \E n \in Thr : h = <<"thread", n>> /\ InThread(n, a)
    \/ \E n \in Thr : h = <<"rpc", n>> /\ InRpc(n, a)
    \/ \E n \in Thr : h = <<"regs", n>> /\ InRegs(n, a)
    \/ \E c \in Clients : h = <<"task", c>> /\ InTask(c, a)
    \/ \E k \in Cores : h = <<"cpu", k>> /\ InCpu(k, a)
BY DEF Holders, InThread, InRpc, InRegs, InTask, InCpu

(* The same in the next state.                                             *)
LEMMA HolderMemberNext == HolderMember!:'
BY HolderMember, PTL

(* Nobody gets or loses the buffer a.                                      *)
LEMMA SamePlaces ==
  ASSUME NEW a,
         \A n \in Thr : /\ InThread(n, a)' <=> InThread(n, a)
                        /\ InRpc(n, a)' <=> InRpc(n, a)
                        /\ InRegs(n, a)' <=> InRegs(n, a),
         \A c \in Clients : InTask(c, a)' <=> InTask(c, a),
         \A k \in Cores : InCpu(k, a)' <=> InCpu(k, a)
  PROVE  Holders(a)' = Holders(a)
<1> DEFINE Before == Holders(a)
           After == Holders(a)'
<1>1. ASSUME NEW h PROVE h \in After <=> h \in Before
  BY HolderMember, HolderMemberNext
<1> QED BY <1>1

(* What thread n, client c and CPU k may hold.                             *)
Around(n, c, k) == {<<"thread", n>>, <<"rpc", n>>, <<"regs", n>>, <<"task", c>>, <<"cpu", k>>}

(* All that a step may do to a buffer a: nothing, or it goes from one of   *)
(* these places to another, comes to one, or leaves one.                   *)
Stays(n, c, k, a) ==
  /\ a \in shm' <=> a \in shm
  /\ InThread(n, a)' <=> InThread(n, a)
  /\ InRpc(n, a)' <=> InRpc(n, a)
  /\ InRegs(n, a)' <=> InRegs(n, a)
  /\ InTask(c, a)' <=> InTask(c, a)
  /\ InCpu(k, a)' <=> InCpu(k, a)

Somewhere(n, c, k, a) ==
  InThread(n, a) \/ InRpc(n, a) \/ InRegs(n, a) \/ InTask(c, a) \/ InCpu(k, a)

Once(n, c, k, a) ==
  /\ Somewhere(n, c, k, a)
  /\ InThread(n, a) => ~(InRpc(n, a) \/ InRegs(n, a) \/ InTask(c, a) \/ InCpu(k, a))
  /\ InRpc(n, a) => ~(InRegs(n, a) \/ InTask(c, a) \/ InCpu(k, a))
  /\ InRegs(n, a) => ~(InTask(c, a) \/ InCpu(k, a))
  /\ InTask(c, a) => ~InCpu(k, a)

GoesWell(n, c, k, a) ==
  \/ Stays(n, c, k, a)
  \/ Somewhere(n, c, k, a) /\ Once(n, c, k, a)' /\ a \in shm'
  \/ a \notin shm /\ Once(n, c, k, a)' /\ a \in shm'
  \/ Somewhere(n, c, k, a) /\ ~Somewhere(n, c, k, a)' /\ a \notin shm'

LEMMA AroundLemma ==
  ASSUME NEW n \in Thr, NEW c \in Clients, NEW k \in Cores, NEW a
  PROVE  /\ <<"thread", n>> \in Holders(a) <=> InThread(n, a)
         /\ <<"rpc", n>> \in Holders(a) <=> InRpc(n, a)
         /\ <<"regs", n>> \in Holders(a) <=> InRegs(n, a)
         /\ <<"task", c>> \in Holders(a) <=> InTask(c, a)
         /\ <<"cpu", k>> \in Holders(a) <=> InCpu(k, a)
BY HolderMember

LEMMA AroundLemmaNext ==
  ASSUME NEW n \in Thr, NEW c \in Clients, NEW k \in Cores, NEW a
  PROVE  /\ <<"thread", n>> \in Holders(a)' <=> InThread(n, a)'
         /\ <<"rpc", n>> \in Holders(a)' <=> InRpc(n, a)'
         /\ <<"regs", n>> \in Holders(a)' <=> InRegs(n, a)'
         /\ <<"task", c>> \in Holders(a)' <=> InTask(c, a)'
         /\ <<"cpu", k>> \in Holders(a)' <=> InCpu(k, a)'
BY HolderMemberNext

LEMMA PlaceLemma ==
  ASSUME NEW n \in Thr, NEW c \in Clients, NEW k \in Cores, NEW a,
         OnePlace(a), GoesWell(n, c, k, a),
         \A m \in Thr \ {n} : /\ InThread(m, a)' <=> InThread(m, a)
                              /\ InRpc(m, a)' <=> InRpc(m, a)
                              /\ InRegs(m, a)' <=> InRegs(m, a),
         \A d \in Clients \ {c} : InTask(d, a)' <=> InTask(d, a),
         \A j \in Cores \ {k} : InCpu(j, a)' <=> InCpu(j, a)
  PROVE  OnePlace(a)'
<1> DEFINE A == Around(n, c, k)
           H == Holders(a)
           G == Holders(a)'
<1>1. G \ A = H \ A
  <2>1. ASSUME NEW h, h \notin A PROVE h \in G <=> h \in H
    BY <2>1, HolderMember, HolderMemberNext DEF Around
  <2> QED BY <2>1
<1>2. /\ A = {<<"thread", n>>, <<"rpc", n>>, <<"regs", n>>, <<"task", c>>, <<"cpu", k>>}
      /\ <<"thread", n>> # <<"rpc", n>> /\ <<"thread", n>> # <<"regs", n>>
      /\ <<"thread", n>> # <<"task", c>> /\ <<"thread", n>> # <<"cpu", k>>
      /\ <<"rpc", n>> # <<"regs", n>> /\ <<"rpc", n>> # <<"task", c>> /\ <<"rpc", n>> # <<"cpu", k>>
      /\ <<"regs", n>> # <<"task", c>> /\ <<"regs", n>> # <<"cpu", k>> /\ <<"task", c>> # <<"cpu", k>>
  BY DEF Around
<1>3. Somewhere(n, c, k, a) <=> H \cap A # {}
  BY <1>2, AroundLemma DEF Somewhere
<1>4. Somewhere(n, c, k, a)' <=> G \cap A # {}
  BY <1>2, AroundLemmaNext DEF Somewhere
<1>5. Once(n, c, k, a)' => \E h : G \cap A = {h}
  <2> SUFFICES ASSUME Once(n, c, k, a)' PROVE \E h : G \cap A = {h}
    OBVIOUS
  <2>1. PICK h \in A : h \in G
    BY <1>4 DEF Once
  <2>2. ASSUME NEW g \in A, g \in G PROVE g = h
    <3>1. /\ <<"thread", n>> \in G <=> InThread(n, a)'
          /\ <<"rpc", n>> \in G <=> InRpc(n, a)'
          /\ <<"regs", n>> \in G <=> InRegs(n, a)'
          /\ <<"task", c>> \in G <=> InTask(c, a)'
          /\ <<"cpu", k>> \in G <=> InCpu(k, a)'
      BY AroundLemmaNext
    <3> HIDE DEF G
    <3> DEFINE t == <<"thread", n>>
               r == <<"rpc", n>>
               x == <<"regs", n>>
               u == <<"task", c>>
               v == <<"cpu", k>>
    <3>2. g \in {t, r, x, u, v} /\ h \in {t, r, x, u, v}
      BY <1>2, <2>1, <2>2
    <3>3. /\ t \in G => ~(r \in G \/ x \in G \/ u \in G \/ v \in G)
          /\ r \in G => ~(x \in G \/ u \in G \/ v \in G)
          /\ x \in G => ~(u \in G \/ v \in G)
          /\ u \in G => ~(v \in G)
      BY <3>1 DEF Once
    <3> HIDE DEF t, r, x, u, v
    <3> QED BY <2>1, <2>2, <3>2, <3>3
  <2>3. G \cap A = {h}
    BY <2>1, <2>2
  <2> QED BY <2>3
<1>6. a \in shm => \E h : H = {h}
  BY DEF OnePlace
<1>7. a \notin shm => H = {}
  BY DEF OnePlace
<1>8. CASE Stays(n, c, k, a)
  <2>1. G = H
    <3>1. /\ <<"thread", n>> \in G <=> <<"thread", n>> \in H
          /\ <<"rpc", n>> \in G <=> <<"rpc", n>> \in H
          /\ <<"regs", n>> \in G <=> <<"regs", n>> \in H
          /\ <<"task", c>> \in G <=> <<"task", c>> \in H
          /\ <<"cpu", k>> \in G <=> <<"cpu", k>> \in H
      BY <1>8, AroundLemma, AroundLemmaNext DEF Stays
    <3> HIDE DEF G, H
    <3>2. \A h \in A : h \in G <=> h \in H
      BY <1>2, <3>1
    <3> HIDE DEF A
    <3> QED BY <1>1, <3>2
  <2> QED BY <1>8, <2>1 DEF Stays, OnePlace
<1>9. ASSUME Somewhere(n, c, k, a) PROVE H \ A = {}
  <2> HIDE DEF A, H
  <2> QED BY <1>3, <1>6, <1>7, <1>9
<1>10. CASE Somewhere(n, c, k, a) /\ Once(n, c, k, a)' /\ a \in shm'
  <2>1. \E h : G = {h}
    <3> HIDE DEF A, H, G
    <3>1. PICK h : G \cap A = {h}
      BY <1>5, <1>10
    <3>2. G = {h}
      BY <1>1, <1>9, <1>10, <3>1
    <3> QED BY <3>2
  <2> QED BY <1>10, <2>1 DEF OnePlace
<1>11. CASE a \notin shm /\ Once(n, c, k, a)' /\ a \in shm'
  <2>1. \E h : G = {h}
    <3> HIDE DEF A, H, G
    <3>1. PICK h : G \cap A = {h}
      BY <1>5, <1>11
    <3>2. G = {h}
      BY <1>1, <1>7, <1>11, <3>1
    <3> QED BY <3>2
  <2> QED BY <1>11, <2>1 DEF OnePlace
<1>12. CASE Somewhere(n, c, k, a) /\ ~Somewhere(n, c, k, a)' /\ a \notin shm'
  <2>1. G = {}
    <3> HIDE DEF A, H, G
    <3> QED BY <1>1, <1>4, <1>9, <1>12
  <2> QED BY <1>12, <2>1 DEF OnePlace
<1> QED BY <1>8, <1>10, <1>11, <1>12 DEF GoesWell

-----------------------------------------------------------------------------
(* Nobody but client c and CPU k has the thread n.                         *)
Private(n, c, k) ==
  /\ \A j \in Cores \ {k} : Owns(j) => cpu[j].n # n
  /\ \A d \in Clients \ {c} : Awaits(d) => cl[d].n # n

(* A step of client c and CPU k with thread n, while calls are made.       *)
Around3(n, c, k) ==
  /\ Private(n, c, k)
  /\ \A m \in Thr \ {n} :
       /\ state'[m] = state[m] /\ copy'[m] = copy[m] /\ at'[m] = at[m] /\ regs'[m] = regs[m]
       /\ rv'[m] = rv[m] /\ carg'[m] = carg[m] /\ mobj'[m] = mobj[m]
  /\ \A j \in Cores \ {k} : cpu'[j] = cpu[j]
  /\ \A d \in Clients \ {c} : cl'[d] = cl[d]
  /\ CpuAt(k, "resume") => cpu[k].n = n
  /\ CpuAt(k, "resume")' => cpu'[k].n = n
  /\ cl[c].arg = "freed" => cl[c].n = n
  /\ cl'[c].arg = "freed" => cl'[c].n = n

(* GivenBack, as far as they are concerned.                                *)
Returned(n, c, k) == /\ at[n] \in {"return", "free"}
                     /\ \/ regs[n] = "freed"
                        \/ cl[c].arg = "freed" /\ cl[c].n = n
                        \/ CpuAt(k, "resume") /\ cpu[k].arg = "freed" /\ cpu[k].n = n

LEMMA ReturnedLemma ==
  ASSUME IInv, NEW n \in Thr, NEW c \in Clients, NEW k \in Cores, Around3(n, c, k)
  PROVE  /\ GivenBack(n) <=> Returned(n, c, k)
         /\ GivenBack(n)' <=> Returned(n, c, k)'
         /\ \A m \in Thr \ {n} : GivenBack(m)' <=> GivenBack(m)
<1>1. ASSUME NEW j \in Cores \ {k}
      PROVE  /\ cpu'[j] = cpu[j]
             /\ CpuAt(j, "resume") => cpu[j].n # n
             /\ CpuAt(j, "resume")' <=> CpuAt(j, "resume")
  BY DEF Around3, Private, Owns, CpuAt
<1>2. ASSUME NEW d \in Clients \ {c} PROVE cl'[d] = cl[d] /\ cl[d].n # n
  <2>1. CASE Awaits(d)
    BY <2>1 DEF Around3, Private
  <2>2. CASE ~Awaits(d)
    BY <2>2, ThrAssumption DEF IInv, ClientPlaces, Around3
  <2> QED BY <2>1, <2>2
<1>3. GivenBack(n) <=> Returned(n, c, k)
  BY <1>1, <1>2 DEF GivenBack, Returned
<1>4. GivenBack(n)' <=> Returned(n, c, k)'
  BY <1>1, <1>2 DEF GivenBack, Returned
<1>5. ASSUME NEW m \in Thr \ {n} PROVE GivenBack(m)' <=> GivenBack(m)
  <2>1. at'[m] = at[m] /\ regs'[m] = regs[m]
    BY DEF Around3
  <2>2. (\E d \in Clients : cl[d].n = m /\ cl[d].arg = "freed")'
          <=> \E d \in Clients : cl[d].n = m /\ cl[d].arg = "freed"
    BY <1>2 DEF Around3
  <2>3. (\E j \in Cores : CpuAt(j, "resume") /\ cpu[j].n = m /\ cpu[j].arg = "freed")'
          <=> \E j \in Cores : CpuAt(j, "resume") /\ cpu[j].n = m /\ cpu[j].arg = "freed"
    BY <1>1 DEF Around3
  <2> QED BY <2>1, <2>2, <2>3 DEF GivenBack
<1> QED BY <1>3, <1>4, <1>5

(* Such a step keeps the invariant when it does so around n, c and k.      *)
LEMMA AroundStep ==
  ASSUME IInv, BInv, NEW n \in Thr, NEW c \in Clients, NEW k \in Cores,
         Around3(n, c, k),
         BShapes', ThreadBuffer(n)', CpuBuffer(k)', ClientBuffer(c)', Dangling', Excused',
         \A a \in Cookies : GoesWell(n, c, k, a)
  PROVE  BInv'
<1>1. ASSUME NEW m \in Thr PROVE ThreadBuffer(m)'
  <2>1. CASE m # n
    BY <2>1 DEF BInv, ThreadBuffer, Around3
  <2> QED BY <2>1
<1>2. ASSUME NEW j \in Cores PROVE CpuBuffer(j)'
  <2>1. CASE j # k
    <3>1. cpu'[j] = cpu[j] /\ (Owns(j) => cpu[j].n \in Thr \ {n})
      BY <2>1 DEF Around3, Private, IInv, CpuPlaces, CpuPlace
    <3>2. Owns(j) => /\ at'[cpu[j].n] = at[cpu[j].n] /\ regs'[cpu[j].n] = regs[cpu[j].n]
                     /\ copy'[cpu[j].n] = copy[cpu[j].n]
      BY <3>1 DEF Around3
    <3>3. CpuBuffer(j)
      BY DEF BInv
    <3>4. \/ Owns(j) 
          \/ ~CpuAt(j, "start") /\ ~CpuAt(j, "free") /\ ~CpuAt(j, "suspend") /\ ~CpuAt(j, "resume")
      BY DEF Owns, CpuAt
    <3> QED BY <3>1, <3>2, <3>3, <3>4 DEF CpuBuffer, CpuAt
  <2> QED BY <2>1
<1>3. ASSUME NEW d \in Clients PROVE ClientBuffer(d)'
  <2>1. CASE d # c
    <3>1. cl'[d] = cl[d] /\ (cl[d].pc = "ready" => cl[d].n \in Thr \ {n})
      BY <2>1 DEF Around3, Private, IInv, ClientPlaces, Awaits
    <3>2. cl[d].pc = "ready" => copy'[cl[d].n] = copy[cl[d].n]
      BY <3>1 DEF Around3
    <3> QED BY <3>1, <3>2 DEF BInv, ClientBuffer
  <2> QED BY <2>1
<1>5. ASSUME NEW a \in Cookies PROVE OnePlace(a)'
  <2>1. ASSUME NEW m \in Thr \ {n}
        PROVE  /\ InThread(m, a)' <=> InThread(m, a)
               /\ InRpc(m, a)' <=> InRpc(m, a)
               /\ InRegs(m, a)' <=> InRegs(m, a)
    BY ReturnedLemma DEF Around3, InThread, InRpc, InRegs
  <2>2. ASSUME NEW d \in Clients \ {c} PROVE InTask(d, a)' <=> InTask(d, a)
    BY DEF Around3, InTask
  <2>3. ASSUME NEW j \in Cores \ {k} PROVE InCpu(j, a)' <=> InCpu(j, a)
    BY DEF Around3, InCpu, CpuAt
  <2> QED BY <2>1, <2>2, <2>3, PlaceLemma DEF BInv
<1> QED BY <1>1, <1>2, <1>3, <1>5 DEF BInv

-----------------------------------------------------------------------------
(* A CPU has a thread to itself.                                           *)
LEMMA OwnLemma ==
  ASSUME IInv, BInv, NEW k \in Cores, Owns(k)
  PROVE  /\ cpu[k].n \in Thr /\ state[cpu[k].n] = "active"
         /\ caller[k] \in Clients /\ cl[caller[k]].arg = None
         /\ mobj[cpu[k].n] = "freed" => prealloc \/ late
         /\ (\E m \in Thr : mobj[m] = "freed") => prealloc \/ late
         /\ Private(cpu[k].n, caller[k], k)
<1> DEFINE n == cpu[k].n
           c == caller[k]
<1>1. n \in Thr /\ state[n] = "active"
  BY DEF IInv, CpuPlaces, CpuPlace
<1>2. c \in Clients /\ cl[c].pc = "inside"
  BY DEF IInv, CpuPlaces, CpuPlace, Owns
<1>3. cl[c].arg = None
  BY <1>2 DEF BInv, ClientBuffer
<1>4. (\E m \in Thr : mobj[m] = "freed") => prealloc \/ late
  BY <1>1 DEF BInv, Dangling, AllFree
<1>5. Private(n, c, k)
  BY <1>1 DEF IInv, Apart, CpusApart, ClientPlaces, Private
<1> QED BY <1>1, <1>2, <1>3, <1>4, <1>5

(* CPU k goes on with its thread to the place q; the thread is in state st *)
(* and flag cp, at x with registers r, and has v in rv[], g in rpc_carg    *)
(* and o in rpc_mobj.                                                      *)
Turn(k, q, st, cp, x, r, v, g, o) ==
  LET n == cpu[k].n IN
  /\ Owns(k) /\ q.n = n /\ q.pc # "resume"
  /\ cpu' = [cpu EXCEPT ![k] = q]
  /\ state' = [state EXCEPT ![n] = st]
  /\ copy' = [copy EXCEPT ![n] = cp]
  /\ at' = [at EXCEPT ![n] = x]
  /\ regs' = [regs EXCEPT ![n] = r]
  /\ rv' = [rv EXCEPT ![n] = v]
  /\ carg' = [carg EXCEPT ![n] = g]
  /\ mobj' = [mobj EXCEPT ![n] = o]
  /\ UNCHANGED <<cl, shm, prealloc, late>> /\ (faulted' => late)

(* These fit together.                                                     *)
Fitting(q, st, cp, x, r, v, g, o) ==
  /\ v \in Cookies \cup {None} /\ g \in Cookies \cup {None} /\ o \in {"null", "held", "freed"}
  /\ r = "own" \/ r \in Values
  /\ st = "free" => x = "run"
  /\ x \in {"alloc", "return"} => g = None
  /\ x = "return" => v # None
  /\ x = "free" => g # None /\ v = g
  /\ cp => r = "own"
  /\ g # None => o = "held"
  /\ o = "freed" => prealloc \/ late
  /\ q.pc \in {"start", "free"} => x = "run"
  /\ q.pc = "suspend" /\ q.arg = "rpc" => r = "own"

(* The buffers of the thread before and after: the same, or one that goes  *)
(* from one place to another.                                              *)
Passes(k, x, r, v, g) ==
  LET n == cpu[k].n
      res == CpuAt(k, "resume")
      B0 == at[n] \in {"return", "free"} /\ (regs[n] = "freed" \/ (res /\ cpu[k].arg = "freed"))
      B1 == x \in {"return", "free"} /\ r = "freed"
  IN \A a \in Cookies :
       LET T0 == carg[n] = a /\ ~B0
           R0 == at[n] = "return" /\ rv[n] = a /\ ~B0
           G0 == at[n] = "alloc" /\ regs[n] = a
           C0 == res /\ cpu[k].arg = a
           T1 == g = a /\ ~B1
           R1 == x = "return" /\ v = a /\ ~B1
           G1 == x = "alloc" /\ r = a
       IN \/ (T1 <=> T0) /\ (R1 <=> R0) /\ (G1 <=> G0) /\ ~C0
          \/ /\ T0 \/ R0 \/ G0 \/ C0
             /\ T1 \/ R1 \/ G1
             /\ ~(T1 /\ R1) /\ ~(T1 /\ G1) /\ ~(R1 /\ G1)

LEMMA TurnStep ==
  ASSUME IInv, BInv, NEW k \in Cores, NEW q, NEW st, NEW cp, NEW x, NEW r, NEW v, NEW g, NEW o,
         Turn(k, q, st, cp, x, r, v, g, o),
         Fitting(q, st, cp, x, r, v, g, o),
         Passes(k, x, r, v, g)
  PROVE  BInv'
<1>0. SUFFICES ASSUME NEW n, NEW c, n = cpu[k].n, c = caller[k] PROVE BInv'
  OBVIOUS
<1>1. /\ n \in Thr /\ state[n] = "active" /\ c \in Clients /\ cl[c].arg = None
      /\ Private(n, c, k)
      /\ (\E m \in Thr : mobj[m] = "freed") => prealloc \/ late
  BY <1>0, OwnLemma DEF Turn
<1>2. /\ cpu'[k] = q /\ state'[n] = st /\ copy'[n] = cp /\ at'[n] = x /\ regs'[n] = r
      /\ rv'[n] = v /\ carg'[n] = g /\ mobj'[n] = o
  BY <1>0, <1>1 DEF Turn, IInv, Shapes, BInv, BShapes
<1>3. ASSUME NEW m \in Thr \ {n}
      PROVE  /\ state'[m] = state[m] /\ copy'[m] = copy[m] /\ at'[m] = at[m] /\ regs'[m] = regs[m]
             /\ rv'[m] = rv[m] /\ carg'[m] = carg[m] /\ mobj'[m] = mobj[m]
  BY <1>0, <1>1 DEF Turn, IInv, Shapes, BInv, BShapes
<1>4. ASSUME NEW j \in Cores \ {k} PROVE cpu'[j] = cpu[j]
  BY DEF Turn, IInv, Shapes
<1>5. UNCHANGED <<cl, shm, prealloc, late>> /\ (faulted' => late) /\ q.n = n /\ q.pc # "resume" /\ Owns(k)
  BY <1>0 DEF Turn
<1>6. c \in Clients /\ cl'[c] = cl[c] /\ cl[c].arg # "freed"
  BY <1>1, <1>5, CookiesAssumption
<1>7. Around3(n, c, k)
  BY <1>0, <1>1, <1>2, <1>3, <1>4, <1>5, <1>6 DEF Around3, CpuAt
<1>8. BShapes'
  BY <1>1, <1>2, <1>3, <1>5 DEF BInv, BShapes, Fitting, Turn
<1>9. ThreadBuffer(n)'
  BY <1>1, <1>2, <1>5 DEF ThreadBuffer, Fitting
<1>10. CpuBuffer(k)'
  BY <1>2, <1>5 DEF CpuBuffer, CpuAt, Fitting
<1>11. ClientBuffer(c)'
  <2>1. cl[c].pc = "inside"
    BY <1>0, <1>5 DEF IInv, CpuPlaces, CpuPlace, Owns
  <2> QED BY <1>1, <1>5, <2>1 DEF ClientBuffer
<1>12. ASSUME NEW a \in Cookies PROVE GoesWell(n, c, k, a)
  <2>1. ~InTask(c, a) /\ ~InTask(c, a)' /\ ~InCpu(k, a)' /\ (a \in shm' <=> a \in shm)
    BY <1>1, <1>2, <1>5, <1>6, CookiesAssumption DEF InTask, InCpu, CpuAt
  <2> DEFINE res == CpuAt(k, "resume")
             B0 == at[n] \in {"return", "free"} /\ (regs[n] = "freed" \/ (res /\ cpu[k].arg = "freed"))
             B1 == x \in {"return", "free"} /\ r = "freed"
  <2>2. GivenBack(n) <=> B0
    BY <1>0, <1>1, <1>6, <1>7, ReturnedLemma DEF Returned
  <2>3. GivenBack(n)' <=> B1
    BY <1>1, <1>2, <1>5, <1>6, <1>7, ReturnedLemma DEF Returned, CpuAt
  <2>4. /\ InThread(n, a) <=> carg[n] = a /\ ~B0
        /\ InRpc(n, a) <=> at[n] = "return" /\ rv[n] = a /\ ~B0
        /\ InRegs(n, a) <=> at[n] = "alloc" /\ regs[n] = a
        /\ InCpu(k, a) <=> res /\ cpu[k].arg = a
        /\ InThread(n, a)' <=> g = a /\ ~B1
        /\ InRpc(n, a)' <=> x = "return" /\ v = a /\ ~B1
        /\ InRegs(n, a)' <=> x = "alloc" /\ r = a
    BY <1>2, <2>2, <2>3 DEF InThread, InRpc, InRegs, InCpu
  <2>5. (InThread(n, a) \/ InRpc(n, a) \/ InRegs(n, a) \/ InCpu(k, a)) => a \in shm
    <3>1. OnePlace(a)
      BY DEF BInv
    <3> QED BY <1>1, <3>1, AroundLemma DEF OnePlace
  <2>6. \/ /\ (InThread(n, a)' <=> InThread(n, a)) /\ (InRpc(n, a)' <=> InRpc(n, a))
           /\ (InRegs(n, a)' <=> InRegs(n, a)) /\ ~InCpu(k, a)
        \/ /\ InThread(n, a) \/ InRpc(n, a) \/ InRegs(n, a) \/ InCpu(k, a)
           /\ InThread(n, a)' \/ InRpc(n, a)' \/ InRegs(n, a)'
           /\ ~(InThread(n, a)' /\ InRpc(n, a)') /\ ~(InThread(n, a)' /\ InRegs(n, a)')
           /\ ~(InRpc(n, a)' /\ InRegs(n, a)')
    BY <1>0, <2>4 DEF Passes
  <2> QED BY <2>1, <2>5, <2>6 DEF GoesWell, Stays, Somewhere, Once
<1>13. Dangling' /\ Excused'
  <2>1. ASSUME NEW m \in Thr, mobj'[m] = "freed" PROVE prealloc \/ late
    <3>1. CASE m = n
      BY <1>2, <2>1, <3>1 DEF Fitting
    <3>2. CASE m # n
      BY <1>1, <1>3, <2>1, <3>2
    <3> QED BY <3>1, <3>2
  <2> QED BY <1>5, <2>1 DEF Dangling, Excused
<1> QED BY <1>1, <1>7, <1>8, <1>9, <1>10, <1>11, <1>12, <1>13, AroundStep

(* What a thread leaves as it is.                                          *)
Unmoved(n) ==
  /\ state = [state EXCEPT ![n] = state[n]] /\ copy = [copy EXCEPT ![n] = copy[n]]
  /\ at = [at EXCEPT ![n] = at[n]] /\ regs = [regs EXCEPT ![n] = regs[n]]
  /\ rv = [rv EXCEPT ![n] = rv[n]] /\ carg = [carg EXCEPT ![n] = carg[n]]
  /\ mobj = [mobj EXCEPT ![n] = mobj[n]]
Typed(n) ==
  /\ rv[n] \in Cookies \cup {None} /\ carg[n] \in Cookies \cup {None}
  /\ mobj[n] \in {"null", "held", "freed"} /\ at[n] \in Ats /\ copy[n] \in BOOLEAN
  /\ regs[n] = "own" \/ regs[n] \in Values

(* The steps of a CPU with its thread.                                     *)
LEMMA ThreadTurns ==
  ASSUME IInv, BInv, NEW k \in Cores, UNCHANGED <<cl, shm, late>>,
         \/ run(k) \/ resume(k) \/ thread_rpc_cmd(k) \/ get_rpc_arg(k) \/ rpc_done(k)
         \/ thread_state_suspend(k) \/ std_smc_entry_end(k) \/ std_smc_entry_refused(k) \/ arg_freed(k)
         \/ thread_state_free(k) \/ foreign_intr(k)
  PROVE  BInv'
<1>0. SUFFICES ASSUME NEW n, n = cpu[k].n PROVE BInv'
  OBVIOUS
<1>1. Owns(k)
  BY DEF run, resume, thread_rpc_cmd, get_rpc_arg, rpc_done, thread_state_suspend, std_smc_entry_end,
         std_smc_entry_refused, arg_freed, thread_state_free, foreign_intr, OnThread, CpuAt, Owns
<1>2. /\ n \in Thr /\ state[n] = "active" /\ (faulted => late)
      /\ mobj[n] = "freed" => prealloc \/ late
      /\ CpuAt(k, "thread") \/ CpuAt(k, "suspend") \/ CpuAt(k, "free") => curr[k] = n
  BY <1>0, <1>1, OwnLemma DEF BInv, Excused, IInv, CpuPlaces, CpuPlace, CpuAt
<1>3. Unmoved(n) /\ Typed(n)
  BY <1>2 DEF IInv, Shapes, BInv, BShapes, Unmoved, Typed
<1>4. ThreadBuffer(n) /\ CpuBuffer(k) /\ CpuAnswers(k) /\ cpu = [cpu EXCEPT ![k] = cpu[k]]
  BY <1>2 DEF BInv, IInv, Answers, Shapes
<1>5. ASSUME CpuAt(k, "thread")
      PROVE  ~CpuAt(k, "resume") /\ ~CpuAt(k, "start") /\ ~copy[n] /\ Fits(at[n], regs[n], caller[k]) /\ curr[k] = n
  BY <1>0, <1>2, <1>4, <1>5 DEF CpuAnswers, CpuAt
<1>6. CASE run(k)
  <2>1. PICK l \in {"run", "refused"} : at' = [at EXCEPT ![n] = l]
    BY <1>0, <1>6 DEF run
  <2>2. Turn(k, [pc |-> "thread", n |-> n, arg |-> None], state[n], FALSE, l, "own", rv[n], carg[n], mobj[n])
    BY <1>0, <1>1, <1>2, <1>3, <1>6, <2>1 DEF run, Turn, Unmoved, SetCpu, Args
  <2>3. at[n] = "run" /\ ~CpuAt(k, "resume")
    BY <1>0, <1>4, <1>6 DEF run, CpuBuffer, CpuAt
  <2>4. Fitting([pc |-> "thread", n |-> n, arg |-> None], state[n], FALSE, l, "own", rv[n], carg[n], mobj[n])
    BY <1>2, <1>3, <1>4, <2>1, <2>3 DEF Fitting, ThreadBuffer, Typed
  <2>5. Passes(k, l, "own", rv[n], carg[n])
    BY <1>0, <2>1, <2>3 DEF Passes
  <2> QED BY <2>2, <2>4, <2>5, TurnStep
<1>7. CASE resume(k)
  <2> DEFINE r == IF copy[n] THEN cpu[k].arg ELSE regs[n]
  <2>1. Turn(k, [pc |-> "thread", n |-> n, arg |-> None], state[n], FALSE, at[n], r, rv[n], carg[n], mobj[n])
    BY <1>0, <1>1, <1>2, <1>3, <1>7 DEF resume, Turn, Unmoved, SetCpu, Args
  <2>2. /\ Fits(at[n], r, caller[k]) /\ CpuAt(k, "resume") /\ caller[k] \in Clients
        /\ copy[n] => regs[n] = "own"
        /\ ~copy[n] => cpu[k].arg = "nothing"
    <3>1. CpuAt(k, "resume")
      BY <1>7 DEF resume
    <3> QED BY <1>0, <1>1, <1>4, <3>1, OwnLemma DEF CpuBuffer, ThreadBuffer, CpuAnswers, WillFit
  <2>3. r = "own" \/ r \in Values
    BY <2>2 DEF Fits, Values
  <2>4. Fitting([pc |-> "thread", n |-> n, arg |-> None], state[n], FALSE, at[n], r, rv[n], carg[n], mobj[n])
    BY <1>2, <1>3, <1>4, <2>3 DEF Fitting, ThreadBuffer, Typed
  <2>5. Passes(k, at[n], r, rv[n], carg[n])
    <3>1. CASE copy[n]
      BY <1>0, <1>4, <2>2, <3>1, CookiesAssumption DEF Passes, Fits, ThreadBuffer
    <3>2. CASE ~copy[n]
      BY <1>0, <1>4, <2>2, <3>2, CookiesAssumption DEF Passes
    <3> QED BY <3>1, <3>2
  <2> QED BY <2>1, <2>4, <2>5, TurnStep
<1>8. CASE thread_rpc_cmd(k)
  <2> DEFINE x == IF carg[n] = None THEN "alloc" ELSE "cmd"
             q == [pc |-> "suspend", n |-> n, arg |-> "rpc"]
  <2>0. CpuAt(k, "thread") /\ at[n] = "run" /\ curr[k] = n /\ ~CpuAt(k, "resume")
    BY <1>5, <1>8 DEF thread_rpc_cmd, OnThread
  <2>1. Turn(k, q, state[n], copy[n], x, "own", carg[n], carg[n], mobj[n])
    BY <1>0, <1>1, <1>2, <1>3, <1>8, <2>0 DEF thread_rpc_cmd, Turn, Unmoved, thread_rpc, to_tmp_stack, SetCpu, Args
  <2>2. Fitting(q, state[n], copy[n], x, "own", carg[n], carg[n], mobj[n])
    BY <1>2, <1>3, <1>4, <2>0 DEF Fitting, ThreadBuffer, Typed
  <2>3. Passes(k, x, "own", carg[n], carg[n])
    BY <1>0, <2>0, CookiesAssumption DEF Passes
  <2> QED BY <2>1, <2>2, <2>3, TurnStep
<1>9. CASE get_rpc_arg(k)
  <2> DEFINE q == [pc |-> "suspend", n |-> n, arg |-> "rpc"]
  <2>0. /\ CpuAt(k, "thread") /\ at[n] = "alloc" /\ curr[k] = n /\ carg[n] = None /\ ~CpuAt(k, "resume")
        /\ regs[n] \in Cookies \cup {None} /\ ~copy[n]
    BY <1>4, <1>5, <1>9 DEF get_rpc_arg, OnThread, ThreadBuffer, Fits
  <2>1. CASE regs[n] = None
    <3>1. Turn(k, cpu[k], state[n], copy[n], "run", "own", None, carg[n], mobj[n])
      BY <1>0, <1>1, <1>2, <1>3, <1>4, <1>9, <2>0, <2>1 DEF get_rpc_arg, Turn, Unmoved, rpc_over, CpuAt
    <3>2. Fitting(cpu[k], state[n], copy[n], "run", "own", None, carg[n], mobj[n])
      BY <1>2, <1>3, <1>4, <2>0 DEF Fitting, ThreadBuffer, Typed
    <3>3. Passes(k, "run", "own", None, carg[n])
      BY <1>0, <2>0, <2>1, CookiesAssumption DEF Passes
    <3> QED BY <3>1, <3>2, <3>3, TurnStep
  <2>2. CASE regs[n] # None /\ UNCHANGED <<carg, mobj>> /\ thread_rpc(k, "return", regs[n])
    <3>1. Turn(k, q, state[n], copy[n], "return", "own", regs[n], carg[n], mobj[n])
      BY <1>0, <1>1, <1>2, <1>3, <1>9, <2>0, <2>2 DEF get_rpc_arg, Turn, Unmoved, thread_rpc, to_tmp_stack, SetCpu
    <3>2. Fitting(q, state[n], copy[n], "return", "own", regs[n], carg[n], mobj[n])
      BY <1>2, <1>3, <1>4, <2>0, <2>2 DEF Fitting, ThreadBuffer, Typed
    <3>3. Passes(k, "return", "own", regs[n], carg[n])
      BY <1>0, <2>0, <2>2, CookiesAssumption DEF Passes
    <3> QED BY <3>1, <3>2, <3>3, TurnStep
  <2>3. CASE /\ regs[n] # None
             /\ carg' = [carg EXCEPT ![n] = regs[n]]
             /\ mobj' = [mobj EXCEPT ![n] = "held"]
             /\ thread_rpc(k, "cmd", regs[n])
    <3>1. Turn(k, q, state[n], copy[n], "cmd", "own", regs[n], regs[n], "held")
      BY <1>0, <1>1, <1>2, <1>3, <1>9, <2>0, <2>3 DEF get_rpc_arg, Turn, Unmoved, thread_rpc, to_tmp_stack, SetCpu
    <3>2. Fitting(q, state[n], copy[n], "cmd", "own", regs[n], regs[n], "held")
      BY <1>2, <1>3, <1>4, <2>0, <2>3 DEF Fitting, ThreadBuffer, Typed
    <3>3. Passes(k, "cmd", "own", regs[n], regs[n])
      BY <1>0, <2>0, <2>3, CookiesAssumption DEF Passes
    <3> QED BY <3>1, <3>2, <3>3, TurnStep
  <2> QED BY <1>9, <2>0, <2>1, <2>2, <2>3 DEF get_rpc_arg
<1>10. CASE rpc_done(k)
  <2>0. /\ CpuAt(k, "thread") /\ at[n] \in {"cmd", "return"} /\ curr[k] = n /\ ~CpuAt(k, "resume")
        /\ ~copy[n] /\ (at[n] = "return" => regs[n] = "freed" /\ carg[n] = None)
    BY <1>4, <1>5, <1>10 DEF rpc_done, OnThread, ThreadBuffer, Fits
  <2>1. Turn(k, cpu[k], state[n], copy[n], "run", "own", None, carg[n], mobj[n])
    BY <1>0, <1>1, <1>2, <1>3, <1>4, <1>10, <2>0 DEF rpc_done, Turn, Unmoved, rpc_over, CpuAt, Args
  <2>2. Fitting(cpu[k], state[n], copy[n], "run", "own", None, carg[n], mobj[n])
    BY <1>2, <1>3, <1>4, <2>0 DEF Fitting, ThreadBuffer, Typed
  <2>3. Passes(k, "run", "own", None, carg[n])
    BY <1>0, <2>0, CookiesAssumption DEF Passes
  <2> QED BY <2>1, <2>2, <2>3, TurnStep
<1>11. CASE thread_state_suspend(k)
  <2> DEFINE q == [pc |-> "smc", n |-> n, arg |-> IF cpu[k].arg = "rpc" THEN at[n] ELSE "intr"]
             cp == copy[n] \/ cpu[k].arg = "rpc"
  <2>0. CpuAt(k, "suspend") /\ curr[k] = n /\ ~CpuAt(k, "resume") /\ (cp => regs[n] = "own")
    BY <1>0, <1>2, <1>4, <1>11 DEF thread_state_suspend, CpuAt, CpuBuffer, ThreadBuffer
  <2>1. Turn(k, q, "suspended", cp, at[n], regs[n], rv[n], carg[n], mobj[n])
    BY <1>0, <1>1, <1>2, <1>3, <1>11, <2>0 DEF thread_state_suspend, Turn, Unmoved, SetCpu, Args
  <2>2. Fitting(q, "suspended", cp, at[n], regs[n], rv[n], carg[n], mobj[n])
    BY <1>2, <1>3, <1>4, <2>0 DEF Fitting, ThreadBuffer, Typed
  <2>3. Passes(k, at[n], regs[n], rv[n], carg[n])
    BY <1>0, <2>0 DEF Passes
  <2> QED BY <2>1, <2>2, <2>3, TurnStep
<1>12. CASE std_smc_entry_end(k)
  <2>0. CpuAt(k, "thread") /\ at[n] = "run" /\ curr[k] = n /\ ~CpuAt(k, "resume") /\ ~copy[n]
    BY <1>5, <1>12 DEF std_smc_entry_end, OnThread
  <2> DEFINE q == [pc |-> "free", n |-> n, arg |-> None]
             u == [pc |-> "suspend", n |-> n, arg |-> "rpc"]
  <2>1. CASE prealloc
    <3>1. Turn(k, q, state[n], copy[n], "run", regs[n], rv[n], carg[n], mobj[n])
      BY <1>0, <1>1, <1>2, <1>3, <1>12, <2>0, <2>1 DEF std_smc_entry_end, Turn, Unmoved, to_tmp_stack, SetCpu
    <3>2. Fitting(q, state[n], copy[n], "run", regs[n], rv[n], carg[n], mobj[n])
      BY <1>2, <1>3, <1>4, <2>0 DEF Fitting, ThreadBuffer, Typed
    <3>3. Passes(k, "run", regs[n], rv[n], carg[n])
      BY <1>0, <2>0 DEF Passes
    <3> QED BY <3>1, <3>2, <3>3, TurnStep
  <2>2. CASE ~prealloc /\ carg[n] # None
    <3>1. Turn(k, u, state[n], copy[n], "free", "own", carg[n], carg[n], mobj[n])
      BY <1>0, <1>1, <1>2, <1>3, <1>12, <2>0, <2>2 DEF std_smc_entry_end, Turn, Unmoved, thread_rpc, to_tmp_stack, SetCpu
    <3>2. Fitting(u, state[n], copy[n], "free", "own", carg[n], carg[n], mobj[n])
      BY <1>2, <1>3, <1>4, <2>0, <2>2 DEF Fitting, ThreadBuffer, Typed
    <3>3. Passes(k, "free", "own", carg[n], carg[n])
      BY <1>0, <2>0 DEF Passes
    <3> QED BY <3>1, <3>2, <3>3, TurnStep
  <2>3. CASE ~prealloc /\ carg[n] = None
    <3>0. mobj[n] = "freed" => late
      BY <1>2, <2>3
    <3>1. Turn(k, q, state[n], copy[n], "run", regs[n], rv[n], carg[n], "null")
      BY <1>0, <1>1, <1>2, <1>3, <1>12, <2>0, <2>3, <3>0 DEF std_smc_entry_end, Turn, Unmoved, to_tmp_stack, SetCpu, Freed
    <3>2. Fitting(q, state[n], copy[n], "run", regs[n], rv[n], carg[n], "null")
      BY <1>2, <1>3, <1>4, <2>0, <2>3 DEF Fitting, ThreadBuffer, Typed
    <3>3. Passes(k, "run", regs[n], rv[n], carg[n])
      BY <1>0, <2>0 DEF Passes
    <3> QED BY <3>1, <3>2, <3>3, TurnStep
  <2> QED BY <2>1, <2>2, <2>3
<1>13. CASE std_smc_entry_refused(k)
  <2> DEFINE q == [pc |-> "free", n |-> n, arg |-> None]
  <2>0. CpuAt(k, "thread") /\ at[n] = "refused" /\ curr[k] = n /\ ~CpuAt(k, "resume") /\ ~copy[n]
    BY <1>5, <1>13 DEF std_smc_entry_refused, OnThread
  <2>1. Turn(k, q, state[n], copy[n], "run", regs[n], rv[n], carg[n], mobj[n])
    BY <1>0, <1>1, <1>2, <1>3, <1>13, <2>0 DEF std_smc_entry_refused, Turn, Unmoved, to_tmp_stack, SetCpu, Args
  <2>2. Fitting(q, state[n], copy[n], "run", regs[n], rv[n], carg[n], mobj[n])
    BY <1>2, <1>3, <1>4, <2>0 DEF Fitting, ThreadBuffer, Typed
  <2>3. Passes(k, "run", regs[n], rv[n], carg[n])
    BY <1>0, <2>0 DEF Passes
  <2> QED BY <2>1, <2>2, <2>3, TurnStep
<1>14. CASE arg_freed(k)
  <2> DEFINE q == [pc |-> "free", n |-> n, arg |-> None]
  <2>0. /\ CpuAt(k, "thread") /\ at[n] = "free" /\ curr[k] = n /\ ~CpuAt(k, "resume") /\ ~copy[n]
        /\ regs[n] = "freed" /\ mobj[n] = "held"
    BY <1>4, <1>5, <1>14 DEF arg_freed, OnThread, ThreadBuffer, Fits
  <2>1. Turn(k, q, state[n], copy[n], "run", "own", None, None, "null")
    BY <1>0, <1>1, <1>2, <1>3, <1>14, <2>0 DEF arg_freed, Turn, Unmoved, to_tmp_stack, SetCpu, Freed, rpc_over
  <2>2. Fitting(q, state[n], copy[n], "run", "own", None, None, "null")
    BY <1>2, <1>3, <1>4, <2>0 DEF Fitting, ThreadBuffer, Typed
  <2>3. Passes(k, "run", "own", None, None)
    BY <1>0, <2>0, CookiesAssumption DEF Passes
  <2> QED BY <2>1, <2>2, <2>3, TurnStep
<1>15. CASE thread_state_free(k)
  <2> DEFINE q == [pc |-> "smc", n |-> n, arg |-> "done"]
  <2>0. CpuAt(k, "free") /\ at[n] = "run" /\ curr[k] = n /\ ~CpuAt(k, "resume")
    BY <1>0, <1>2, <1>4, <1>15 DEF thread_state_free, CpuAt, CpuBuffer
  <2>1. Turn(k, q, "free", FALSE, at[n], regs[n], rv[n], carg[n], mobj[n])
    BY <1>0, <1>1, <1>2, <1>3, <1>15, <2>0 DEF thread_state_free, Turn, Unmoved, SetCpu, Args
  <2>2. Fitting(q, "free", FALSE, at[n], regs[n], rv[n], carg[n], mobj[n])
    BY <1>2, <1>3, <1>4, <2>0 DEF Fitting, ThreadBuffer, Typed
  <2>3. Passes(k, at[n], regs[n], rv[n], carg[n])
    BY <1>0, <2>0 DEF Passes
  <2> QED BY <2>1, <2>2, <2>3, TurnStep
<1>16. CASE foreign_intr(k)
  <2> DEFINE q == [pc |-> "suspend", n |-> n, arg |-> "intr"]
  <2>0. CpuAt(k, "thread") /\ curr[k] = n /\ ~CpuAt(k, "resume") /\ ~copy[n]
    BY <1>5, <1>16 DEF foreign_intr
  <2>1. Turn(k, q, state[n], copy[n], at[n], regs[n], rv[n], carg[n], mobj[n])
    BY <1>0, <1>1, <1>2, <1>3, <1>16, <2>0 DEF foreign_intr, Turn, Unmoved, to_tmp_stack, SetCpu, Args
  <2>2. Fitting(q, state[n], copy[n], at[n], regs[n], rv[n], carg[n], mobj[n])
    BY <1>2, <1>3, <1>4, <2>0 DEF Fitting, ThreadBuffer, Typed
  <2>3. Passes(k, at[n], regs[n], rv[n], carg[n])
    BY <1>0, <2>0 DEF Passes
  <2> QED BY <2>1, <2>2, <2>3, TurnStep
<1> QED BY <1>6, <1>7, <1>8, <1>9, <1>10, <1>11, <1>12, <1>13, <1>14, <1>15, <1>16

-----------------------------------------------------------------------------
(* CPU k goes from the normal world into thread n for client c, which      *)
(* hands over what it has.                                                 *)
LEMMA EnterTurn ==
  ASSUME IInv, BInv, NEW k \in Cores, NEW c \in Clients, NEW n \in Thr, NEW q,
         CpuAt(k, "normal"), q.n = n, q.arg = cl[c].arg,
         cpu' = [cpu EXCEPT ![k] = q],
         state' = [state EXCEPT ![n] = "active"],
         cl' = [cl EXCEPT ![c] = [pc |-> "inside", n |-> None, arg |-> None]],
         UNCHANGED <<copy, regs, at, rv, carg, mobj, prealloc, faulted, shm>>,
         Dangling', Excused',
         \/ q.pc = "start" /\ cl[c].pc = "idle" /\ state[n] = "free"
         \/ q.pc = "resume" /\ cl[c].pc = "ready" /\ cl[c].n = n
  PROVE  BInv'
<1>1. Private(n, c, k)
  <2>1. CASE state[n] = "free"
    BY <2>1 DEF IInv, CpuPlaces, CpuPlace, ClientPlaces, Private
  <2>2. CASE cl[c].pc = "ready" /\ cl[c].n = n
    <3>1. state[n] = "suspended"
      BY <2>2 DEF IInv, ClientPlaces, Awaits
    <3> QED BY <2>2, <3>1 DEF IInv, CpuPlaces, CpuPlace, Apart, ClientsApart, Private, Awaits
  <2> QED BY <2>1, <2>2
<1>2. /\ cpu'[k] = q /\ state'[n] = "active"
      /\ cl'[c] = [pc |-> "inside", n |-> None, arg |-> None]
      /\ \A j \in Cores \ {k} : cpu'[j] = cpu[j]
      /\ \A m \in Thr \ {n} : state'[m] = state[m]
      /\ \A d \in Clients \ {c} : cl'[d] = cl[d]
  BY DEF IInv, Shapes
<1>3. None # "freed" /\ None \notin Cookies /\ "freed" \notin Cookies
  BY CookiesAssumption
<1>4. cl[c].arg = "freed" => cl[c].n = n
  <2>1. CASE cl[c].pc = "ready"
    BY <2>1
  <2>2. CASE cl[c].pc # "ready"
    BY <1>3, <2>2 DEF BInv, ClientBuffer
  <2> QED BY <2>1, <2>2
<1>5. Around3(n, c, k)
  BY <1>1, <1>2, <1>3, <1>4 DEF Around3, CpuAt
<1>6. BShapes'
  BY DEF BInv, BShapes
<1>7. ThreadBuffer(n) /\ ThreadBuffer(n)'
  <2>1. ThreadBuffer(n)
    BY DEF BInv
  <2> QED BY <1>2, <2>1 DEF ThreadBuffer
<1>8. CpuBuffer(k)'
  <2>1. CASE q.pc = "start"
    BY <1>2, <1>7, <2>1 DEF CpuBuffer, CpuAt, ThreadBuffer
  <2>2. CASE q.pc = "resume"
    <3>1. ~copy[n] => q.arg = "nothing"
      BY <2>2 DEF BInv, ClientBuffer
    <3> QED BY <1>2, <2>2, <3>1 DEF CpuBuffer, CpuAt
  <2> QED BY <2>1, <2>2
<1>9. ClientBuffer(c)'
  BY <1>2 DEF ClientBuffer
<1>10. ASSUME NEW a \in Cookies PROVE GoesWell(n, c, k, a)
  <2>1. GivenBack(n)' <=> GivenBack(n)
    <3>1. CASE q.pc = "start"
      <4>1. at[n] = "run"
        BY <1>7, <3>1 DEF ThreadBuffer
      <4> QED BY <4>1 DEF GivenBack
    <3>2. CASE q.pc = "resume"
      BY <1>2, <1>3, <1>5, <3>2, ReturnedLemma DEF Returned, CpuAt
    <3> QED BY <3>1, <3>2
  <2>2. /\ InThread(n, a)' <=> InThread(n, a)
        /\ InRpc(n, a)' <=> InRpc(n, a)
        /\ InRegs(n, a)' <=> InRegs(n, a)
        /\ ~InTask(c, a)' /\ ~InCpu(k, a)
        /\ a \in shm' <=> a \in shm
    BY <1>2, <1>3, <2>1 DEF InThread, InRpc, InRegs, InTask, InCpu, CpuAt
  <2>3. InTask(c, a) <=> InCpu(k, a)'
    <3>1. CASE q.pc = "start"
      BY <1>2, <1>3, <3>1 DEF InTask, InCpu, CpuAt, BInv, ClientBuffer
    <3>2. CASE q.pc = "resume"
      BY <1>2, <3>2 DEF InTask, InCpu, CpuAt
    <3> QED BY <3>1, <3>2
  <2>4. CASE ~InTask(c, a)
    BY <2>2, <2>3, <2>4 DEF GoesWell, Stays
  <2>5. CASE InTask(c, a)
    <3>1. /\ <<"task", c>> \in Holders(a) 
          /\ a \in shm /\ \E h : Holders(a) = {h}
      BY <2>5, AroundLemma DEF BInv, OnePlace
    <3>2. /\ <<"thread", n>> # <<"task", c>> /\ <<"rpc", n>> # <<"task", c>>
          /\ <<"regs", n>> # <<"task", c>>
      OBVIOUS
    <3>3. /\ <<"thread", n>> \notin Holders(a) /\ <<"rpc", n>> \notin Holders(a)
          /\ <<"regs", n>> \notin Holders(a)
      BY <3>1, <3>2
    <3>4. ~InThread(n, a) /\ ~InRpc(n, a) /\ ~InRegs(n, a)
      BY <3>3, AroundLemma
    <3> QED BY <2>2, <2>3, <2>5, <3>1, <3>4 DEF GoesWell, Somewhere, Once
  <2> QED BY <2>4, <2>5
<1> QED BY <1>5, <1>6, <1>7, <1>8, <1>9, <1>10, AroundStep

(* CPU k leaves with thread n suspended, and client c gets what there is   *)
(* for it: the arguments b.                                                *)
LEMMA LeaveTurn ==
  ASSUME IInv, BInv, NEW k \in Cores, NEW c \in Clients, NEW n \in Thr, NEW l, NEW b,
         Leaves(k), n = cpu[k].n, c = caller[k],
         cpu' = [cpu EXCEPT ![k] = Outside],
         cl' = [cl EXCEPT ![c] = [pc |-> l, n |-> n, arg |-> b]],
         UNCHANGED <<state, copy, regs, at, rv, carg, mobj, prealloc, faulted, late>>,
         l \in {"waiting", "ready"},
         \/ l = "waiting" /\ b = None /\ UNCHANGED shm
         \/ l = "ready" /\ ~copy[n] /\ b = "nothing" /\ UNCHANGED shm
         \/ l = "ready" /\ copy[n] /\ at[n] = "alloc" /\ b = None /\ UNCHANGED shm
         \/ l = "ready" /\ copy[n] /\ at[n] = "alloc" /\ b \in Cookies \ shm /\ shm' = shm \cup {b}
         \/ /\ l = "ready" /\ copy[n] /\ at[n] \in {"free", "return"} /\ b = "freed"
            /\ shm' = shm \ {rv[n]}
  PROVE  BInv'
<1>1. Private(n, c, k) /\ state[n] = "suspended"
  <2>1. state[n] = "suspended"
    BY DEF IInv, CpuPlaces, CpuPlace
  <2> QED BY <2>1 DEF IInv, CpuPlaces, CpuPlace, Apart, ClientsApart, Private
<1>2. /\ cpu'[k] = Outside
      /\ cl'[c] = [pc |-> l, n |-> n, arg |-> b]
      /\ \A j \in Cores \ {k} : cpu'[j] = cpu[j]
      /\ \A d \in Clients \ {c} : cl'[d] = cl[d]
  BY DEF IInv, Shapes
<1>3. /\ None # "freed" /\ None \notin Cookies /\ "freed" \notin Cookies /\ "nothing" \notin Cookies
      /\ "own" \notin Cookies
  BY CookiesAssumption
<1>4. cl[c].pc = "inside" /\ cl[c].arg = None /\ cpu[k].pc = "smc"
  BY DEF IInv, CpuPlaces, CpuPlace, Leaves, BInv, ClientBuffer
<1>5. Around3(n, c, k)
  BY <1>1, <1>2, <1>3, <1>4 DEF Around3, CpuAt, Outside
<1>6. BShapes' /\ Dangling' /\ Excused'
  BY DEF BInv, BShapes, Dangling, Excused, AllFree
<1>7. ThreadBuffer(n) /\ ThreadBuffer(n)'
  <2>1. ThreadBuffer(n)
    BY DEF BInv
  <2> QED BY <2>1 DEF ThreadBuffer
<1>8. CpuBuffer(k)'
  BY <1>2 DEF CpuBuffer, CpuAt, Outside
<1>9. ClientBuffer(c)'
  BY <1>2 DEF ClientBuffer
<1>10. ASSUME NEW a \in Cookies PROVE GoesWell(n, c, k, a)
  <2>1. /\ ~InTask(c, a) /\ ~InCpu(k, a) /\ ~InCpu(k, a)'
        /\ InTask(c, a)' <=> b = a
        /\ InRegs(n, a)' <=> InRegs(n, a)
    BY <1>2, <1>3, <1>4 DEF InTask, InCpu, InRegs, CpuAt, Outside
  <2>2. CASE b # "freed"
    <3>1. GivenBack(n)' <=> GivenBack(n)
      BY <1>2, <1>3, <1>4, <1>5, <2>2, ReturnedLemma DEF Returned, CpuAt, Outside
    <3>2. /\ InThread(n, a)' <=> InThread(n, a)
          /\ InRpc(n, a)' <=> InRpc(n, a)
      BY <3>1 DEF InThread, InRpc
    <3>3. CASE b # a
      BY <1>3, <2>1, <2>2, <3>2, <3>3 DEF GoesWell, Stays
    <3>4. CASE b = a
      <4>1. a \notin shm /\ a \in shm'
        BY <1>3, <3>4
      <4>2. Holders(a) = {}
        BY <4>1 DEF BInv, OnePlace
      <4>3. ~InThread(n, a) /\ ~InRpc(n, a) /\ ~InRegs(n, a)
        BY <4>2, AroundLemma
      <4> QED BY <2>1, <3>2, <3>4, <4>1, <4>3 DEF GoesWell, Once, Somewhere
    <3> QED BY <3>3, <3>4
  <2>3. CASE b = "freed"
    <3>1. /\ copy[n] /\ at[n] \in {"free", "return"} /\ regs[n] = "own" /\ rv[n] # None
          /\ shm' = shm \ {rv[n]} /\ (at[n] = "free" => carg[n] = rv[n])
          /\ (at[n] = "return" => carg[n] = None)
      BY <1>3, <1>7, <2>3 DEF ThreadBuffer
    <3>2. ~GivenBack(n)
      BY <1>3, <1>4, <1>5, <3>1, ReturnedLemma DEF Returned, CpuAt
    <3>3. GivenBack(n)'
      BY <1>2, <1>5, <2>3, <3>1, ReturnedLemma DEF Returned
    <3>4. ~InThread(n, a)' /\ ~InRpc(n, a)' /\ ~InRegs(n, a)' /\ ~InTask(c, a)' /\ ~InRegs(n, a)
      BY <1>3, <2>1, <2>3, <3>1, <3>3 DEF InThread, InRpc, InRegs
    <3>5. CASE a = rv[n]
      <4>1. InThread(n, a) \/ InRpc(n, a)
        BY <3>1, <3>2, <3>5 DEF InThread, InRpc
      <4>2. a \notin shm'
        BY <3>1, <3>5
      <4> QED BY <2>1, <3>4, <4>1, <4>2 DEF GoesWell, Somewhere
    <3>6. CASE a # rv[n]
      <4>1. ~InThread(n, a) /\ ~InRpc(n, a)
        BY <1>3, <3>1, <3>6 DEF InThread, InRpc
      <4>2. a \in shm' <=> a \in shm
        BY <3>1, <3>6
      <4> QED BY <2>1, <3>4, <4>1, <4>2 DEF GoesWell, Stays
    <3> QED BY <3>5, <3>6
  <2> QED BY <2>2, <2>3
<1> QED BY <1>5, <1>6, <1>7, <1>8, <1>9, <1>10, AroundStep

-----------------------------------------------------------------------------
(* A step that has nothing to do with buffers: CPUs come back from a call  *)
(* that is done, and clients get arguments that are not buffers.           *)
LEMMA QuietStep ==
  ASSUME IInv, BInv,
         UNCHANGED <<state, copy, regs, at, rv, carg, mobj, faulted, shm>>,
         UNCHANGED late, UNCHANGED prealloc \/ prealloc',
         \A k \in Cores : cpu'[k] = cpu[k] \/ (cpu[k].pc = "smc" /\ cpu'[k].pc = "normal"),
         \A c \in Clients : cl'[c] = cl[c]
                            \/ /\ cl[c].arg = None /\ cl'[c].arg \in Clients \cup {None}
                               /\ cl'[c].pc = "ready" => copy[cl'[c].n]
                               /\ cl'[c].pc # "ready" => cl'[c].arg = None
  PROVE  BInv'
<1>1. BShapes' /\ Dangling' /\ Excused'
  BY DEF BInv, BShapes, Dangling, Excused, AllFree
<1>2. ASSUME NEW n \in Thr PROVE ThreadBuffer(n)'
  BY DEF BInv, ThreadBuffer
<1>3. ASSUME NEW k \in Cores PROVE CpuBuffer(k)'
  <2>1. CASE cpu'[k] = cpu[k]
    BY <2>1 DEF BInv, CpuBuffer, CpuAt
  <2>2. CASE cpu'[k].pc = "normal"
    BY <2>2 DEF CpuBuffer, CpuAt
  <2> QED BY <2>1, <2>2
<1>4. ASSUME NEW c \in Clients PROVE ClientBuffer(c)'
  BY DEF BInv, ClientBuffer
<1>5. ASSUME NEW k \in Cores
      PROVE  /\ CpuAt(k, "resume")' <=> CpuAt(k, "resume")
             /\ CpuAt(k, "resume") => cpu'[k] = cpu[k]
  <2>1. CASE cpu'[k] = cpu[k]
    BY <2>1 DEF CpuAt
  <2>2. CASE cpu[k].pc = "smc" /\ cpu'[k].pc = "normal"
    BY <2>2 DEF CpuAt
  <2> QED BY <2>1, <2>2
<1>6. ASSUME NEW c \in Clients
      PROVE  /\ cl[c].arg = "freed" <=> cl'[c].arg = "freed"
             /\ cl[c].arg = "freed" => cl'[c] = cl[c]
             /\ \A a \in Cookies : cl[c].arg = a <=> cl'[c].arg = a
  BY CookiesAssumption
<1>7. ASSUME NEW n \in Thr PROVE GivenBack(n)' <=> GivenBack(n)
  BY <1>5, <1>6 DEF GivenBack
<1>8. ASSUME NEW a \in Cookies PROVE OnePlace(a)'
  <2>1. Holders(a)' = Holders(a)
    <3>1. ASSUME NEW n \in Thr
          PROVE  /\ InThread(n, a)' <=> InThread(n, a)
                 /\ InRpc(n, a)' <=> InRpc(n, a)
                 /\ InRegs(n, a)' <=> InRegs(n, a)
      BY <1>7 DEF InThread, InRpc, InRegs
    <3>2. ASSUME NEW c \in Clients PROVE InTask(c, a)' <=> InTask(c, a)
      BY <1>6 DEF InTask
    <3>3. ASSUME NEW k \in Cores PROVE InCpu(k, a)' <=> InCpu(k, a)
      BY <1>5 DEF InCpu
    <3> QED BY <3>1, <3>2, <3>3, SamePlaces
  <2> QED BY <2>1 DEF BInv, OnePlace
<1> QED BY <1>1, <1>2, <1>3, <1>4, <1>8 DEF BInv

(* thread_disable_prealloc_rpc_cache: no thread runs, and the first buffer *)
(* that a thread still has is freed.                                       *)
LEMMA DisableStep ==
  ASSUME IInv, BInv, disable_shm_cache
  PROVE  BInv'
<1> DEFINE used == {m \in Thr : carg[m] # None}
<1>1. AllFree /\ UNCHANGED <<state, copy, regs, at, rv, cpu, cl, late>> /\ (faulted => late)
  BY DEF disable_shm_cache, thread_disable_prealloc_rpc_cache, BInv, Excused
<1>2. ASSUME NEW n \in Thr PROVE at[n] = "run" /\ ~GivenBack(n) /\ ~GivenBack(n)'
  <2>1. at[n] = "run"
    BY <1>1 DEF AllFree, BInv, ThreadBuffer
  <2> QED BY <1>1, <2>1 DEF GivenBack
<1>3. \A k \in Cores : CpuBuffer(k)'
  BY <1>1 DEF BInv, CpuBuffer, CpuAt
<1>4. \A c \in Clients : ClientBuffer(c)'
  BY <1>1 DEF BInv, ClientBuffer
<1>5. Dangling'
  BY <1>1 DEF Dangling, AllFree
<1>6. CASE used = {}
  <2>1. UNCHANGED <<carg, mobj, faulted, shm>>
    <3>1. UNCHANGED <<carg, mobj, faulted>> /\ \E c \in {None} : shm' = shm \ {c}
      BY <1>6 DEF disable_shm_cache, thread_disable_prealloc_rpc_cache
    <3>2. None \notin shm
      BY CookiesAssumption DEF BInv, BShapes
    <3> QED BY <3>1, <3>2
  <2>2. BShapes' /\ \A n \in Thr : ThreadBuffer(n)'
    BY <1>1, <2>1 DEF BInv, BShapes, ThreadBuffer
  <2>3. ASSUME NEW a \in Cookies PROVE OnePlace(a)'
    <3>1. Holders(a)' = Holders(a)
      <4>1. ASSUME NEW n \in Thr
            PROVE  /\ InThread(n, a)' <=> InThread(n, a)
                   /\ InRpc(n, a)' <=> InRpc(n, a)
                   /\ InRegs(n, a)' <=> InRegs(n, a)
        BY <1>1, <1>2, <2>1 DEF InThread, InRpc, InRegs
      <4>2. \A c \in Clients : InTask(c, a)' <=> InTask(c, a)
        BY <1>1 DEF InTask
      <4>3. \A k \in Cores : InCpu(k, a)' <=> InCpu(k, a)
        BY <1>1 DEF InCpu, CpuAt
      <4> QED BY <4>1, <4>2, <4>3, SamePlaces
    <3> QED BY <2>1, <3>1 DEF BInv, OnePlace
  <2> QED BY <1>1, <1>3, <1>4, <1>5, <2>1, <2>2, <2>3 DEF BInv, Excused
<1>7. CASE used # {}
  <2>0. Min(used) \in used
    <3>1. used \in SUBSET Nat
      BY ThrAssumption
    <3> HIDE DEF used
    <3> QED BY <1>7, <3>1, MinLemma
  <2>1. PICK n \in Thr : n = Min(used) /\ carg[n] # None
    BY <2>0
  <2>2. /\ carg' = [carg EXCEPT ![n] = None]
        /\ mobj' = [mobj EXCEPT ![n] = "freed"]
        /\ faulted' = (faulted \/ mobj[n] = "freed")
        /\ shm' = shm \ {carg[n]}
    BY <1>7, <2>1 DEF disable_shm_cache, thread_disable_prealloc_rpc_cache, Freed
  <2>3. mobj[n] = "held" /\ carg[n] \in Cookies
    BY <2>1 DEF BInv, ThreadBuffer, BShapes
  <2>4. BShapes' /\ Excused'
    BY <1>1, <2>2, <2>3 DEF BInv, BShapes, Excused
  <2>5. ASSUME NEW m \in Thr PROVE ThreadBuffer(m)'
    <3>1. CASE m = n
      BY <1>1, <1>2, <2>2, <3>1 DEF BInv, BShapes, ThreadBuffer
    <3>2. CASE m # n
      BY <1>1, <2>2, <3>2 DEF BInv, BShapes, ThreadBuffer
    <3> QED BY <3>1, <3>2
  <2>6. ASSUME NEW a \in Cookies PROVE OnePlace(a)'
    <3>1. ASSUME NEW m \in Thr
          PROVE  /\ InThread(m, a)' <=> (InThread(m, a) /\ m # n)
                 /\ InThread(m, a) <=> carg[m] = a
                 /\ InRpc(m, a)' <=> InRpc(m, a)
                 /\ InRegs(m, a)' <=> InRegs(m, a)
      BY <1>1, <1>2, <2>2, CookiesAssumption DEF InThread, InRpc, InRegs, BInv, BShapes
    <3>2. \A c \in Clients : InTask(c, a)' <=> InTask(c, a)
      BY <1>1 DEF InTask
    <3>3. \A k \in Cores : InCpu(k, a)' <=> InCpu(k, a)
      BY <1>1 DEF InCpu, CpuAt
    <3>4. Holders(a)' = Holders(a) \ {<<"thread", n>>}
      <4> DEFINE H == Holders(a)
                 G == Holders(a)'
      <4>1. ASSUME NEW h PROVE h \in G <=> (h \in H /\ h # <<"thread", n>>)
        BY <3>1, <3>2, <3>3, HolderMember, HolderMemberNext
      <4> QED BY <4>1
    <3>5. <<"thread", n>> \in Holders(a) <=> a = carg[n]
      BY <3>1, HolderMember
    <3>6. CASE a = carg[n]
      <4>1. Holders(a)' = {} /\ a \notin shm'
        BY <2>2, <3>4, <3>5, <3>6 DEF BInv, OnePlace
      <4> QED BY <4>1 DEF OnePlace
    <3>7. CASE a # carg[n]
      <4>1. Holders(a)' = Holders(a) /\ (a \in shm' <=> a \in shm)
        BY <2>2, <3>4, <3>5, <3>7
      <4> QED BY <4>1 DEF BInv, OnePlace
    <3> QED BY <3>6, <3>7
  <2> QED BY <1>1, <1>3, <1>4, <1>5, <2>4, <2>5, <2>6 DEF BInv
<1> QED BY <1>6, <1>7

-----------------------------------------------------------------------------
(* The driver serves what a CPU brings out of the secure world.            *)
LEMMA ReturnStep ==
  ASSUME IInv, BInv, NEW k \in Cores, smc_return(k)
  PROVE  BInv'
<1>0. SUFFICES ASSUME NEW n, NEW c, n = cpu[k].n, c = caller[k] PROVE BInv'
  OBVIOUS
<1>1. /\ cpu[k].pc = "smc" /\ cpu' = [cpu EXCEPT ![k] = Outside] /\ c \in Clients
      /\ cl[c].pc = "inside" /\ cl[c].arg = None
      /\ UNCHANGED <<state, copy, regs, at, rv, carg, mobj, prealloc, faulted, late>>
  BY <1>0 DEF smc_return, CpuAt, ToNormal, Args, IInv, CpuPlaces, CpuPlace, BInv, ClientBuffer
<1>2. CASE cpu[k].arg = "done"
  <2>1. call_done(c)
    BY <1>0, <1>2 DEF smc_return
  <2>2. cl' = [cl EXCEPT ![c] = Idle] /\ UNCHANGED shm
    BY <2>1 DEF call_done
  <2>4. \A j \in Cores : cpu'[j] = cpu[j] \/ (cpu[j].pc = "smc" /\ cpu'[j].pc = "normal")
    BY <1>1 DEF IInv, Shapes, Outside
  <2>5. ASSUME NEW d \in Clients
        PROVE  cl'[d] = cl[d] \/ (cl[d].arg = None /\ cl'[d].arg = None /\ cl'[d].pc = "idle")
    BY <1>1, <2>2 DEF IInv, Shapes, Idle
  <2> QED BY <1>1, <2>2, <2>4, <2>5, QuietStep
<1>3. CASE cpu[k].arg # "done"
  <2>1. Leaves(k) /\ n \in Thr /\ CpuAnswers(k)
    BY <1>0, <1>1, <1>3 DEF Leaves, IInv, CpuPlaces, CpuPlace, Answers
  <2>2. \/ cpu[k].arg = "intr" /\ ~copy[n]
        \/ cpu[k].arg = at[n] /\ copy[n] /\ at[n] \in Rpcs
    BY <1>0, <2>1 DEF CpuAnswers
  <2>3. CASE cpu[k].arg = "alloc"
    <3>1. copy[n] /\ at[n] = "alloc" /\ serve_alloc(c, n)
      BY <1>0, <2>2, <2>3 DEF smc_return, Rpcs
    <3>2. CASE UNCHANGED shm /\ SetClient(c, "ready", n, None)
      BY <1>0, <1>1, <2>1, <3>1, <3>2, LeaveTurn DEF SetClient
    <3>3. CASE Cookies \ shm # {} /\ ~(UNCHANGED shm /\ SetClient(c, "ready", n, None))
      <4>1. PICK b \in Cookies \ shm : shm' = shm \cup {b} /\ SetClient(c, "ready", n, b)
        BY <3>1, <3>3 DEF serve_alloc
      <4> QED BY <1>0, <1>1, <2>1, <3>1, <4>1, LeaveTurn DEF SetClient
    <3> QED BY <3>1, <3>2, <3>3 DEF serve_alloc
  <2>4. CASE cpu[k].arg \in {"free", "return"}
    <3>1. copy[n] /\ at[n] \in {"free", "return"} /\ serve_free(c, n)
      BY <1>0, <2>2, <2>4 DEF smc_return, Rpcs
    <3> QED BY <1>0, <1>1, <2>1, <3>1, LeaveTurn DEF SetClient, serve_free
  <2>5. CASE cpu[k].arg = "intr"
    <3>1. ~copy[n] /\ serve_intr(c, n)
      BY <1>0, <2>2, <2>5 DEF smc_return, Rpcs
    <3> QED BY <1>0, <1>1, <2>1, <3>1, LeaveTurn DEF SetClient, serve_intr
  <2>6. CASE cpu[k].arg = "cmd"
    <3>1. serve_cmd(c, n)
      BY <1>0, <2>6 DEF smc_return
    <3> QED BY <1>0, <1>1, <2>1, <3>1, LeaveTurn DEF SetClient, serve_cmd
  <2> QED BY <2>2, <2>3, <2>4, <2>5, <2>6 DEF Rpcs
<1> QED BY <1>2, <1>3

LEMMA NextBInv == IInv /\ BInv /\ [Next]_vars => BInv'
<1> SUFFICES ASSUME IInv, BInv, [Next]_vars PROVE BInv'
  OBVIOUS
<1>1. ASSUME UNCHANGED <<tvars, cl, shm, late>> PROVE BInv'
  BY <1>1, QuietStep DEF tvars
<1>2. CASE UNCHANGED vars
  BY <1>1, <1>2 DEF vars
<1>3. ASSUME NEW k \in Cores, NEW c \in Clients, call(k, c) PROVE BInv'
  <2> DEFINE free == {m \in Thr : state[m] = "free"}
  <2>1. Min(free) \in free
    <3>1. free \in SUBSET Nat /\ free # {}
      BY <1>3, ThrAssumption DEF call, thread_alloc_and_run
    <3> HIDE DEF free
    <3> QED BY <3>1, MinLemma
  <2>2. PICK n \in Thr : n = Min(free) /\ state[n] = "free"
    BY <2>1
  <2>3. /\ CpuAt(k, "normal") /\ cl[c].pc = "idle"
        /\ state' = [state EXCEPT ![n] = "active"]
        /\ cpu' = [cpu EXCEPT ![k] = [pc |-> "start", n |-> n, arg |-> None]]
        /\ cl' = [cl EXCEPT ![c] = [pc |-> "inside", n |-> None, arg |-> None]]
        /\ UNCHANGED <<copy, regs, at, rv, carg, mobj, prealloc, faulted, shm>>
        /\ late' = (late \/ (~prealloc /\ \E m \in Thr : mobj[m] = "freed"))
    BY <1>3, <2>2 DEF call, thread_alloc_and_run, SetCpu, SetClient, Args
  <2>4. cl[c].arg = None
    BY <2>3 DEF BInv, ClientBuffer
  <2>5. Dangling' /\ Excused'
    BY <2>3 DEF BInv, Dangling, Excused
  <2> QED BY <2>2, <2>3, <2>4, <2>5, EnterTurn
<1>4. ASSUME NEW k \in Cores, NEW c \in Clients, return_from_rpc(k, c) PROVE BInv'
  <2>1. PICK n \in Thr : n = cl[c].n
    BY <1>4 DEF return_from_rpc, IInv, ClientPlaces, Awaits
  <2>2. PICK q : q = [pc |-> "resume", n |-> n, arg |-> cl[c].arg]
    OBVIOUS
  <2>3. /\ CpuAt(k, "normal") /\ cl[c].pc = "ready"
        /\ state' = [state EXCEPT ![n] = "active"]
        /\ cpu' = [cpu EXCEPT ![k] = q]
        /\ cl' = [cl EXCEPT ![c] = [pc |-> "inside", n |-> None, arg |-> None]]
        /\ UNCHANGED <<copy, regs, at, rv, carg, mobj, prealloc, faulted, shm, late>>
    BY <1>4, <2>1, <2>2 DEF return_from_rpc, thread_resume_from_rpc, SetCpu, SetClient, Args
  <2>4. state[n] = "suspended"
    BY <1>4, <2>1 DEF return_from_rpc, thread_resume_from_rpc
  <2>5. Dangling' /\ Excused'
    BY <2>3, <2>4 DEF BInv, Dangling, Excused, AllFree
  <2> QED BY <2>1, <2>2, <2>3, <2>5, EnterTurn
<1>5. ASSUME NEW k \in Cores, thread_step(k) \/ interrupt(k) PROVE BInv'
  BY <1>5, ThreadTurns DEF thread_step, interrupt
<1>6. ASSUME NEW k \in Cores, smc_return(k) PROVE BInv'
  BY <1>6, ReturnStep
<1>7. ASSUME NEW w \in Workers, worker_step(w) \/ worker_fails(w) PROVE BInv'
  BY <1>1, <1>7 DEF worker_step, worker_fails
<1>8. ASSUME NEW w \in Workers, NEW c \in Clients, response(w, c) PROVE BInv'
  <2>1. serving[w] = c /\ c # NoRequest
    BY <1>8, NoRequestAssumption, RequestsAssumption DEF response, write_response
  <2>2. cl[c].pc = "waiting" /\ cl[c].n \in Thr
    BY <2>1 DEF IInv, Pending, ClientPlaces, Awaits
  <2>3. copy[cl[c].n] /\ cl[c].arg = None
    BY <2>2 DEF IInv, Answers, ClientAnswers, BInv, ClientBuffer
  <2>4. /\ cl' = [cl EXCEPT ![c] = [pc |-> "ready", n |-> cl[c].n, arg |-> c]]
        /\ UNCHANGED <<tvars, shm, late>>
    BY <1>8 DEF response, SetClient
  <2>5. \A d \in Clients : cl'[d] = cl[d] \/ (cl[d].arg = None /\ cl'[d].arg = c
                                              /\ copy[cl'[d].n] /\ cl'[d].pc = "ready")
    BY <2>3, <2>4 DEF IInv, Shapes
  <2> QED BY <2>4, <2>5, QuietStep DEF tvars
<1>9. CASE release
  <2>1. /\ UNCHANGED <<tvars, shm, late>>
        /\ cl' = [c \in Clients |-> IF cl[c].pc # "waiting" THEN cl[c]
                                    ELSE [pc |-> "ready", n |-> cl[c].n, arg |-> c]]
    BY <1>9 DEF release
  <2>2. ASSUME NEW c \in Clients
        PROVE  cl'[c] = cl[c] \/ (cl[c].arg = None /\ cl'[c].arg = c
                                  /\ copy[cl'[c].n] /\ cl'[c].pc = "ready")
    <3>1. CASE cl[c].pc = "waiting"
      BY <2>1, <3>1 DEF IInv, Answers, ClientAnswers, BInv, ClientBuffer
    <3>2. CASE cl[c].pc # "waiting"
      BY <2>1, <3>2
    <3> QED BY <3>1, <3>2
  <2> QED BY <2>1, <2>2, QuietStep DEF tvars
<1>10. CASE disable_shm_cache
  BY <1>10, DisableStep
<1>11. CASE enable_shm_cache
  <2>1. /\ UNCHANGED <<state, copy, regs, at, rv, carg, mobj, cpu, faulted, cl, shm, late>>
        /\ prealloc'
    BY <1>11 DEF enable_shm_cache, thread_enable_prealloc_rpc_cache
  <2> QED BY <2>1, QuietStep
<1> QED BY <1>2, <1>3, <1>4, <1>5, <1>6, <1>7, <1>8, <1>9, <1>10, <1>11 DEF Next

LEMMA InitBInv == Init => BInv
<1> SUFFICES ASSUME Init PROVE BInv
  OBVIOUS
<1> USE DEF Init, ThreadsInit, Outside, Idle
<1>1. BShapes /\ Dangling /\ Excused
  BY DEF BShapes, Dangling, Excused
<1>2. \A n \in Thr : ThreadBuffer(n)
  BY DEF ThreadBuffer
<1>3. (\A k \in Cores : CpuBuffer(k)) /\ (\A c \in Clients : ClientBuffer(c))
  BY DEF CpuBuffer, ClientBuffer, CpuAt
<1>4. ASSUME NEW a \in Cookies PROVE OnePlace(a)
  <2>1. a # None
    BY CookiesAssumption
  <2>2. Holders(a) = {}
    BY <2>1, HolderMember DEF InThread, InRpc, InRegs, InTask, InCpu, CpuAt
  <2> QED BY <2>2 DEF OnePlace
<1> QED BY <1>1, <1>2, <1>3, <1>4 DEF BInv

LEMMA BufferInvariance == Spec => []BInv
<1>1. Init => BInv
  BY InitBInv
<1>2. IInv /\ BInv /\ [Next]_vars => BInv'
  BY NextBInv
<1> QED BY <1>1, <1>2, Invariance, PTL DEF Spec

-----------------------------------------------------------------------------
(* thread.c get_rpc_arg, __thread_std_smc_entry,                           *)
(* thread_disable_prealloc_rpc_cache: an argument buffer that the normal   *)
(* world has allocated is with one thread or on its way to it, whatever    *)
(* interrupts come between; what a thread has in rpc_carg is allocated or  *)
(* was given back; and a mobj is freed twice only when a call was made     *)
(* after the cache was disabled and before it was enabled again.           *)
THEOREM BuffersAreHeld == Spec => []BuffersHeld
<1>1. BInv => BuffersHeld
  <2> SUFFICES ASSUME BInv PROVE BuffersHeld
    OBVIOUS
  <2>1. ASSUME NEW a \in shm PROVE Cardinality(Holders(a)) = 1
    <3>1. a \in Cookies
      BY DEF BInv, BShapes
    <3>2. PICK h : Holders(a) = {h}
      BY <3>1 DEF BInv, OnePlace
    <3> QED BY <3>2, FS_Singleton
  <2>2. ASSUME NEW n \in Thr PROVE carg[n] \in shm \cup {None} \/ GivenBack(n)
    <3> SUFFICES ASSUME carg[n] # None, ~GivenBack(n) PROVE carg[n] \in shm
      OBVIOUS
    <3>1. PICK a \in Cookies : a = carg[n]
      BY DEF BInv, BShapes
    <3>2. <<"thread", n>> \in Holders(a)
      BY <3>1, HolderMember DEF InThread
    <3> QED BY <3>1, <3>2 DEF BInv, OnePlace
  <2> QED BY <2>1, <2>2 DEF BInv, Excused, BuffersHeld
<1> QED BY <1>1, BufferInvariance, PTL

(* The variables of the core's threads, the driver and tee-supplicant keep *)
(* their types; num_waiters is never negative and bounded by the threads,  *)
(* also when the process gives up.                                         *)
THEOREM RpcTypes == Spec => []TypeOK
<1>1. IInv /\ WInv /\ BInv => TypeOK
  <2> SUFFICES ASSUME IInv, WInv, BInv PROVE TypeOK
    OBVIOUS
  <2>1. num_waiters \in 0..2 * MaxWorkers
    <3>1. Waiting \cup GaveUp \in SUBSET Workers
      BY DEF Waiting, GaveUp
    <3>2. Cardinality(Waiting \cup GaveUp) \in Nat /\ Cardinality(Waiting \cup GaveUp) <= MaxWorkers
      BY <3>1, CountLemma
    <3> QED BY <3>2, WorkersAssumption DEF WInv, WShapes, Counted
  <2>2. \A c \in Clients : cl[c].pc \in {"idle", "inside", "waiting", "ready"}
    BY DEF IInv, ClientPlaces, Awaits
  <2> QED BY <2>1, <2>2 DEF TypeOK, IInv, Shapes, Ats, BInv, BShapes
<1> QED BY <1>1, Invariance, WaitersInvariance, BufferInvariance, PTL
=============================================================================
