------------------------------ MODULE TaProofs ------------------------------
(***************************************************************************)
(* Theorems about TaManager.tla, for any number of threads, sessions,      *)
(* contexts and TAs with any flags, and calls of TAs nested to any depth:  *)
(* an instance of a TA is entered by one call at a time, the               *)
(* single-instance lock is counted right, sessions and contexts are freed  *)
(* when the last user is gone and no earlier, no wakeup is lost, no assert *)
(* fails, and where no TA can call itself the core does not panic.         *)
(***************************************************************************)
EXTENDS TaManager, FiniteSetTheorems, WellFoundedInduction, TLAPS

-----------------------------------------------------------------------------
(* The calls, by thread and depth; a step changes the call in one place.   *)
Slots == Threads \X (Nat \ {0})

FrameRec == [op : Ops, pc : PCs, u : Uuids \cup {NoUuid}, s : Sessions \cup {NoSess},
             c : Ctxs \cup {NoCtx}, list : Ctxs \cup {Nsec}, kern : BOOLEAN, bad : BOOLEAN,
             held : BOOLEAN]

(* No call.                                                                *)
Gone == [op |-> "none", pc |-> "get", u |-> NoUuid, s |-> NoSess, c |-> NoCtx,
         list |-> NoCtx, kern |-> FALSE, bad |-> FALSE, held |-> FALSE]

fr == [x \in Slots |-> IF x[2] <= Len(stack[x[1]]) THEN stack[x[1]][x[2]] ELSE Gone]

(* What a call has by the place it is in.                                  *)
OpenPcs == {"init", "entry", "busy", "run", "clear", "opened", "put"}
InvokePcs == {"get", "getwait", "check", "busy", "run", "clear", "put"}
ClosePcs == {"get", "getwait", "check", "busy", "closing", "run", "unlink", "unlinkwait",
             "clear", "put", "deref", "destroy"}
CancelPcs == {"get", "check", "put"}
EnteredPcs == {"entry", "busy", "run", "closing", "unlink", "unlinkwait", "clear", "opened",
               "deref", "destroy"}

FrameOK(f) ==
  /\ f.op = "open" => f.pc \in OpenPcs
  /\ f.op = "invoke" => f.pc \in InvokePcs
  /\ f.op = "close" => f.pc \in ClosePcs
  /\ f.op = "cancel" => f.pc \in CancelPcs
  /\ IF f.pc = "init" THEN f.s = NoSess ELSE f.s \in Sessions
  /\ f.pc = "init" => f.u \in Uuids
  /\ f.pc \in {"init", "get", "getwait", "check"} => f.c = NoCtx
  /\ f.pc \in EnteredPcs => f.c \in Ctxs
  /\ f.held => f.op = "close" /\ f.kern /\ f.pc \notin {"clear", "deref", "destroy"}
  /\ f.kern => f.op = "close" /\ f.pc # "put"

GoodFrame(f) == f = Gone \/ (f \in FrameRec /\ FrameOK(f))

(* A call made by a TA is on top of the call in which the TA runs, or is   *)
(* destroyed, and works on the sessions of that TA.                        *)
CalledFrom(fm, t, n, list) ==
  \/ n = 1 /\ list = Nsec
  \/ n > 1 /\ fm[<<t, n - 1>>].pc \in {"run", "destroy"} /\ fm[<<t, n - 1>>] # Gone
     /\ list = fm[<<t, n - 1>>].c

StackInv(fm) ==
  /\ fm = [x \in Slots |-> fm[x]]
  /\ \A x \in Slots : GoodFrame(fm[x])
  /\ \A t \in Threads, n \in Nat \ {0} :
       fm[<<t, n>>] # Gone => CalledFrom(fm, t, n, fm[<<t, n>>].list)

(* Sessions.  A session has one owner: the open that has yet to return it, *)
(* the close that will free it, the normal world or a TA's list.           *)
B(b) == IF b THEN 1 ELSE 0

UserOf(f, s) == HasRef(f) /\ f.s = s
HolderOf(f, s) == f.held /\ f.s = s
UsersOf(fm, s) == {x \in Slots : UserOf(fm[x], s)}
HoldersOf(fm, s) == {x \in Slots : HolderOf(fm[x], s)}

Owns(f) == \/ f.op = "open" /\ f.pc # "init"
           \/ f.op = "close" /\ f.pc \notin {"put", "clear", "deref", "destroy"}

SessRec == [ctx : Ctxs \cup {NoCtx}, list : Ctxs \cup {NoCtx, Nsec}, ref : Nat,
            lock : Threads \cup {NoThread}, unlink : BOOLEAN, clnt : Uuids \cup {NoUuid},
            cancel : BOOLEAN]

SessRefs(fm, S) ==
  \A s \in Sessions :
    /\ IsFiniteSet(UsersOf(fm, s)) /\ IsFiniteSet(HoldersOf(fm, s))
    /\ S[s].ref = Cardinality(UsersOf(fm, s)) + Cardinality(HoldersOf(fm, s))

SessLinks(fm, S) ==
  \A x \in Slots : /\ HasRef(fm[x]) \/ Owns(fm[x]) => S[fm[x].s].list = fm[x].list
                   /\ HasRef(fm[x]) => fm[x].c \in {NoCtx, S[fm[x].s].ctx}

SessOwners(fm, S, K) ==
  /\ \A x, y \in Slots : Owns(fm[x]) /\ Owns(fm[y]) /\ fm[x].s = fm[y].s => x = y
  /\ K \subseteq Sessions
  /\ \A s \in K : S[s].list = Nsec /\ \A x \in Slots : Owns(fm[x]) => fm[x].s # s
  /\ \A s \in Sessions : S[s].unlink => \E x \in Slots : fm[x].s = s /\ fm[x].pc = "unlinkwait"

SessInv(fm, S, K) ==
  /\ S \in [Sessions -> SessRec]
  /\ \A s \in Sessions : S[s].ctx = NoCtx <=> S[s].list = NoCtx
  /\ SessRefs(fm, S) /\ SessLinks(fm, S) /\ SessOwners(fm, S, K)

(* Contexts.                                                               *)
CtxRec == [uuid : Uuids \cup {NoUuid}, linked : BOOLEAN, busy : BOOLEAN, ref : Nat,
           panicked : BOOLEAN]

SessOf(S, c) == {s \in Sessions : S[s].ctx = c}
DropsOf(f, c) == f.op = "close" /\ f.c = c /\ f.pc \in {"clear", "deref"}
DroppersOf(fm, c) == {x \in Slots : DropsOf(fm[x], c)}

CtxRefs(fm, S, C) ==
  \A c \in Ctxs :
    /\ IsFiniteSet(SessOf(S, c)) /\ IsFiniteSet(DroppersOf(fm, c))
    /\ C[c].ref = Cardinality(SessOf(S, c)) + Cardinality(DroppersOf(fm, c))

CtxLinks(fm, S, C) ==
  /\ \A c \in Ctxs : /\ ~C[c].linked => C[c].ref = 0
                     /\ C[c].uuid = NoUuid => C[c] = FreeCtx
                     /\ C[c].uuid \in SingleInstance \ MultiSession => C[c].ref <= 1
  /\ \A x \in Slots : fm[x].pc = "destroy" => /\ ~C[fm[x].c].linked
                                              /\ C[fm[x].c].uuid # NoUuid
  /\ \A x, y \in Slots :
       fm[x].pc = "destroy" /\ fm[y].pc = "destroy" /\ fm[x].c = fm[y].c => x = y
  /\ \A s \in Sessions : S[s].list \in Ctxs => C[S[s].list].uuid # NoUuid
  /\ \A c, d \in Ctxs : (/\ C[c].linked /\ C[d].linked /\ C[c].uuid = C[d].uuid
                         /\ C[c].uuid \in SingleInstance) => c = d

CtxInv(fm, S, C) == C \in [Ctxs -> CtxRec] /\ CtxRefs(fm, S, C) /\ CtxLinks(fm, S, C)

(* The busy flags and the single-instance lock.                            *)
InsideOf(f, c) == Inside(f) /\ f.c = c
InsidersOf(fm, c) == {x \in Slots : InsideOf(fm[x], c)}
Locks(f, C) == Inside(f) /\ C[f.c].uuid \in SingleInstance
LockersOf(fm, C) == {x \in Slots : Locks(fm[x], C)}

BusyInv(fm, C) ==
  \A c \in Ctxs : IsFiniteSet(InsidersOf(fm, c)) /\ Cardinality(InsidersOf(fm, c)) = B(C[c].busy)

LockInv(fm, C, st, sn) ==
  /\ st \in Threads \cup {NoThread} /\ sn \in Nat
  /\ IsFiniteSet(LockersOf(fm, C)) /\ sn = Cardinality(LockersOf(fm, C))
  /\ \A x \in LockersOf(fm, C) : x[1] = st
  /\ sn = 0 <=> st = NoThread

AllInv(fm, S, C, K, st, sn) ==
  /\ StackInv(fm) /\ SessInv(fm, S, K) /\ CtxInv(fm, S, C) /\ BusyInv(fm, C)
  /\ LockInv(fm, C, st, sn)

(* The inductive invariant.                                                *)
TaInv == /\ stack \in [Threads -> Seq(FrameRec)] /\ crashed \in BOOLEAN
         /\ AllInv(fr, sess, ctx, known, siThread, siCount)

-----------------------------------------------------------------------------
(* Counting: of two finite sets that differ in x at most.                  *)
LEMMA CountStep ==
  ASSUME NEW S, NEW T, NEW x, IsFiniteSet(S), S \ {x} = T \ {x}
  PROVE  /\ IsFiniteSet(T) /\ Cardinality(S) \in Nat /\ Cardinality(T) \in Nat
         /\ Cardinality(T) = Cardinality(S) + B(x \in T) - B(x \in S)
<1> DEFINE R == S \ {x}
<1>1. IsFiniteSet(R) /\ Cardinality(R) \in Nat
  BY FS_Subset, FS_CardinalityType
<1>2. x \notin R
  OBVIOUS
<1>3. IsFiniteSet(R \cup {x}) /\ Cardinality(R \cup {x}) = Cardinality(R) + 1
  BY <1>1, <1>2, FS_AddElement
<1>4. (x \in S => S = R \cup {x}) /\ (x \notin S => S = R)
  OBVIOUS
<1>5. (x \in T => T = R \cup {x}) /\ (x \notin T => T = R)
  OBVIOUS
<1> HIDE DEF R
<1>6. IsFiniteSet(S) /\ Cardinality(S) = Cardinality(R) + B(x \in S)
  <2>1. CASE x \in S
    <3>1. S = R \cup {x} /\ B(x \in S) = 1
      BY <1>4, <2>1 DEF B
    <3> QED BY <1>3, <3>1
  <2>2. CASE x \notin S
    BY <1>1, <1>4, <2>2 DEF B
  <2> QED BY <2>1, <2>2
<1>7. IsFiniteSet(T) /\ Cardinality(T) = Cardinality(R) + B(x \in T)
  <2>1. CASE x \in T
    <3>1. T = R \cup {x} /\ B(x \in T) = 1
      BY <1>5, <2>1 DEF B
    <3> QED BY <1>3, <3>1
  <2>2. CASE x \notin T
    BY <1>1, <1>5, <2>2 DEF B
  <2> QED BY <2>1, <2>2
<1>8. B(x \in S) \in 0..1 /\ B(x \in T) \in 0..1
  BY DEF B
<1> QED BY <1>1, <1>6, <1>7, <1>8

(* A finite set that is empty, and one that is not.                        *)
LEMMA CountFacts ==
  ASSUME NEW S, IsFiniteSet(S)
  PROVE  /\ Cardinality(S) \in Nat
         /\ Cardinality(S) = 0 <=> S = {}
         /\ \A x, y \in S : Cardinality(S) = 1 => x = y
<1>1. Cardinality(S) \in Nat /\ (Cardinality(S) = 0 <=> S = {})
  BY FS_CardinalityType, FS_EmptySet
<1>2. ASSUME NEW x \in S, NEW y \in S, Cardinality(S) = 1 PROVE x = y
  BY <1>2, FS_Singleton
<1> QED BY <1>1, <1>2

(* A step that changes the call in x to g: the counts of calls.            *)
Changes(fm, x, g, gm) ==
  x \in Slots /\ fm = [y \in Slots |-> fm[y]] /\ gm = [fm EXCEPT ![x] = g]

LEMMA SlotStep ==
  ASSUME NEW fm, NEW x, NEW g, NEW gm, Changes(fm, x, g, gm)
  PROVE  gm = [y \in Slots |-> gm[y]] /\ gm[x] = g /\ \A y \in Slots \ {x} : gm[y] = fm[y]
BY DEF Changes

LEMMA UsersStep ==
  ASSUME NEW fm, NEW x \in Slots, NEW g, NEW gm, Changes(fm, x, g, gm), NEW s, IsFiniteSet(UsersOf(fm, s))
  PROVE  /\ IsFiniteSet(UsersOf(gm, s)) /\ Cardinality(UsersOf(gm, s)) \in Nat
         /\ Cardinality(UsersOf(fm, s)) \in Nat
         /\ Cardinality(UsersOf(gm, s))
            = Cardinality(UsersOf(fm, s)) + B(UserOf(g, s)) - B(UserOf(fm[x], s))
<1>1. gm[x] = g /\ \A y \in Slots \ {x} : gm[y] = fm[y]
  BY SlotStep
<1>2. UsersOf(fm, s) \ {x} = UsersOf(gm, s) \ {x}
  BY <1>1 DEF UsersOf
<1>3. (x \in UsersOf(fm, s) <=> UserOf(fm[x], s)) /\ (x \in UsersOf(gm, s) <=> UserOf(g, s))
  BY <1>1 DEF UsersOf
<1>4. B(x \in UsersOf(fm, s)) = B(UserOf(fm[x], s)) /\ B(x \in UsersOf(gm, s)) = B(UserOf(g, s))
  BY <1>3 DEF B
<1> QED BY <1>2, <1>4, CountStep

LEMMA HoldersStep ==
  ASSUME NEW fm, NEW x \in Slots, NEW g, NEW gm, Changes(fm, x, g, gm), NEW s, IsFiniteSet(HoldersOf(fm, s))
  PROVE  /\ IsFiniteSet(HoldersOf(gm, s)) /\ Cardinality(HoldersOf(gm, s)) \in Nat
         /\ Cardinality(HoldersOf(fm, s)) \in Nat
         /\ Cardinality(HoldersOf(gm, s))
            = Cardinality(HoldersOf(fm, s)) + B(HolderOf(g, s)) - B(HolderOf(fm[x], s))
<1>1. gm[x] = g /\ \A y \in Slots \ {x} : gm[y] = fm[y]
  BY SlotStep
<1>2. HoldersOf(fm, s) \ {x} = HoldersOf(gm, s) \ {x}
  BY <1>1 DEF HoldersOf
<1>3. (x \in HoldersOf(fm, s) <=> HolderOf(fm[x], s)) /\ (x \in HoldersOf(gm, s) <=> HolderOf(g, s))
  BY <1>1 DEF HoldersOf
<1>4. B(x \in HoldersOf(fm, s)) = B(HolderOf(fm[x], s)) /\ B(x \in HoldersOf(gm, s)) = B(HolderOf(g, s))
  BY <1>3 DEF B
<1> QED BY <1>2, <1>4, CountStep

LEMMA DroppersStep ==
  ASSUME NEW fm, NEW x \in Slots, NEW g, NEW gm, Changes(fm, x, g, gm), NEW c, IsFiniteSet(DroppersOf(fm, c))
  PROVE  /\ IsFiniteSet(DroppersOf(gm, c)) /\ Cardinality(DroppersOf(gm, c)) \in Nat
         /\ Cardinality(DroppersOf(fm, c)) \in Nat
         /\ Cardinality(DroppersOf(gm, c))
            = Cardinality(DroppersOf(fm, c)) + B(DropsOf(g, c)) - B(DropsOf(fm[x], c))
<1>1. gm[x] = g /\ \A y \in Slots \ {x} : gm[y] = fm[y]
  BY SlotStep
<1>2. DroppersOf(fm, c) \ {x} = DroppersOf(gm, c) \ {x}
  BY <1>1 DEF DroppersOf
<1>3. (x \in DroppersOf(fm, c) <=> DropsOf(fm[x], c)) /\ (x \in DroppersOf(gm, c) <=> DropsOf(g, c))
  BY <1>1 DEF DroppersOf
<1>4. B(x \in DroppersOf(fm, c)) = B(DropsOf(fm[x], c)) /\ B(x \in DroppersOf(gm, c)) = B(DropsOf(g, c))
  BY <1>3 DEF B
<1> QED BY <1>2, <1>4, CountStep

LEMMA InsidersStep ==
  ASSUME NEW fm, NEW x \in Slots, NEW g, NEW gm, Changes(fm, x, g, gm), NEW c, IsFiniteSet(InsidersOf(fm, c))
  PROVE  /\ IsFiniteSet(InsidersOf(gm, c)) /\ Cardinality(InsidersOf(gm, c)) \in Nat
         /\ Cardinality(InsidersOf(fm, c)) \in Nat
         /\ Cardinality(InsidersOf(gm, c))
            = Cardinality(InsidersOf(fm, c)) + B(InsideOf(g, c)) - B(InsideOf(fm[x], c))
<1>1. gm[x] = g /\ \A y \in Slots \ {x} : gm[y] = fm[y]
  BY SlotStep
<1>2. InsidersOf(fm, c) \ {x} = InsidersOf(gm, c) \ {x}
  BY <1>1 DEF InsidersOf
<1>3. (x \in InsidersOf(fm, c) <=> InsideOf(fm[x], c)) /\ (x \in InsidersOf(gm, c) <=> InsideOf(g, c))
  BY <1>1 DEF InsidersOf
<1>4. B(x \in InsidersOf(fm, c)) = B(InsideOf(fm[x], c)) /\ B(x \in InsidersOf(gm, c)) = B(InsideOf(g, c))
  BY <1>3 DEF B
<1> QED BY <1>2, <1>4, CountStep

-----------------------------------------------------------------------------
(* What a step has to show of the call f in x that becomes g, for each     *)
(* part of the invariant.                                                  *)
LEMMA StackStep ==
  ASSUME NEW fm, StackInv(fm), NEW t \in Threads, NEW n \in Nat \ {0}, NEW g,
         GoodFrame(g), fm[<<t, n + 1>>] = Gone, g = Gone \/ CalledFrom(fm, t, n, g.list)
  PROVE  StackInv([fm EXCEPT ![<<t, n>>] = g])
<1> DEFINE gm == [fm EXCEPT ![<<t, n>>] = g]
<1>1. <<t, n>> \in Slots /\ \A u \in Threads, m \in Nat \ {0} : <<u, m>> \in Slots
  BY DEF Slots
<1>2. gm = [y \in Slots |-> gm[y]] /\ gm[<<t, n>>] = g
  BY <1>1 DEF StackInv
<1>3. \A u \in Threads, m \in Nat \ {0} : u # t \/ m # n => gm[<<u, m>>] = fm[<<u, m>>]
  BY <1>1 DEF StackInv
<1>4. \A y \in Slots : y = <<t, n>> \/ gm[y] = fm[y]
  BY <1>1 DEF StackInv
<1> HIDE DEF gm
<1>5. \A y \in Slots : GoodFrame(gm[y])
  BY <1>2, <1>4 DEF StackInv
<1>6. ASSUME NEW u \in Threads, NEW m \in Nat \ {0}, gm[<<u, m>>] # Gone
      PROVE  CalledFrom(gm, u, m, gm[<<u, m>>].list)
  <2>1. CASE u = t /\ m = n
    <3>1. CalledFrom(fm, t, n, g.list)
      BY <1>2, <1>6, <2>1
    <3>2. n > 1 => gm[<<t, n - 1>>] = fm[<<t, n - 1>>]
      BY <1>3
    <3> QED BY <1>2, <2>1, <3>1, <3>2 DEF CalledFrom
  <2>2. CASE ~(u = t /\ m = n)
    <3>1. gm[<<u, m>>] = fm[<<u, m>>]
      BY <1>3, <2>2
    <3>2. CalledFrom(fm, u, m, gm[<<u, m>>].list)
      BY <1>6, <3>1 DEF StackInv
    <3>3. ~(u = t /\ m = n + 1)
      BY <1>6, <3>1
    <3>4. m > 1 => gm[<<u, m - 1>>] = fm[<<u, m - 1>>]
      BY <1>3, <3>3
    <3> QED BY <3>2, <3>4 DEF CalledFrom
  <2> QED BY <2>1, <2>2
<1> QED BY <1>2, <1>5, <1>6 DEF StackInv, gm

(* The sessions, from S to T, and what the normal world knows, K to L.     *)
SessMoves(f, g, S, T) ==
  \A s \in Sessions :
    /\ T[s] \in SessRec
    /\ T[s].ctx = NoCtx <=> T[s].list = NoCtx
    /\ T[s].ref = S[s].ref + B(UserOf(g, s)) - B(UserOf(f, s))
                           + B(HolderOf(g, s)) - B(HolderOf(f, s))
    /\ T[s].unlink => \/ S[s].unlink /\ ~(f.pc = "unlinkwait" /\ f.s = s)
                      \/ g.pc = "unlinkwait" /\ g.s = s

LinkMoves(fm, x, g, S, T) ==
  /\ \A s \in Sessions : \/ T[s].list = S[s].list /\ T[s].ctx = S[s].ctx
                         \/ \A y \in Slots \ {x} : HasRef(fm[y]) \/ Owns(fm[y]) => fm[y].s # s
  /\ HasRef(g) \/ Owns(g) => T[g.s].list = g.list
  /\ HasRef(g) => g.c \in {NoCtx, T[g.s].ctx}

OwnerMoves(fm, x, g, T, K, L) ==
  /\ Owns(g) => \/ Owns(fm[x]) /\ fm[x].s = g.s
                \/ \A y \in Slots \ {x} : Owns(fm[y]) => fm[y].s # g.s
  /\ \A s \in L : /\ s \in Sessions /\ T[s].list = Nsec
                  /\ s \in K \/ (Owns(fm[x]) /\ fm[x].s = s)
                  /\ Owns(g) => g.s # s

LEMMA SessStep ==
  ASSUME NEW fm, StackInv(fm), NEW x \in Slots, NEW g, GoodFrame(g), NEW S, NEW T, NEW K, NEW L,
         SessInv(fm, S, K), T = [s \in Sessions |-> T[s]],
         SessMoves(fm[x], g, S, T), LinkMoves(fm, x, g, S, T), OwnerMoves(fm, x, g, T, K, L)
  PROVE  SessInv([fm EXCEPT ![x] = g], T, L)
<1> DEFINE gm == [fm EXCEPT ![x] = g]
<1>1. Changes(fm, x, g, gm)
  BY DEF StackInv, Changes
<1>2. gm = [y \in Slots |-> gm[y]] /\ gm[x] = g /\ \A y \in Slots \ {x} : gm[y] = fm[y]
  BY <1>1, SlotStep
<1>3. \A y \in Slots : HasRef(fm[y]) \/ Owns(fm[y]) => fm[y].s \in Sessions
  <2>1. ASSUME NEW y \in Slots, HasRef(fm[y]) \/ Owns(fm[y]) PROVE fm[y].s \in Sessions
    BY <2>1 DEF StackInv, GoodFrame, FrameOK, HasRef, Owns, Gone, ClosePcs
  <2> QED BY <2>1
<1>4. HasRef(g) \/ Owns(g) => g.s \in Sessions
  BY DEF GoodFrame, FrameOK, HasRef, Owns, Gone, ClosePcs
<1> HIDE DEF gm
<1>5. SessRefs(gm, T)
  <2>1. ASSUME NEW s \in Sessions
        PROVE  /\ IsFiniteSet(UsersOf(gm, s)) /\ IsFiniteSet(HoldersOf(gm, s))
               /\ T[s].ref = Cardinality(UsersOf(gm, s)) + Cardinality(HoldersOf(gm, s))
    <3>1. /\ IsFiniteSet(UsersOf(fm, s)) /\ IsFiniteSet(HoldersOf(fm, s))
          /\ S[s].ref = Cardinality(UsersOf(fm, s)) + Cardinality(HoldersOf(fm, s))
      BY DEF SessInv, SessRefs
    <3>2. /\ IsFiniteSet(UsersOf(gm, s)) /\ Cardinality(UsersOf(gm, s)) \in Nat
          /\ Cardinality(UsersOf(fm, s)) \in Nat
          /\ Cardinality(UsersOf(gm, s))
             = Cardinality(UsersOf(fm, s)) + B(UserOf(g, s)) - B(UserOf(fm[x], s))
      BY <1>1, <3>1, UsersStep
    <3>3. /\ IsFiniteSet(HoldersOf(gm, s)) /\ Cardinality(HoldersOf(gm, s)) \in Nat
          /\ Cardinality(HoldersOf(fm, s)) \in Nat
          /\ Cardinality(HoldersOf(gm, s))
             = Cardinality(HoldersOf(fm, s)) + B(HolderOf(g, s)) - B(HolderOf(fm[x], s))
      BY <1>1, <3>1, HoldersStep
    <3>4. T[s].ref = S[s].ref + B(UserOf(g, s)) - B(UserOf(fm[x], s))
                              + B(HolderOf(g, s)) - B(HolderOf(fm[x], s))
      BY DEF SessMoves
    <3>5. \A b : B(b) \in {0, 1}
      BY DEF B
    <3> QED BY <3>1, <3>2, <3>3, <3>4, <3>5
  <2> QED BY <2>1 DEF SessRefs
<1>6. SessLinks(gm, T)
  <2>1. ASSUME NEW y \in Slots
        PROVE  /\ HasRef(gm[y]) \/ Owns(gm[y]) => T[gm[y].s].list = gm[y].list
               /\ HasRef(gm[y]) => gm[y].c \in {NoCtx, T[gm[y].s].ctx}
    <3>1. CASE y = x
      BY <1>2, <3>1 DEF LinkMoves
    <3>2. CASE y # x
      <4>1. gm[y] = fm[y]
        BY <1>2, <3>2
      <4>2. /\ HasRef(fm[y]) \/ Owns(fm[y]) => S[fm[y].s].list = fm[y].list
            /\ HasRef(fm[y]) => fm[y].c \in {NoCtx, S[fm[y].s].ctx}
        BY DEF SessInv, SessLinks
      <4>3. HasRef(fm[y]) \/ Owns(fm[y])
            => T[fm[y].s].list = S[fm[y].s].list /\ T[fm[y].s].ctx = S[fm[y].s].ctx
        BY <1>3, <3>2 DEF LinkMoves
      <4> QED BY <4>1, <4>2, <4>3
    <3> QED BY <3>1, <3>2
  <2> QED BY <2>1 DEF SessLinks
<1>7. SessOwners(gm, T, L)
  <2>1. ASSUME NEW y \in Slots, NEW z \in Slots, Owns(gm[y]), Owns(gm[z]), gm[y].s = gm[z].s
        PROVE  y = z
    <3>1. \A p, q \in Slots : Owns(fm[p]) /\ Owns(fm[q]) /\ fm[p].s = fm[q].s => p = q
      BY DEF SessInv, SessOwners
    <3>2. CASE y # x /\ z # x
      BY <1>2, <2>1, <3>1, <3>2
    <3>3. CASE y = x /\ z # x
      BY <1>2, <2>1, <3>1, <3>3 DEF OwnerMoves
    <3>4. CASE y # x /\ z = x
      BY <1>2, <2>1, <3>1, <3>4 DEF OwnerMoves
    <3> QED BY <3>2, <3>3, <3>4
  <2>2. ASSUME NEW s \in L
        PROVE  /\ s \in Sessions /\ T[s].list = Nsec
               /\ \A y \in Slots : Owns(gm[y]) => gm[y].s # s
    <3>1. ASSUME NEW y \in Slots, Owns(gm[y]), gm[y].s = s PROVE FALSE
      <4>1. y # x
        BY <1>2, <3>1 DEF OwnerMoves
      <4>2. Owns(fm[y]) /\ fm[y].s = s
        BY <1>2, <3>1, <4>1
      <4>3. s \notin K
        BY <4>2 DEF SessInv, SessOwners
      <4>4. Owns(fm[x]) /\ fm[x].s = s
        BY <4>3 DEF OwnerMoves
      <4> QED BY <4>1, <4>2, <4>4 DEF SessInv, SessOwners
    <3> QED BY <3>1 DEF OwnerMoves
  <2>3. ASSUME NEW s \in Sessions, T[s].unlink
        PROVE  \E y \in Slots : gm[y].s = s /\ gm[y].pc = "unlinkwait"
    <3>1. CASE g.pc = "unlinkwait" /\ g.s = s
      BY <1>2, <3>1
    <3>2. CASE ~(g.pc = "unlinkwait" /\ g.s = s)
      <4>1. S[s].unlink /\ ~(fm[x].pc = "unlinkwait" /\ fm[x].s = s)
        BY <2>3, <3>2 DEF SessMoves
      <4>2. PICK y \in Slots : fm[y].s = s /\ fm[y].pc = "unlinkwait"
        BY <4>1 DEF SessInv, SessOwners
      <4> QED BY <1>2, <4>1, <4>2
    <3> QED BY <3>1, <3>2
  <2> QED BY <2>1, <2>2, <2>3 DEF SessOwners
<1>8. T \in [Sessions -> SessRec] /\ \A s \in Sessions : T[s].ctx = NoCtx <=> T[s].list = NoCtx
  BY DEF SessMoves
<1> QED BY <1>5, <1>6, <1>7, <1>8 DEF SessInv, gm

(* The contexts, from C to D, when only session r may get another context. *)
CtxMoves(f, g, r, S, T, C, D) ==
  /\ \A s \in Sessions \ {r} : T[s].ctx = S[s].ctx
  /\ \A c \in Ctxs :
       /\ D[c] \in CtxRec
       /\ D[c].ref = C[c].ref + B(r \in SessOf(T, c)) - B(r \in SessOf(S, c))
                              + B(DropsOf(g, c)) - B(DropsOf(f, c))
       /\ ~D[c].linked => D[c].ref = 0
       /\ D[c].uuid = NoUuid => D[c] = FreeCtx
       /\ D[c].uuid \in SingleInstance \ MultiSession => D[c].ref <= 1

CtxLinkMoves(fm, x, g, T, C, D) ==
  /\ \A y \in Slots \ {x} : fm[y].pc = "destroy" => /\ ~D[fm[y].c].linked
                                                    /\ D[fm[y].c].uuid # NoUuid
  /\ g.pc = "destroy" =>
       /\ ~D[g.c].linked /\ D[g.c].uuid # NoUuid
       /\ \/ fm[x].pc = "destroy" /\ fm[x].c = g.c
          \/ \A y \in Slots \ {x} : fm[y].pc = "destroy" => fm[y].c # g.c
  /\ \A s \in Sessions : T[s].list \in Ctxs => D[T[s].list].uuid # NoUuid
  /\ \A c \in Ctxs :
       D[c].linked /\ D[c].uuid \in SingleInstance =>
         \/ C[c].linked /\ D[c].uuid = C[c].uuid
         \/ \A d \in Ctxs \ {c} : ~(D[d].linked /\ D[d].uuid = D[c].uuid)

LEMMA CtxStep ==
  ASSUME NEW fm, NEW x, NEW g, NEW gm, Changes(fm, x, g, gm), NEW r, NEW S, NEW T, NEW C, NEW D,
         CtxInv(fm, S, C), D = [c \in Ctxs |-> D[c]],
         CtxMoves(fm[x], g, r, S, T, C, D), CtxLinkMoves(fm, x, g, T, C, D)
  PROVE  CtxInv(gm, T, D)
<1>1. x \in Slots /\ gm[x] = g /\ \A y \in Slots \ {x} : gm[y] = fm[y]
  BY SlotStep DEF Changes
<1>2. CtxRefs(gm, T, D)
  <2>1. ASSUME NEW c \in Ctxs
        PROVE  /\ IsFiniteSet(SessOf(T, c)) /\ IsFiniteSet(DroppersOf(gm, c))
               /\ D[c].ref = Cardinality(SessOf(T, c)) + Cardinality(DroppersOf(gm, c))
    <3>1. /\ IsFiniteSet(SessOf(S, c)) /\ IsFiniteSet(DroppersOf(fm, c))
          /\ C[c].ref = Cardinality(SessOf(S, c)) + Cardinality(DroppersOf(fm, c))
      BY DEF CtxInv, CtxRefs
    <3>2. SessOf(S, c) \ {r} = SessOf(T, c) \ {r}
      BY DEF SessOf, CtxMoves
    <3>3. /\ IsFiniteSet(SessOf(T, c)) /\ Cardinality(SessOf(S, c)) \in Nat
          /\ Cardinality(SessOf(T, c)) \in Nat
          /\ Cardinality(SessOf(T, c))
             = Cardinality(SessOf(S, c)) + B(r \in SessOf(T, c)) - B(r \in SessOf(S, c))
      BY <3>1, <3>2, CountStep
    <3>4. /\ IsFiniteSet(DroppersOf(gm, c)) /\ Cardinality(DroppersOf(gm, c)) \in Nat
          /\ Cardinality(DroppersOf(fm, c)) \in Nat
          /\ Cardinality(DroppersOf(gm, c))
             = Cardinality(DroppersOf(fm, c)) + B(DropsOf(g, c)) - B(DropsOf(fm[x], c))
      BY <1>1, <3>1, DroppersStep
    <3>5. D[c].ref = C[c].ref + B(r \in SessOf(T, c)) - B(r \in SessOf(S, c))
                              + B(DropsOf(g, c)) - B(DropsOf(fm[x], c))
      BY DEF CtxMoves
    <3>6. \A b : B(b) \in {0, 1}
      BY DEF B
    <3> QED BY <3>1, <3>3, <3>4, <3>5, <3>6
  <2> QED BY <2>1 DEF CtxRefs
<1>3. \A c \in Ctxs : /\ ~D[c].linked => D[c].ref = 0
                      /\ D[c].uuid = NoUuid => D[c] = FreeCtx
                      /\ D[c].uuid \in SingleInstance \ MultiSession => D[c].ref <= 1
  BY DEF CtxMoves
<1>4. ASSUME NEW y \in Slots, gm[y].pc = "destroy"
      PROVE  ~D[gm[y].c].linked /\ D[gm[y].c].uuid # NoUuid
  BY <1>1, <1>4 DEF CtxLinkMoves
<1>5. ASSUME NEW y \in Slots, NEW z \in Slots, gm[y].pc = "destroy", gm[z].pc = "destroy",
             gm[y].c = gm[z].c
      PROVE  y = z
  <2>1. \A p, q \in Slots :
          fm[p].pc = "destroy" /\ fm[q].pc = "destroy" /\ fm[p].c = fm[q].c => p = q
    BY DEF CtxInv, CtxLinks
  <2>2. CASE y # x /\ z # x
    BY <1>1, <1>5, <2>1, <2>2
  <2>3. CASE y = x /\ z # x
    BY <1>1, <1>5, <2>1, <2>3 DEF CtxLinkMoves
  <2>4. CASE y # x /\ z = x
    BY <1>1, <1>5, <2>1, <2>4 DEF CtxLinkMoves
  <2> QED BY <2>2, <2>3, <2>4
<1>6. ASSUME NEW c \in Ctxs, NEW d \in Ctxs, D[c].linked, D[d].linked, D[c].uuid = D[d].uuid,
             D[c].uuid \in SingleInstance
      PROVE  c = d
  <2>1. \A a, b \in Ctxs : (/\ C[a].linked /\ C[b].linked /\ C[a].uuid = C[b].uuid
                            /\ C[a].uuid \in SingleInstance) => a = b
    BY DEF CtxInv, CtxLinks
  <2> QED BY <1>6, <2>1 DEF CtxLinkMoves
<1>7. \A s \in Sessions : T[s].list \in Ctxs => D[T[s].list].uuid # NoUuid
  BY DEF CtxLinkMoves
<1>8. D \in [Ctxs -> CtxRec]
  BY DEF CtxMoves
<1>9. \A y \in Slots : gm[y].pc = "destroy" => ~D[gm[y].c].linked /\ D[gm[y].c].uuid # NoUuid
  BY <1>4
<1>10. \A y, z \in Slots :
         gm[y].pc = "destroy" /\ gm[z].pc = "destroy" /\ gm[y].c = gm[z].c => y = z
  BY <1>5
<1>11. \A c, d \in Ctxs : (/\ D[c].linked /\ D[d].linked /\ D[c].uuid = D[d].uuid
                           /\ D[c].uuid \in SingleInstance) => c = d
  BY <1>6
<1>12. CtxLinks(gm, T, D)
  BY <1>3, <1>7, <1>9, <1>10, <1>11, Zenon DEF CtxLinks
<1> QED BY <1>2, <1>8, <1>12 DEF CtxInv

(* The busy flags.                                                         *)
BusyMoves(f, g, C, D) ==
  \A c \in Ctxs : B(D[c].busy) = B(C[c].busy) + B(InsideOf(g, c)) - B(InsideOf(f, c))

LEMMA BusyStep ==
  ASSUME NEW fm, NEW x, NEW g, NEW gm, Changes(fm, x, g, gm), NEW C, NEW D,
         BusyInv(fm, C), BusyMoves(fm[x], g, C, D)
  PROVE  BusyInv(gm, D)
<1>1. ASSUME NEW c \in Ctxs
      PROVE  /\ IsFiniteSet(InsidersOf(gm, c))
             /\ Cardinality(InsidersOf(gm, c)) = B(D[c].busy)
  <2>1. x \in Slots
    BY DEF Changes
  <2>2. IsFiniteSet(InsidersOf(fm, c)) /\ Cardinality(InsidersOf(fm, c)) = B(C[c].busy)
    BY DEF BusyInv
  <2>3. /\ IsFiniteSet(InsidersOf(gm, c))
        /\ Cardinality(InsidersOf(gm, c))
           = Cardinality(InsidersOf(fm, c)) + B(InsideOf(g, c)) - B(InsideOf(fm[x], c))
    BY <2>1, <2>2, InsidersStep
  <2>4. B(D[c].busy) = B(C[c].busy) + B(InsideOf(g, c)) - B(InsideOf(fm[x], c))
    BY DEF BusyMoves
  <2>5. Cardinality(InsidersOf(gm, c)) = B(D[c].busy)
    BY <2>2, <2>3, <2>4, Zenon
  <2> QED BY <2>3, <2>5
<1> QED BY <1>1 DEF BusyInv

(* The single-instance lock, of thread st with count sn, then tt with tn.  *)
LockMoves(fm, x, g, C, D, st, sn, tt, tn) ==
  /\ \A y \in Slots \ {x} : Locks(fm[y], D) <=> Locks(fm[y], C)
  /\ tt \in Threads \cup {NoThread}
  /\ tn = sn + B(Locks(g, D)) - B(Locks(fm[x], C))
  /\ Locks(g, D) => tt = x[1]
  /\ tt = st \/ \A y \in Slots \ {x} : ~Locks(fm[y], C)
  /\ tn = 0 <=> tt = NoThread

LEMMA LockStep ==
  ASSUME NEW fm, NEW x, NEW g, NEW gm, Changes(fm, x, g, gm), NEW C, NEW D,
         NEW st, NEW sn, NEW tt, NEW tn,
         LockInv(fm, C, st, sn), LockMoves(fm, x, g, C, D, st, sn, tt, tn)
  PROVE  LockInv(gm, D, tt, tn)
<1>1. x \in Slots /\ gm[x] = g /\ \A y \in Slots \ {x} : gm[y] = fm[y]
  BY SlotStep DEF Changes
<1>2. LockersOf(fm, C) \ {x} = LockersOf(gm, D) \ {x}
  BY <1>1 DEF LockersOf, LockMoves
<1>3. (x \in LockersOf(fm, C) <=> Locks(fm[x], C)) /\ (x \in LockersOf(gm, D) <=> Locks(g, D))
  BY <1>1 DEF LockersOf
<1>4. /\ B(x \in LockersOf(fm, C)) = B(Locks(fm[x], C))
      /\ B(x \in LockersOf(gm, D)) = B(Locks(g, D))
  BY <1>3 DEF B
<1>5. IsFiniteSet(LockersOf(fm, C)) /\ sn = Cardinality(LockersOf(fm, C))
  BY DEF LockInv
<1>6. /\ IsFiniteSet(LockersOf(gm, D)) /\ Cardinality(LockersOf(gm, D)) \in Nat
      /\ Cardinality(LockersOf(gm, D))
         = Cardinality(LockersOf(fm, C)) + B(Locks(g, D)) - B(Locks(fm[x], C))
  BY <1>2, <1>4, <1>5, CountStep
<1>7. tn = Cardinality(LockersOf(gm, D))
  BY <1>5, <1>6 DEF LockMoves
<1>8. ASSUME NEW y \in LockersOf(gm, D) PROVE y[1] = tt
  <2>1. CASE y = x
    BY <1>3, <1>8, <2>1 DEF LockMoves
  <2>2. CASE y # x
    <3>1. y \in LockersOf(fm, C)
      BY <1>2, <1>8, <2>2
    <3>2. y \in Slots \ {x} /\ Locks(fm[y], C) /\ y[1] = st
      BY <2>2, <3>1 DEF LockersOf, LockInv
    <3> QED BY <3>2 DEF LockMoves
  <2> QED BY <2>1, <2>2
<1> QED BY <1>6, <1>7, <1>8 DEF LockInv, LockMoves

-----------------------------------------------------------------------------
(* The steps on the stack of thread t are changes in one place, the n-th,  *)
(* above which there is nothing.                                           *)
Stacks == [Threads -> Seq(FrameRec)]

Shifts(t, n, g) == /\ n \in Nat \ {0} /\ <<t, n>> \in Slots /\ stack' \in Stacks
                   /\ fr[<<t, n + 1>>] = Gone /\ Changes(fr, <<t, n>>, g, fr')

LEMMA SlotFacts ==
  ASSUME stack \in Stacks, NEW t \in Threads
  PROVE  /\ stack[t] \in Seq(FrameRec) /\ Len(stack[t]) \in Nat
         /\ \A n \in Nat \ {0} :
              /\ <<t, n>> \in Slots
              /\ fr[<<t, n>>] = IF n <= Len(stack[t]) THEN stack[t][n] ELSE Gone
         /\ stack[t] # <<>> =>
              /\ Len(stack[t]) \in Nat \ {0} /\ Top(t) \in FrameRec
              /\ fr[<<t, Len(stack[t])>>] = Top(t)
<1>1. stack[t] \in Seq(FrameRec) /\ Len(stack[t]) \in Nat
  BY DEF Stacks
<1>2. ASSUME NEW n \in Nat \ {0}
      PROVE  /\ <<t, n>> \in Slots
             /\ fr[<<t, n>>] = IF n <= Len(stack[t]) THEN stack[t][n] ELSE Gone
  BY DEF Slots, fr
<1>3. ASSUME stack[t] # <<>>
      PROVE  /\ Len(stack[t]) \in Nat \ {0} /\ Top(t) \in FrameRec
             /\ fr[<<t, Len(stack[t])>>] = Top(t)
  <2>1. Len(stack[t]) \in Nat \ {0}
    BY <1>1, <1>3
  <2>2. Top(t) = stack[t][Len(stack[t])] /\ Top(t) \in FrameRec
    BY <1>1, <2>1 DEF Top, Last
  <2> QED BY <1>2, <2>1, <2>2
<1> QED BY <1>1, <1>2, <1>3

LEMMA SlotChange ==
  ASSUME stack \in Stacks, stack' \in Stacks, NEW t \in Threads, NEW n \in Nat \ {0}, NEW g,
         \A u \in Threads \ {t} : stack'[u] = stack[u],
         \A m \in Nat \ {0, n} : fr'[<<t, m>>] = fr[<<t, m>>],
         fr'[<<t, n>>] = g, fr[<<t, n + 1>>] = Gone
  PROVE  Shifts(t, n, g)
<1>1. <<t, n>> \in Slots /\ fr = [y \in Slots |-> fr[y]] /\ fr' = [y \in Slots |-> fr'[y]]
  BY DEF Slots, fr
<1>2. ASSUME NEW y \in Slots, y # <<t, n>> PROVE fr'[y] = fr[y]
  <2>1. PICK u \in Threads, m \in Nat \ {0} : y = <<u, m>>
    BY DEF Slots
  <2>2. CASE u = t
    BY <1>2, <2>1, <2>2
  <2>3. CASE u # t
    BY <2>1, <2>3 DEF fr
  <2> QED BY <2>2, <2>3
<1>3. fr' = [fr EXCEPT ![<<t, n>>] = g]
  BY <1>1, <1>2
<1> QED BY <1>1, <1>3 DEF Shifts, Changes

LEMMA BecomeLemma ==
  ASSUME stack \in Stacks, NEW t \in Threads, stack[t] # <<>>, NEW g \in FrameRec, Become(t, g)
  PROVE  Shifts(t, Len(stack[t]), g)
<1> DEFINE n == Len(stack[t])
<1>1. stack[t] \in Seq(FrameRec) /\ n \in Nat \ {0}
  BY SlotFacts
<1>2. stack' = [stack EXCEPT ![t] = Append(SubSeq(stack[t], 1, n - 1), g)]
  BY DEF Become, Front
<1>3. SubSeq(stack[t], 1, n - 1) \in Seq(FrameRec) /\ Len(SubSeq(stack[t], 1, n - 1)) = n - 1
  BY <1>1
<1>4. /\ stack'[t] \in Seq(FrameRec) /\ Len(stack'[t]) = n /\ stack'[t][n] = g
      /\ \A m \in 1..(n - 1) : stack'[t][m] = stack[t][m]
  BY <1>1, <1>2, <1>3 DEF Stacks
<1>5. stack' \in Stacks /\ \A u \in Threads \ {t} : stack'[u] = stack[u]
  BY <1>2, <1>4 DEF Stacks
<1> HIDE DEF n
<1>6. \A m \in Nat \ {0} : fr'[<<t, m>>] = IF m <= n THEN stack'[t][m] ELSE Gone
  BY <1>4 DEF fr, Slots
<1>7. \A m \in Nat \ {0} : fr[<<t, m>>] = IF m <= n THEN stack[t][m] ELSE Gone
  BY DEF fr, Slots, n
<1>8. \A m \in Nat \ {0, n} : fr'[<<t, m>>] = fr[<<t, m>>]
  BY <1>1, <1>4, <1>6, <1>7
<1>9. fr'[<<t, n>>] = g /\ fr[<<t, n + 1>>] = Gone
  BY <1>1, <1>4, <1>6, <1>7
<1>10. n \in Nat \ {0}
  BY <1>1
<1> QED BY <1>5, <1>8, <1>9, <1>10, SlotChange DEF n

LEMMA PushLemma ==
  ASSUME stack \in Stacks, NEW t \in Threads, NEW g \in FrameRec, Push(t, g)
  PROVE  /\ Shifts(t, Len(stack[t]) + 1, g) /\ fr[<<t, Len(stack[t]) + 1>>] = Gone
<1> DEFINE n == Len(stack[t]) + 1
<1>1. stack[t] \in Seq(FrameRec) /\ n \in Nat \ {0}
  BY DEF Stacks
<1>2. stack' = [stack EXCEPT ![t] = Append(stack[t], g)]
  BY DEF Push
<1>3. /\ stack'[t] \in Seq(FrameRec) /\ Len(stack'[t]) = n /\ stack'[t][n] = g
      /\ \A m \in 1..(n - 1) : stack'[t][m] = stack[t][m]
  BY <1>1, <1>2 DEF Stacks
<1>4. stack' \in Stacks /\ \A u \in Threads \ {t} : stack'[u] = stack[u]
  BY <1>2, <1>3 DEF Stacks
<1>5. \A m \in Nat \ {0} : fr'[<<t, m>>] = IF m <= n THEN stack'[t][m] ELSE Gone
  BY <1>3 DEF fr, Slots
<1>6. \A m \in Nat \ {0} : fr[<<t, m>>] = IF m <= n - 1 THEN stack[t][m] ELSE Gone
  BY <1>1 DEF fr, Slots
<1> HIDE DEF n
<1>7. \A m \in Nat \ {0, n} : fr'[<<t, m>>] = fr[<<t, m>>]
  BY <1>1, <1>3, <1>5, <1>6
<1>8. fr'[<<t, n>>] = g /\ fr[<<t, n + 1>>] = Gone /\ fr[<<t, n>>] = Gone
  BY <1>1, <1>3, <1>5, <1>6
<1>9. n \in Nat \ {0}
  BY <1>1
<1> QED BY <1>4, <1>7, <1>8, <1>9, SlotChange DEF n

LEMMA ReturnLemma ==
  ASSUME stack \in Stacks, NEW t \in Threads, stack[t] # <<>>, Return(t)
  PROVE  Shifts(t, Len(stack[t]), Gone)
<1> DEFINE n == Len(stack[t])
<1>1. stack[t] \in Seq(FrameRec) /\ n \in Nat \ {0}
  BY SlotFacts
<1>2. stack' = [stack EXCEPT ![t] = SubSeq(stack[t], 1, n - 1)]
  BY DEF Return, Front
<1>3. stack'[t] = SubSeq(stack[t], 1, n - 1)
  BY <1>2 DEF Stacks
<1>4. /\ stack'[t] \in Seq(FrameRec) /\ Len(stack'[t]) = n - 1
       /\ \A m \in 1..(n - 1) : stack'[t][m] = stack[t][m]
  BY <1>1, <1>3
<1>5. stack' \in Stacks /\ \A u \in Threads \ {t} : stack'[u] = stack[u]
  BY <1>2, <1>4 DEF Stacks
<1> HIDE DEF n
<1>6. \A m \in Nat \ {0} : fr'[<<t, m>>] = IF m <= n - 1 THEN stack'[t][m] ELSE Gone
  BY <1>4 DEF fr, Slots
<1>7. \A m \in Nat \ {0} : fr[<<t, m>>] = IF m <= n THEN stack[t][m] ELSE Gone
  BY DEF fr, Slots, n
<1>8. \A m \in Nat \ {0, n} : fr'[<<t, m>>] = fr[<<t, m>>]
  BY <1>1, <1>4, <1>6, <1>7
<1>9. fr'[<<t, n>>] = Gone /\ fr[<<t, n + 1>>] = Gone
  BY <1>1, <1>6, <1>7
<1>10. n \in Nat \ {0}
  BY <1>1
<1> QED BY <1>5, <1>8, <1>9, <1>10, SlotChange DEF n

-----------------------------------------------------------------------------
(* Steps that leave a part of the invariant alone.                         *)

(* The call goes on with the references it has; a call that is new comes   *)
(* to a session nobody owns.                                               *)
SameRefs(f, g) == /\ HasRef(g) <=> HasRef(f)
                  /\ g.held <=> f.held
                  /\ HasRef(f) \/ f.held => g.s = f.s
                  /\ f.pc = "unlinkwait" => g.pc = "unlinkwait" /\ g.s = f.s

SameSess(S, T) == /\ T = [s \in Sessions |-> T[s]]
                  /\ \A s \in Sessions : /\ T[s] \in SessRec
                                         /\ T[s].ctx = S[s].ctx /\ T[s].list = S[s].list
                                         /\ T[s].ref = S[s].ref /\ T[s].unlink = S[s].unlink

LEMMA SessQuiet ==
  ASSUME NEW fm, NEW x \in Slots, NEW g, NEW S, NEW T, NEW K, NEW L, StackInv(fm), GoodFrame(g),
         SessInv(fm, S, K), SameSess(S, T), SameRefs(fm[x], g), L \subseteq K,
         HasRef(g) => g.list = fm[x].list /\ g.c \in {NoCtx, fm[x].c, S[g.s].ctx},
         Owns(g) => \/ Owns(fm[x]) /\ g.s = fm[x].s /\ g.list = fm[x].list
                    \/ /\ S[g.s].list = g.list /\ g.s \notin L
                       /\ \A y \in Slots \ {x} : Owns(fm[y]) => fm[y].s # g.s
  PROVE  /\ SessMoves(fm[x], g, S, T) /\ LinkMoves(fm, x, g, S, T)
         /\ OwnerMoves(fm, x, g, T, K, L)
<1>1. \A y \in Slots : HasRef(fm[y]) \/ Owns(fm[y]) => fm[y].s \in Sessions
  <2>1. ASSUME NEW y \in Slots, HasRef(fm[y]) \/ Owns(fm[y]) PROVE fm[y].s \in Sessions
    BY <2>1 DEF StackInv, GoodFrame, FrameOK, HasRef, Owns, Gone, ClosePcs
  <2> QED BY <2>1
<1>2. HasRef(g) \/ Owns(g) => g.s \in Sessions
  BY DEF GoodFrame, FrameOK, HasRef, Owns, Gone, ClosePcs
<1>3. /\ S \in [Sessions -> SessRec]
      /\ \A s \in Sessions : S[s].ctx = NoCtx <=> S[s].list = NoCtx
      /\ HasRef(fm[x]) \/ Owns(fm[x]) => S[fm[x].s].list = fm[x].list
      /\ HasRef(fm[x]) => fm[x].c \in {NoCtx, S[fm[x].s].ctx}
      /\ \A s \in K : s \in Sessions /\ S[s].list = Nsec
      /\ \A s \in K : Owns(fm[x]) => fm[x].s # s
  BY DEF SessInv, SessLinks, SessOwners
<1>4. ASSUME NEW s \in Sessions
      PROVE  B(UserOf(g, s)) = B(UserOf(fm[x], s)) /\ B(HolderOf(g, s)) = B(HolderOf(fm[x], s))
  BY DEF SameRefs, UserOf, HolderOf, B
<1>5. \A b : B(b) \in {0, 1}
  BY DEF B
<1>6. SessMoves(fm[x], g, S, T)
  <2>1. ASSUME NEW s \in Sessions
        PROVE  /\ T[s] \in SessRec
               /\ T[s].ctx = NoCtx <=> T[s].list = NoCtx
               /\ T[s].ref = S[s].ref + B(UserOf(g, s)) - B(UserOf(fm[x], s))
                                      + B(HolderOf(g, s)) - B(HolderOf(fm[x], s))
               /\ T[s].unlink => \/ S[s].unlink /\ ~(fm[x].pc = "unlinkwait" /\ fm[x].s = s)
                                 \/ g.pc = "unlinkwait" /\ g.s = s
    <3>1. /\ T[s] \in SessRec /\ T[s].ctx = S[s].ctx /\ T[s].list = S[s].list
          /\ T[s].ref = S[s].ref /\ T[s].unlink = S[s].unlink
      BY DEF SameSess
    <3>2. S[s].ref \in Nat
      BY <1>3 DEF SessRec
    <3>3. T[s].ref = S[s].ref + B(UserOf(g, s)) - B(UserOf(fm[x], s))
                              + B(HolderOf(g, s)) - B(HolderOf(fm[x], s))
      BY <1>4, <1>5, <3>1, <3>2
    <3>4. T[s].unlink => \/ S[s].unlink /\ ~(fm[x].pc = "unlinkwait" /\ fm[x].s = s)
                         \/ g.pc = "unlinkwait" /\ g.s = s
      BY <3>1 DEF SameRefs
    <3> QED BY <1>3, <3>1, <3>3, <3>4
  <2> QED BY <2>1 DEF SessMoves
<1>7. LinkMoves(fm, x, g, S, T)
  <2>1. HasRef(g) \/ Owns(g) => S[g.s].list = g.list
    BY <1>3 DEF SameRefs
  <2>2. HasRef(g) => g.c \in {NoCtx, S[g.s].ctx}
    BY <1>3 DEF SameRefs
  <2> QED BY <1>2, <2>1, <2>2 DEF LinkMoves, SameSess
<1>8. OwnerMoves(fm, x, g, T, K, L)
  BY <1>3 DEF OwnerMoves, SameSess
<1> QED BY <1>6, <1>7, <1>8

SameDrops(f, g) == /\ \A c \in Ctxs : DropsOf(g, c) <=> DropsOf(f, c)
                   /\ g.pc = "destroy" => f.pc = "destroy" /\ g.c = f.c

SameCtx(C, D) == /\ D = [c \in Ctxs |-> D[c]]
                 /\ \A c \in Ctxs : /\ D[c] \in CtxRec
                                    /\ D[c].uuid = C[c].uuid /\ D[c].linked = C[c].linked
                                    /\ D[c].ref = C[c].ref
                                    /\ D[c].uuid = NoUuid => D[c] = FreeCtx

LEMMA CtxQuiet ==
  ASSUME NEW fm, NEW x \in Slots, NEW g, NEW S, NEW T, NEW C, NEW D, StackInv(fm), GoodFrame(g),
         CtxInv(fm, S, C), SameDrops(fm[x], g), SameCtx(C, D),
         \A s \in Sessions : T[s].ctx = S[s].ctx /\ T[s].list = S[s].list
  PROVE  CtxMoves(fm[x], g, NoSess, S, T, C, D) /\ CtxLinkMoves(fm, x, g, T, C, D)
<1>1. \A y \in Slots : fm[y].pc = "destroy" => fm[y].c \in Ctxs
  <2>1. ASSUME NEW y \in Slots, fm[y].pc = "destroy" PROVE fm[y].c \in Ctxs
    BY <2>1 DEF StackInv, GoodFrame, FrameOK, Gone, EnteredPcs
  <2> QED BY <2>1
<1>2. CtxMoves(fm[x], g, NoSess, S, T, C, D)
  <2>1. ASSUME NEW c \in Ctxs
        PROVE  D[c].ref = C[c].ref + B(NoSess \in SessOf(T, c)) - B(NoSess \in SessOf(S, c))
                                   + B(DropsOf(g, c)) - B(DropsOf(fm[x], c))
    <3>1. D[c].ref = C[c].ref /\ C[c].ref \in Nat
      BY DEF SameCtx, CtxInv, CtxRec
    <3>2. B(NoSess \in SessOf(T, c)) = 0 /\ B(NoSess \in SessOf(S, c)) = 0
      BY NoneAssumption DEF SessOf, B
    <3>3. B(DropsOf(g, c)) = B(DropsOf(fm[x], c)) /\ B(DropsOf(g, c)) \in {0, 1}
      BY DEF SameDrops, B
    <3> QED BY <3>1, <3>2, <3>3
  <2>2. \A c \in Ctxs : /\ D[c] \in CtxRec
                        /\ ~D[c].linked => D[c].ref = 0
                        /\ D[c].uuid = NoUuid => D[c] = FreeCtx
                        /\ D[c].uuid \in SingleInstance \ MultiSession => D[c].ref <= 1
    BY DEF SameCtx, CtxInv, CtxLinks
  <2> QED BY <2>1, <2>2 DEF CtxMoves
<1>3. CtxLinkMoves(fm, x, g, T, C, D)
  <2>1. \A y \in Slots : fm[y].pc = "destroy" => ~D[fm[y].c].linked /\ D[fm[y].c].uuid # NoUuid
    BY <1>1 DEF CtxInv, CtxLinks, SameCtx
  <2>2. g.pc = "destroy" => ~D[g.c].linked /\ D[g.c].uuid # NoUuid /\ fm[x].pc = "destroy"
                            /\ fm[x].c = g.c
    BY <2>1 DEF SameDrops
  <2>3. \A s \in Sessions : T[s].list \in Ctxs => D[T[s].list].uuid # NoUuid
    BY DEF CtxInv, CtxLinks, SameCtx
  <2>4. \A c \in Ctxs : D[c].linked /\ D[c].uuid \in SingleInstance =>
                          C[c].linked /\ D[c].uuid = C[c].uuid
    BY DEF SameCtx
  <2> QED BY <2>1, <2>2, <2>3, <2>4 DEF CtxLinkMoves
<1> QED BY <1>2, <1>3

SameInside(f, g) == (Inside(g) <=> Inside(f)) /\ (Inside(f) => g.c = f.c)

LEMMA BusyQuiet ==
  ASSUME NEW fm, NEW x \in Slots, NEW g, NEW C, NEW D, NEW st, NEW sn, StackInv(fm),
         GoodFrame(g), SameInside(fm[x], g), BusyInv(fm, C), LockInv(fm, C, st, sn),
         \A c \in Ctxs : D[c].busy = C[c].busy /\ D[c].uuid = C[c].uuid
  PROVE  BusyMoves(fm[x], g, C, D) /\ LockMoves(fm, x, g, C, D, st, sn, st, sn)
<1>1. \A y \in Slots : Inside(fm[y]) => fm[y].c \in Ctxs
  <2>1. ASSUME NEW y \in Slots, Inside(fm[y]) PROVE fm[y].c \in Ctxs
    BY <2>1 DEF StackInv, GoodFrame, FrameOK, Gone, EnteredPcs, Inside
  <2> QED BY <2>1
<1>2. ASSUME NEW c \in Ctxs
      PROVE  B(D[c].busy) = B(C[c].busy) + B(InsideOf(g, c)) - B(InsideOf(fm[x], c))
  BY DEF SameInside, InsideOf, B
<1>3. \A y \in Slots : Locks(fm[y], D) <=> Locks(fm[y], C)
  BY <1>1 DEF Locks
<1>4. Locks(g, D) <=> Locks(fm[x], C)
  BY <1>3 DEF Locks, SameInside
<1>5. Locks(fm[x], C) => st = x[1]
  BY DEF LockInv, LockersOf
<1>6. B(Locks(g, D)) = B(Locks(fm[x], C)) /\ B(Locks(g, D)) \in {0, 1} /\ sn \in Nat
  BY <1>4 DEF B, LockInv
<1>7. sn = sn + B(Locks(g, D)) - B(Locks(fm[x], C))
  BY <1>6
<1>8. st \in Threads \cup {NoThread} /\ (sn = 0 <=> st = NoThread)
  BY DEF LockInv
<1> QED BY <1>2, <1>3, <1>4, <1>5, <1>7, <1>8 DEF BusyMoves, LockMoves

-----------------------------------------------------------------------------
(* The parts put together: the n-th call of t becomes g.                   *)
LEMMA TakeStep ==
  ASSUME TaInv, NEW t \in Threads, NEW n, NEW g, Shifts(t, n, g), GoodFrame(g),
         g = Gone \/ CalledFrom(fr, t, n, g.list), NEW r,
         sess' = [s \in Sessions |-> sess'[s]], ctx' = [c \in Ctxs |-> ctx'[c]],
         SessMoves(fr[<<t, n>>], g, sess, sess'), LinkMoves(fr, <<t, n>>, g, sess, sess'),
         OwnerMoves(fr, <<t, n>>, g, sess', known, known'),
         CtxMoves(fr[<<t, n>>], g, r, sess, sess', ctx, ctx'),
         CtxLinkMoves(fr, <<t, n>>, g, sess', ctx, ctx'),
         BusyMoves(fr[<<t, n>>], g, ctx, ctx'),
         LockMoves(fr, <<t, n>>, g, ctx, ctx', siThread, siCount, siThread', siCount'),
         crashed' \in BOOLEAN
  PROVE  TaInv'
<1> DEFINE x == <<t, n>>
<1>1. /\ n \in Nat \ {0} /\ x \in Slots /\ stack' \in Stacks /\ fr[<<t, n + 1>>] = Gone
      /\ Changes(fr, x, g, fr') /\ fr' = [fr EXCEPT ![x] = g]
  BY DEF Shifts, Changes
<1>2. /\ StackInv(fr) /\ SessInv(fr, sess, known) /\ CtxInv(fr, sess, ctx)
      /\ BusyInv(fr, ctx) /\ LockInv(fr, ctx, siThread, siCount)
  BY DEF TaInv, AllInv
<1>3. StackInv(fr')
  BY <1>1, <1>2, StackStep
<1>4. SessInv(fr', sess', known')
  BY <1>1, <1>2, SessStep
<1>5. CtxInv(fr', sess', ctx')
  BY <1>1, <1>2, CtxStep
<1>6. BusyInv(fr', ctx')
  BY <1>1, <1>2, BusyStep
<1>7. LockInv(fr', ctx', siThread', siCount')
  BY <1>1, <1>2, LockStep
<1> QED BY <1>1, <1>3, <1>4, <1>5, <1>6, <1>7 DEF TaInv, AllInv, Stacks

(* A context that a session or a call needs has a reference.               *)
LEMMA NeededCtx ==
  ASSUME NEW fm, NEW S, NEW C, NEW K, StackInv(fm), SessInv(fm, S, K), CtxInv(fm, S, C)
  PROVE  /\ \A s \in Sessions : S[s].ctx \in Ctxs =>
              /\ C[S[s].ctx].ref >= 1 /\ C[S[s].ctx].linked /\ C[S[s].ctx].uuid # NoUuid
         /\ \A y \in Slots : fm[y].c \in Ctxs =>
              /\ C[fm[y].c].uuid # NoUuid
              /\ fm[y].pc # "destroy" => C[fm[y].c].ref >= 1 /\ C[fm[y].c].linked
<1>1. ASSUME NEW c \in Ctxs, SessOf(S, c) # {} \/ DroppersOf(fm, c) # {}
      PROVE  C[c].ref >= 1 /\ C[c].linked /\ C[c].uuid # NoUuid
  <2>1. /\ IsFiniteSet(SessOf(S, c)) /\ IsFiniteSet(DroppersOf(fm, c))
        /\ C[c].ref = Cardinality(SessOf(S, c)) + Cardinality(DroppersOf(fm, c))
    BY DEF CtxInv, CtxRefs
  <2>2. /\ Cardinality(SessOf(S, c)) \in Nat /\ (Cardinality(SessOf(S, c)) = 0 <=> SessOf(S, c) = {})
    BY <2>1, CountFacts
  <2>3. /\ Cardinality(DroppersOf(fm, c)) \in Nat
        /\ (Cardinality(DroppersOf(fm, c)) = 0 <=> DroppersOf(fm, c) = {})
    BY <2>1, CountFacts
  <2>4. C[c].ref >= 1
    BY <1>1, <2>1, <2>2, <2>3
  <2>5. C[c].linked /\ C[c] # FreeCtx
    BY <2>4 DEF CtxInv, CtxLinks, CtxRec, FreeCtx
  <2> QED BY <2>4, <2>5 DEF CtxInv, CtxLinks
<1>2. ASSUME NEW s \in Sessions, S[s].ctx \in Ctxs
      PROVE  C[S[s].ctx].ref >= 1 /\ C[S[s].ctx].linked /\ C[S[s].ctx].uuid # NoUuid
  <2>1. s \in SessOf(S, S[s].ctx)
    BY DEF SessOf
  <2> QED BY <1>1, <1>2, <2>1
<1>3. ASSUME NEW y \in Slots, fm[y].c \in Ctxs
      PROVE  /\ C[fm[y].c].uuid # NoUuid
             /\ fm[y].pc # "destroy" => C[fm[y].c].ref >= 1 /\ C[fm[y].c].linked
  <2>1. fm[y] # Gone /\ FrameOK(fm[y]) /\ fm[y] \in FrameRec
    BY <1>3, NoneAssumption DEF StackInv, GoodFrame, Gone
  <2>2. CASE HasRef(fm[y])
    <3>1. fm[y].s \in Sessions /\ S[fm[y].s].ctx = fm[y].c
      BY <1>3, <2>1, <2>2, NoneAssumption DEF SessInv, SessLinks, HasRef, FrameOK
    <3> QED BY <1>2, <1>3, <3>1
  <2>3. CASE fm[y].pc = "destroy"
    BY <2>3 DEF CtxInv, CtxLinks
  <2>4. CASE ~HasRef(fm[y]) /\ fm[y].pc # "destroy"
    <3>1. DropsOf(fm[y], fm[y].c)
      BY <1>3, <2>1, <2>4, NoneAssumption
         DEF HasRef, FrameOK, DropsOf, FrameRec, Ops, OpenPcs, InvokePcs, ClosePcs, CancelPcs
    <3>2. y \in DroppersOf(fm, fm[y].c)
      BY <3>1 DEF DroppersOf
    <3> QED BY <1>1, <1>3, <3>2
  <2> QED BY <2>2, <2>3, <2>4
<1> QED BY <1>2, <1>3

(* Only one call at a time works on the sessions of a TA: the one made     *)
(* where that TA runs, or is destroyed.                                    *)
LEMMA SoleCall ==
  ASSUME NEW fm, NEW S, NEW C, NEW K, StackInv(fm), SessInv(fm, S, K), CtxInv(fm, S, C),
         BusyInv(fm, C), NEW x \in Slots, NEW y \in Slots,
         fm[x].pc \in {"run", "destroy"}, fm[y].pc \in {"run", "destroy"},
         fm[x].c \in Ctxs, fm[x].c = fm[y].c
  PROVE  x = y
<1>1. CASE fm[x].pc = "destroy" /\ fm[y].pc = "destroy"
  BY <1>1 DEF CtxInv, CtxLinks
<1>2. CASE fm[x].pc = "run" /\ fm[y].pc = "run"
  <2> DEFINE c == fm[x].c
  <2>1. x \in InsidersOf(fm, c) /\ y \in InsidersOf(fm, c)
    BY <1>2 DEF InsidersOf, InsideOf, Inside
  <2>2. IsFiniteSet(InsidersOf(fm, c)) /\ Cardinality(InsidersOf(fm, c)) \in {0, 1}
    BY DEF BusyInv, B
  <2> HIDE DEF c
  <2> QED BY <2>1, <2>2, CountFacts
<1>3. ASSUME NEW p \in Slots, NEW q \in Slots, fm[p].pc = "run", fm[q].pc = "destroy",
             fm[p].c \in Ctxs, fm[p].c = fm[q].c
      PROVE  FALSE
  <2>1. C[fm[p].c].linked
    BY <1>3, NeededCtx
  <2>2. ~C[fm[q].c].linked
    BY <1>3 DEF CtxInv, CtxLinks
  <2> QED BY <1>3, <2>1, <2>2
<1> QED BY <1>1, <1>2, <1>3

LEMMA SoleList ==
  ASSUME NEW fm, NEW S, NEW C, NEW K, StackInv(fm), SessInv(fm, S, K), CtxInv(fm, S, C),
         BusyInv(fm, C), NEW t \in Threads, NEW n \in Nat \ {0},
         fm[<<t, n>>].pc \in {"run", "destroy"}, fm[<<t, n>>].c \in Ctxs,
         NEW y \in Slots, fm[y] # Gone, fm[y].list = fm[<<t, n>>].c
  PROVE  y = <<t, n + 1>>
<1>1. PICK u \in Threads, m \in Nat \ {0} : y = <<u, m>>
  BY DEF Slots
<1>2. CalledFrom(fm, u, m, fm[y].list)
  BY <1>1 DEF StackInv
<1>3. m > 1 /\ fm[<<u, m - 1>>].pc \in {"run", "destroy"} /\ fm[y].list = fm[<<u, m - 1>>].c
  BY <1>2, NoneAssumption DEF CalledFrom
<1>4. m - 1 \in Nat \ {0} /\ <<t, n>> \in Slots /\ <<u, m - 1>> \in Slots
  BY <1>3 DEF Slots
<1>5. <<t, n>> = <<u, m - 1>>
  BY <1>3, <1>4, SoleCall
<1> QED BY <1>1, <1>4, <1>5

-----------------------------------------------------------------------------
(* What the invariant says of the call on top.                             *)
LEMMA TopFacts ==
  ASSUME TaInv, NEW t \in Threads, stack[t] # <<>>
  PROVE  LET n == Len(stack[t])
             f == Top(t)
         IN /\ stack \in Stacks /\ n \in Nat \ {0} /\ <<t, n>> \in Slots
            /\ fr[<<t, n>>] = f /\ f \in FrameRec /\ FrameOK(f) /\ f # Gone
            /\ CalledFrom(fr, t, n, f.list)
            /\ HasRef(f) \/ Owns(f) => /\ f.s \in Sessions /\ sess[f.s].list = f.list
                                       /\ sess[f.s].ctx \in Ctxs
            /\ HasRef(f) => f.c \in {NoCtx, sess[f.s].ctx}
            /\ f.c \in Ctxs => /\ ctx[f.c].uuid # NoUuid
                               /\ f.pc # "destroy" => ctx[f.c].ref >= 1 /\ ctx[f.c].linked
<1>1. /\ StackInv(fr) /\ SessInv(fr, sess, known) /\ CtxInv(fr, sess, ctx) /\ stack \in Stacks
  BY DEF TaInv, AllInv, Stacks
<1> DEFINE n == Len(stack[t])
           f == Top(t)
<1>2. n \in Nat \ {0} /\ <<t, n>> \in Slots /\ fr[<<t, n>>] = f /\ f \in FrameRec
  BY <1>1, SlotFacts
<1>3. f # Gone
  BY <1>2 DEF FrameRec, Gone, Ops
<1>4. FrameOK(f) /\ CalledFrom(fr, t, n, f.list)
  BY <1>1, <1>2, <1>3 DEF StackInv, GoodFrame
<1>5. HasRef(f) \/ Owns(f) => f.s \in Sessions
  BY <1>4 DEF HasRef, Owns, FrameOK, ClosePcs
<1>6. HasRef(f) \/ Owns(f) => sess[f.s].list = f.list
  BY <1>1, <1>2 DEF SessInv, SessLinks
<1>7. f.list # NoCtx
  BY <1>2, NoneAssumption DEF FrameRec
<1>8. HasRef(f) \/ Owns(f) => sess[f.s].ctx \in Ctxs
  BY <1>1, <1>5, <1>6, <1>7 DEF SessInv, SessRec
<1>9. HasRef(f) => f.c \in {NoCtx, sess[f.s].ctx}
  BY <1>1, <1>2 DEF SessInv, SessLinks
<1>10. f.c \in Ctxs => /\ ctx[f.c].uuid # NoUuid
                       /\ f.pc # "destroy" => ctx[f.c].ref >= 1 /\ ctx[f.c].linked
  BY <1>1, <1>2, NeededCtx
<1> QED BY <1>1, <1>2, <1>3, <1>4, <1>5, <1>6, <1>8, <1>9, <1>10

LEMMA SameLemma ==
  ASSUME TaInv
  PROVE  SameSess(sess, sess) /\ SameCtx(ctx, ctx)
         /\ sess = [s \in Sessions |-> sess[s]] /\ ctx = [c \in Ctxs |-> ctx[c]]
<1>1. sess \in [Sessions -> SessRec] /\ ctx \in [Ctxs -> CtxRec]
  BY DEF TaInv, AllInv, SessInv, CtxInv
<1>2. \A c \in Ctxs : ctx[c].uuid = NoUuid => ctx[c] = FreeCtx
  BY DEF TaInv, AllInv, CtxInv, CtxLinks
<1> QED BY <1>1, <1>2 DEF SameSess, SameCtx

(* A step that counts nothing.                                             *)
LEMMA QuietStep ==
  ASSUME TaInv, NEW t \in Threads, NEW n, NEW f, NEW g, Shifts(t, n, g), fr[<<t, n>>] = f,
         GoodFrame(g), g = Gone \/ CalledFrom(fr, t, n, g.list),
         SameSess(sess, sess'), SameCtx(ctx, ctx'), \A c \in Ctxs : ctx'[c].busy = ctx[c].busy,
         SameRefs(f, g), SameDrops(f, g), SameInside(f, g), known' \subseteq known,
         HasRef(g) => g.list = f.list /\ g.c \in {NoCtx, f.c, sess[g.s].ctx},
         Owns(g) => \/ Owns(f) /\ g.s = f.s /\ g.list = f.list
                    \/ /\ sess[g.s].list = g.list /\ g.s \notin known'
                       /\ \A y \in Slots \ {<<t, n>>} : Owns(fr[y]) => fr[y].s # g.s,
         UNCHANGED <<siThread, siCount>>, crashed' \in BOOLEAN
  PROVE  TaInv'
<1> DEFINE x == <<t, n>>
<1>1. /\ StackInv(fr) /\ SessInv(fr, sess, known) /\ CtxInv(fr, sess, ctx)
      /\ BusyInv(fr, ctx) /\ LockInv(fr, ctx, siThread, siCount)
  BY DEF TaInv, AllInv
<1>2. x \in Slots
  BY DEF Shifts
<1>3. /\ sess' = [s \in Sessions |-> sess'[s]] /\ ctx' = [c \in Ctxs |-> ctx'[c]]
      /\ \A s \in Sessions : sess'[s].ctx = sess[s].ctx /\ sess'[s].list = sess[s].list
      /\ \A c \in Ctxs : ctx'[c].busy = ctx[c].busy /\ ctx'[c].uuid = ctx[c].uuid
  BY DEF SameSess, SameCtx
<1> HIDE DEF x
<1>4. /\ SessMoves(f, g, sess, sess') /\ LinkMoves(fr, x, g, sess, sess')
      /\ OwnerMoves(fr, x, g, sess', known, known')
  <2>1. /\ fr[x] = f
        /\ Owns(g) => \/ Owns(f) /\ g.s = f.s /\ g.list = f.list
                      \/ /\ sess[g.s].list = g.list /\ g.s \notin known'
                         /\ \A y \in Slots \ {x} : Owns(fr[y]) => fr[y].s # g.s
    BY DEF x
  <2> QED BY <1>1, <1>2, <2>1, SessQuiet
<1>5. CtxMoves(f, g, NoSess, sess, sess', ctx, ctx') /\ CtxLinkMoves(fr, x, g, sess', ctx, ctx')
  <2>1. fr[x] = f
    BY DEF x
  <2> QED BY <1>1, <1>2, <1>3, <2>1, CtxQuiet
<1>6. BusyMoves(f, g, ctx, ctx') /\ LockMoves(fr, x, g, ctx, ctx', siThread, siCount, siThread, siCount)
  <2>1. fr[x] = f
    BY DEF x
  <2> QED BY <1>1, <1>2, <1>3, <2>1, BusyQuiet
<1>7. LockMoves(fr, x, g, ctx, ctx', siThread, siCount, siThread', siCount')
  BY <1>6
<1> QED BY <1>3, <1>4, <1>5, <1>6, <1>7, TakeStep DEF x

(* The call on top goes on, with the session and the references it has.    *)
LEMMA GoOn ==
  ASSUME TaInv, NEW t \in Threads, stack[t] # <<>>, NEW f, f = Top(t), NEW g \in FrameRec,
         Become(t, g), FrameOK(g), g.s = f.s, g.list = f.list,
         SameSess(sess, sess'), SameCtx(ctx, ctx'), \A c \in Ctxs : ctx'[c].busy = ctx[c].busy,
         SameRefs(f, g), SameDrops(f, g), SameInside(f, g), Owns(g) => Owns(f),
         g.c = f.c \/ g.c = sess[f.s].ctx,
         UNCHANGED <<siThread, siCount, crashed, known>>
  PROVE  TaInv'
<1> DEFINE n == Len(stack[t])
<1>1. /\ stack \in Stacks /\ n \in Nat \ {0} /\ <<t, n>> \in Slots /\ fr[<<t, n>>] = f
      /\ CalledFrom(fr, t, n, f.list)
  BY TopFacts
<1>2. Shifts(t, n, g)
  BY <1>1, BecomeLemma
<1>3. GoodFrame(g) /\ CalledFrom(fr, t, n, g.list) /\ crashed' \in BOOLEAN /\ known' \subseteq known
  BY <1>1 DEF GoodFrame, TaInv
<1> HIDE DEF n
<1> QED BY <1>1, <1>2, <1>3, QuietStep

-----------------------------------------------------------------------------
(* The actions.                                                            *)
LEMMA ChecksPanicStep ==
  ASSUME TaInv, NEW t \in Threads, open_checks_panic(t)
  PROVE  TaInv'
<1>1. PICK f : f = Top(t)
  OBVIOUS
<1>2. /\ stack[t] # <<>> /\ f.pc = "opened" /\ f \in FrameRec /\ FrameOK(f)
      /\ UNCHANGED <<siThread, siCount, ctx, sess, crashed, known>>
  BY <1>1, TopFacts DEF open_checks_panic, At, unchangedCore
<1>3. ctx[f.c].panicked \in BOOLEAN
  BY <1>2 DEF FrameOK, EnteredPcs, TaInv, AllInv, CtxInv, CtxRec
<1>4. PICK g : g = [f EXCEPT !.pc = "put", !.bad = f.bad \/ ctx[f.c].panicked]
  OBVIOUS
<1>5. Become(t, g)
  BY <1>1, <1>4 DEF open_checks_panic
<1>6. /\ g \in FrameRec /\ g.pc = "put" /\ g.op = f.op /\ g.s = f.s /\ g.c = f.c
      /\ g.list = f.list /\ g.kern = f.kern /\ g.held = f.held
  BY <1>2, <1>3, <1>4 DEF FrameRec, PCs
<1>7. f.op = "open" /\ ~f.held /\ ~f.kern
  BY <1>2 DEF FrameOK, FrameRec, Ops, InvokePcs, ClosePcs, CancelPcs
<1>8. FrameOK(g)
  BY <1>2, <1>6, <1>7 DEF FrameOK, OpenPcs, EnteredPcs
<1>9. SameRefs(f, g) /\ SameDrops(f, g) /\ SameInside(f, g) /\ (Owns(g) => Owns(f))
  BY <1>2, <1>6, <1>7 DEF SameRefs, SameDrops, SameInside, Owns, HasRef, DropsOf, Inside
<1>10. SameSess(sess, sess') /\ SameCtx(ctx, ctx') /\ \A c \in Ctxs : ctx'[c].busy = ctx[c].busy
  BY <1>2, SameLemma
<1> QED BY <1>1, <1>2, <1>5, <1>6, <1>8, <1>9, <1>10, GoOn

LEMMA CloseEntryStep ==
  ASSUME TaInv, NEW t \in Threads, close_entry(t)
  PROVE  TaInv'
<1>1. PICK f : f = Top(t)
  OBVIOUS
<1>2. /\ stack[t] # <<>> /\ f.pc = "closing" /\ f \in FrameRec /\ FrameOK(f)
      /\ UNCHANGED <<siThread, siCount, ctx, sess, crashed, known>>
  BY <1>1, TopFacts DEF close_entry, At, unchangedCore
<1>3. PICK p : p = IF ctx[f.c].panicked THEN "unlink" ELSE "run"
  OBVIOUS
<1>4. PICK g : g = [f EXCEPT !.pc = p]
  OBVIOUS
<1>5. Become(t, g) /\ p \in {"unlink", "run"}
  BY <1>1, <1>3, <1>4 DEF close_entry, Goto
<1>6. /\ g \in FrameRec /\ g.pc = p /\ g.op = f.op /\ g.s = f.s /\ g.c = f.c
      /\ g.list = f.list /\ g.kern = f.kern /\ g.held = f.held
  BY <1>2, <1>4, <1>5 DEF FrameRec, PCs
<1>7. f.op = "close"
  BY <1>2 DEF FrameOK, FrameRec, Ops, InvokePcs, OpenPcs, CancelPcs
<1>8. FrameOK(g)
  BY <1>2, <1>5, <1>6, <1>7 DEF FrameOK, ClosePcs, EnteredPcs
<1>9. SameRefs(f, g) /\ SameDrops(f, g) /\ SameInside(f, g) /\ (Owns(g) => Owns(f))
  BY <1>2, <1>5, <1>6, <1>7 DEF SameRefs, SameDrops, SameInside, Owns, HasRef, DropsOf, Inside
<1>10. SameSess(sess, sess') /\ SameCtx(ctx, ctx') /\ \A c \in Ctxs : ctx'[c].busy = ctx[c].busy
  BY <1>2, SameLemma
<1> QED BY <1>1, <1>2, <1>5, <1>6, <1>8, <1>9, <1>10, GoOn

(* One session gets another value in fields that count nothing.            *)
LEMMA SessField ==
  ASSUME TaInv, NEW s \in Sessions, NEW v \in SessRec, sess' = [sess EXCEPT ![s] = v],
         v.ctx = sess[s].ctx, v.list = sess[s].list, v.ref = sess[s].ref,
         v.unlink = sess[s].unlink
  PROVE  SameSess(sess, sess')
BY DEF TaInv, AllInv, SessInv, SameSess

LEMMA TaEndsStep ==
  ASSUME TaInv, NEW t \in Threads, TaEnds(t)
  PROVE  TaInv'
<1>1. PICK f : f = Top(t)
  OBVIOUS
<1>2. PICK ok \in BOOLEAN : Become(t, AfterRun(f, ok))
  BY <1>1, Zenon DEF TaEnds, ta_returns, ta_panics
<1>3. /\ stack[t] # <<>> /\ f.pc = "run" /\ f \in FrameRec /\ FrameOK(f) /\ f.s \in Sessions
      /\ f.c \in Ctxs
  BY <1>1, TopFacts DEF TaEnds, ta_returns, ta_panics, At, FrameOK, EnteredPcs
<1>4. UNCHANGED <<siThread, siCount, crashed, known>>
  BY DEF TaEnds, ta_returns, ta_panics
<1>5. sess' = [sess EXCEPT ![f.s].cancel = FALSE]
  BY <1>1 DEF TaEnds, ta_returns, ta_panics
<1>6. SameSess(sess, sess')
  <2>1. sess[f.s] \in SessRec
    BY <1>3 DEF TaInv, AllInv, SessInv
  <2>2. PICK v : v = [sess[f.s] EXCEPT !.cancel = FALSE]
    OBVIOUS
  <2>3. sess' = [sess EXCEPT ![f.s] = v]
    BY <1>5, <2>2
  <2>4. /\ v \in SessRec /\ v.ctx = sess[f.s].ctx /\ v.list = sess[f.s].list
        /\ v.ref = sess[f.s].ref /\ v.unlink = sess[f.s].unlink
    BY <2>1, <2>2 DEF SessRec
  <2> QED BY <1>3, <2>3, <2>4, SessField
<1>7. SameCtx(ctx, ctx') /\ \A c \in Ctxs : ctx'[c].busy = ctx[c].busy
  <2>1. CASE ctx' = ctx
    BY <2>1, SameLemma
  <2>2. CASE ctx' = [ctx EXCEPT ![f.c].panicked = TRUE]
    <3>1. ctx \in [Ctxs -> CtxRec]
      BY DEF TaInv, AllInv, CtxInv
    <3>2. ctx[f.c].uuid # NoUuid
      BY <1>1, <1>3, TopFacts
    <3>3. \A c \in Ctxs : ctx[c].uuid = NoUuid => ctx[c] = FreeCtx
      BY DEF TaInv, AllInv, CtxInv, CtxLinks
    <3> QED BY <1>3, <2>2, <3>1, <3>2, <3>3 DEF SameCtx, CtxRec
  <2> QED BY <1>1, <2>1, <2>2 DEF TaEnds, ta_returns, ta_panics
<1>8. PICK p : p = IF f.op = "close" THEN "unlink" ELSE "clear"
  OBVIOUS
<1>9. PICK g : g = [f EXCEPT !.pc = p, !.bad = ~ok]
  OBVIOUS
<1>10. Become(t, g)
  BY <1>2, <1>8, <1>9 DEF AfterRun
<1>11. /\ g \in FrameRec /\ g.pc = p /\ g.op = f.op /\ g.s = f.s /\ g.c = f.c
       /\ g.list = f.list /\ g.kern = f.kern /\ g.held = f.held
  BY <1>3, <1>8, <1>9 DEF FrameRec, PCs
<1>12. f.op # "cancel"
  BY <1>3 DEF FrameOK, CancelPcs
<1>13. FrameOK(g)
  BY <1>3, <1>8, <1>11, <1>12 DEF FrameOK, OpenPcs, InvokePcs, ClosePcs, EnteredPcs
<1>14. SameRefs(f, g) /\ SameDrops(f, g) /\ SameInside(f, g) /\ (Owns(g) => Owns(f))
  BY <1>3, <1>8, <1>11 DEF SameRefs, SameDrops, SameInside, Owns, HasRef, DropsOf, Inside
<1> QED BY <1>1, <1>3, <1>4, <1>6, <1>7, <1>10, <1>11, <1>13, <1>14, GoOn

LEMMA CheckCallStep ==
  ASSUME TaInv, NEW t \in Threads, check_call(t)
  PROVE  TaInv'
<1>1. PICK f : f = Top(t)
  OBVIOUS
<1>2. /\ stack[t] # <<>> /\ f.pc = "check" /\ f \in FrameRec /\ FrameOK(f) /\ f.s \in Sessions
      /\ UNCHANGED <<siThread, siCount, ctx, crashed, known>>
  BY <1>1, TopFacts DEF check_call, At, FrameOK
<1>3. HasRef(f) /\ sess[f.s].ctx \in Ctxs /\ f.c = NoCtx
  BY <1>1, <1>2, TopFacts DEF HasRef, FrameOK
<1>4. SameCtx(ctx, ctx') /\ \A c \in Ctxs : ctx'[c].busy = ctx[c].busy
  BY <1>2, SameLemma
<1>5. ASSUME Goto(t, "put"), SameSess(sess, sess'), ~f.kern PROVE TaInv'
  <2>1. PICK g : g = [f EXCEPT !.pc = "put"]
    OBVIOUS
  <2>2. Become(t, g)
    BY <1>1, <1>5, <2>1 DEF Goto
  <2>3. /\ g \in FrameRec /\ g.pc = "put" /\ g.op = f.op /\ g.s = f.s /\ g.c = f.c
        /\ g.list = f.list /\ g.kern = f.kern /\ g.held = f.held
    BY <1>2, <2>1 DEF FrameRec, PCs
  <2>4. f.op # "open" /\ ~f.held
    BY <1>2, <1>5 DEF FrameOK, OpenPcs
  <2>5. FrameOK(g)
    BY <1>2, <1>5, <2>3, <2>4 DEF FrameOK, ClosePcs, InvokePcs, CancelPcs, EnteredPcs
  <2>6. SameRefs(f, g) /\ SameDrops(f, g) /\ SameInside(f, g) /\ (Owns(g) => Owns(f))
    BY <1>2, <2>3, <2>4 DEF SameRefs, SameDrops, SameInside, Owns, HasRef, DropsOf, Inside
  <2> QED BY <1>1, <1>2, <1>4, <1>5, <2>2, <2>3, <2>5, <2>6, GoOn
<1>6. CASE f.op = "cancel"
  <2>1. sess' = [sess EXCEPT ![f.s].cancel = @ \/ check_client(f)] /\ Goto(t, "put")
    BY <1>1, <1>6 DEF check_call
  <2>2. SameSess(sess, sess')
    <3>1. sess[f.s] \in SessRec
      BY <1>2 DEF TaInv, AllInv, SessInv
    <3>2. sess[f.s].cancel \in BOOLEAN
      BY <3>1 DEF SessRec
    <3>3. PICK b \in BOOLEAN : b = (sess[f.s].cancel \/ check_client(f))
      BY Zenon
    <3>4. PICK v : v = [sess[f.s] EXCEPT !.cancel = b]
      OBVIOUS
    <3>5. sess' = [sess EXCEPT ![f.s] = v]
      BY <2>1, <3>3, <3>4
    <3>6. /\ v \in SessRec /\ v.ctx = sess[f.s].ctx /\ v.list = sess[f.s].list
          /\ v.ref = sess[f.s].ref /\ v.unlink = sess[f.s].unlink
      BY <3>1, <3>4 DEF SessRec
    <3> QED BY <1>2, <3>5, <3>6, SessField
  <2>3. ~f.kern
    BY <1>2, <1>6 DEF FrameOK
  <2> QED BY <1>5, <2>1, <2>2, <2>3
<1>7. CASE f.op # "cancel"
  <2>1. sess' = sess
    BY <1>1, <1>7 DEF check_call
  <2>2. SameSess(sess, sess')
    BY <2>1, SameLemma
  <2>3. CASE Goto(t, "put") /\ (CopyParamMayFail(f) \/ ~check_client(f)
                                \/ (f.op = "invoke" /\ ctx[sess[f.s].ctx].panicked))
    <3>1. ~f.kern
      BY <1>2, <2>3 DEF FrameOK, CopyParamMayFail, check_client
    <3> QED BY <1>5, <2>2, <2>3, <3>1
  <2>4. CASE Become(t, [f EXCEPT !.pc = "busy", !.c = sess[f.s].ctx])
    <3>1. PICK g : g = [f EXCEPT !.pc = "busy", !.c = sess[f.s].ctx]
      OBVIOUS
    <3>2. Become(t, g)
      BY <2>4, <3>1
    <3>3. /\ g \in FrameRec /\ g.pc = "busy" /\ g.op = f.op /\ g.s = f.s /\ g.c = sess[f.s].ctx
          /\ g.list = f.list /\ g.kern = f.kern /\ g.held = f.held
      BY <1>2, <1>3, <3>1 DEF FrameRec, PCs
    <3>4. FrameOK(g)
      BY <1>2, <1>3, <1>7, <3>3 DEF FrameOK, ClosePcs, InvokePcs, OpenPcs, EnteredPcs
    <3>5. SameRefs(f, g) /\ SameDrops(f, g) /\ SameInside(f, g) /\ (Owns(g) => Owns(f))
      BY <1>2, <3>3 DEF SameRefs, SameDrops, SameInside, Owns, HasRef, DropsOf, Inside
    <3> QED BY <1>1, <1>2, <1>4, <2>2, <3>2, <3>3, <3>4, <3>5, GoOn
  <2> QED BY <1>1, <1>7, <2>3, <2>4 DEF check_call
<1> QED BY <1>6, <1>7

LEMMA StutterStep ==
  ASSUME TaInv, UNCHANGED <<siThread, siCount, ctx, sess, stack, known>>, crashed' \in BOOLEAN
  PROVE  TaInv'
<1>1. fr' = fr
  BY DEF fr
<1> QED BY <1>1 DEF TaInv

LEMMA BusyFailsStep ==
  ASSUME TaInv, NEW t \in Threads, set_busy_fails(t)
  PROVE  TaInv'
<1>1. PICK f : f = Top(t)
  OBVIOUS
<1>2. /\ stack[t] # <<>> /\ f.pc = "busy" /\ f \in FrameRec /\ FrameOK(f)
      /\ UNCHANGED <<siThread, siCount, ctx, sess, known>>
  BY <1>1, TopFacts DEF set_busy_fails, At, FrameOK
<1>3. CASE f.op # "open"
  <2>1. crashed' = TRUE /\ UNCHANGED stack
    BY <1>1, <1>3 DEF set_busy_fails
  <2> QED BY <1>2, <2>1, StutterStep
<1>4. CASE f.op = "open"
  <2>1. PICK g : g = [f EXCEPT !.pc = "opened", !.bad = TRUE]
    OBVIOUS
  <2>2. Become(t, g) /\ UNCHANGED crashed
    BY <1>1, <1>4, <2>1 DEF set_busy_fails
  <2>3. /\ g \in FrameRec /\ g.pc = "opened" /\ g.op = f.op /\ g.s = f.s /\ g.c = f.c
        /\ g.list = f.list /\ g.kern = f.kern /\ g.held = f.held
    BY <1>2, <2>1 DEF FrameRec, PCs
  <2>4. FrameOK(g)
    BY <1>2, <1>4, <2>3 DEF FrameOK, OpenPcs, EnteredPcs
  <2>5. SameRefs(f, g) /\ SameDrops(f, g) /\ SameInside(f, g) /\ (Owns(g) => Owns(f))
    BY <1>2, <1>4, <2>3 DEF SameRefs, SameDrops, SameInside, Owns, HasRef, DropsOf, Inside
  <2>6. SameSess(sess, sess') /\ SameCtx(ctx, ctx') /\ \A c \in Ctxs : ctx'[c].busy = ctx[c].busy
    BY <1>2, SameLemma
  <2> QED BY <1>1, <1>2, <2>2, <2>3, <2>4, <2>5, <2>6, GoOn
<1> QED BY <1>3, <1>4

(* A close finds its session, and nobody else is freeing it.               *)
LEMMA CloseFinds ==
  ASSUME TaInv, NEW x \in Slots, fr[x].op = "close", fr[x].pc \in {"get", "getwait"}
  PROVE  fr[x].s \in Sessions /\ Linked(fr[x]) /\ ~sess[fr[x].s].unlink
<1>1. StackInv(fr) /\ SessInv(fr, sess, known)
  BY DEF TaInv, AllInv
<1>2. fr[x] # Gone
  BY DEF Gone
<1>3. Owns(fr[x]) /\ fr[x].s \in Sessions
  BY <1>1, <1>2 DEF Owns, StackInv, GoodFrame, FrameOK
<1>4. ASSUME sess[fr[x].s].unlink PROVE FALSE
  <2>1. PICK y \in Slots : fr[y].s = fr[x].s /\ fr[y].pc = "unlinkwait"
    BY <1>1, <1>3, <1>4 DEF SessInv, SessOwners
  <2>2. fr[y] # Gone
    BY <2>1 DEF Gone
  <2>3. fr[y].op = "close"
    BY <1>1, <2>1, <2>2 DEF StackInv, GoodFrame, FrameOK, FrameRec, Ops, OpenPcs, InvokePcs,
                            CancelPcs
  <2>4. Owns(fr[y])
    BY <2>1, <2>3 DEF Owns
  <2>5. x = y
    BY <1>1, <1>3, <2>1, <2>4 DEF SessInv, SessOwners
  <2> QED BY <2>1, <2>5
<1>5. Linked(fr[x])
  BY <1>1, <1>3 DEF SessInv, SessLinks, Linked
<1> QED BY <1>3, <1>4, <1>5

(* A step that only counts references to sessions.                         *)
LEMMA RefStep ==
  ASSUME TaInv, NEW t \in Threads, NEW n, NEW f, NEW g, Shifts(t, n, g), fr[<<t, n>>] = f,
         GoodFrame(g), g = Gone \/ CalledFrom(fr, t, n, g.list),
         sess' = [s \in Sessions |-> sess'[s]], SessMoves(f, g, sess, sess'),
         \A s \in Sessions : sess'[s].ctx = sess[s].ctx /\ sess'[s].list = sess[s].list,
         HasRef(g) \/ Owns(g) => g.s \in Sessions /\ sess[g.s].list = g.list,
         HasRef(g) => g.c \in {NoCtx, sess[g.s].ctx},
         OwnerMoves(fr, <<t, n>>, g, sess', known, known'),
         SameDrops(f, g), SameInside(f, g), UNCHANGED <<ctx, siThread, siCount, crashed>>
  PROVE  TaInv'
<1> DEFINE x == <<t, n>>
<1>1. /\ StackInv(fr) /\ SessInv(fr, sess, known) /\ CtxInv(fr, sess, ctx)
      /\ BusyInv(fr, ctx) /\ LockInv(fr, ctx, siThread, siCount) /\ crashed \in BOOLEAN
  BY DEF TaInv, AllInv
<1>2. x \in Slots /\ fr[x] = f
  BY DEF Shifts
<1>3. SameCtx(ctx, ctx') /\ ctx' = [c \in Ctxs |-> ctx'[c]]
  BY SameLemma
<1>4. LinkMoves(fr, x, g, sess, sess')
  BY DEF LinkMoves
<1> HIDE DEF x
<1>5. CtxMoves(f, g, NoSess, sess, sess', ctx, ctx') /\ CtxLinkMoves(fr, x, g, sess', ctx, ctx')
  BY <1>1, <1>2, <1>3, CtxQuiet
<1>6. /\ BusyMoves(f, g, ctx, ctx')
      /\ LockMoves(fr, x, g, ctx, ctx', siThread, siCount, siThread, siCount)
  BY <1>1, <1>2, BusyQuiet
<1>7. LockMoves(fr, x, g, ctx, ctx', siThread, siCount, siThread', siCount')
  BY <1>6
<1>8. crashed' \in BOOLEAN
  BY <1>1
<1> QED BY <1>3, <1>4, <1>5, <1>6, <1>7, <1>8, TakeStep DEF x

LEMMA OpenEntryStep ==
  ASSUME TaInv, NEW t \in Threads, open_entry(t)
  PROVE  TaInv'
<1>1. PICK f : f = Top(t)
  OBVIOUS
<1>2. /\ stack[t] # <<>> /\ f.pc = "entry" /\ f \in FrameRec /\ FrameOK(f)
      /\ UNCHANGED <<siThread, siCount, ctx, crashed, known>>
  BY <1>1, TopFacts DEF open_entry, At, FrameOK
<1>3. f.op = "open" /\ f.s \in Sessions /\ f.c \in Ctxs /\ ~f.held /\ ~f.kern
  BY <1>2 DEF FrameOK, FrameRec, Ops, InvokePcs, ClosePcs, CancelPcs, EnteredPcs
<1>4. CASE ~ctx[f.c].panicked
  <2>1. PICK g : g = [f EXCEPT !.pc = "busy"]
    OBVIOUS
  <2>2. Become(t, g) /\ sess' = [sess EXCEPT ![f.s].clnt = ClientOf(f.list)]
    BY <1>1, <1>4, <2>1 DEF open_entry, Goto
  <2>3. /\ g \in FrameRec /\ g.pc = "busy" /\ g.op = f.op /\ g.s = f.s /\ g.c = f.c
        /\ g.list = f.list /\ g.kern = f.kern /\ g.held = f.held
    BY <1>2, <2>1 DEF FrameRec, PCs
  <2>4. FrameOK(g)
    BY <1>2, <1>3, <2>3 DEF FrameOK, OpenPcs, EnteredPcs
  <2>5. SameRefs(f, g) /\ SameDrops(f, g) /\ SameInside(f, g) /\ (Owns(g) => Owns(f))
    BY <1>2, <1>3, <2>3 DEF SameRefs, SameDrops, SameInside, Owns, HasRef, DropsOf, Inside
  <2>6. SameCtx(ctx, ctx') /\ \A c \in Ctxs : ctx'[c].busy = ctx[c].busy
    BY <1>2, SameLemma
  <2>7. SameSess(sess, sess')
    <3>1. sess[f.s] \in SessRec /\ ctx \in [Ctxs -> CtxRec]
      BY <1>3 DEF TaInv, AllInv, SessInv, CtxInv
    <3>2. ClientOf(f.list) \in Uuids \cup {NoUuid}
      BY <1>2, <3>1 DEF ClientOf, FrameRec, CtxRec
    <3>3. PICK v : v = [sess[f.s] EXCEPT !.clnt = ClientOf(f.list)]
      OBVIOUS
    <3>4. sess' = [sess EXCEPT ![f.s] = v]
      BY <2>2, <3>3
    <3>5. /\ v \in SessRec /\ v.ctx = sess[f.s].ctx /\ v.list = sess[f.s].list
          /\ v.ref = sess[f.s].ref /\ v.unlink = sess[f.s].unlink
      BY <3>1, <3>2, <3>3 DEF SessRec
    <3> QED BY <1>3, <3>4, <3>5, SessField
  <2> QED BY <1>1, <1>2, <2>2, <2>3, <2>4, <2>5, <2>6, <2>7, GoOn
<1>5. CASE ctx[f.c].panicked
  <2> DEFINE n == Len(stack[t])
  <2>1. PICK g : g = [CloseKern(f.s, f.list) EXCEPT !.held = TRUE]
    OBVIOUS
  <2>2. Become(t, g) /\ sess' = sess
    BY <1>1, <1>5, <2>1 DEF open_entry
  <2>3. /\ g \in FrameRec /\ g.pc = "get" /\ g.op = "close" /\ g.s = f.s /\ g.c = NoCtx
        /\ g.list = f.list /\ g.kern = TRUE /\ g.held = TRUE
    BY <1>2, <1>3, <2>1 DEF FrameRec, PCs, Ops, CloseKern, Frame
  <2>4. /\ stack \in Stacks /\ <<t, n>> \in Slots /\ fr[<<t, n>>] = f
        /\ CalledFrom(fr, t, n, f.list) /\ sess[f.s].list = f.list
    BY <1>1, <1>2, <1>3, TopFacts DEF Owns
  <2>5. Shifts(t, n, g)
    BY <1>2, <2>2, <2>3, <2>4, BecomeLemma
  <2>6. GoodFrame(g) /\ CalledFrom(fr, t, n, g.list)
    BY <1>3, <2>3, <2>4 DEF GoodFrame, FrameOK, ClosePcs, EnteredPcs
  <2>7. SameDrops(f, g) /\ SameInside(f, g)
    BY <1>2, <1>3, <2>3 DEF SameDrops, SameInside, DropsOf, Inside
  <2>8. Owns(f) /\ HasRef(f) /\ Owns(g) /\ ~HasRef(g)
    BY <1>2, <1>3, <2>3 DEF Owns, HasRef
  <2>9. SessInv(fr, sess, known)
    BY DEF TaInv, AllInv
  <2>10. SessMoves(f, g, sess, sess')
    <3>1. ASSUME NEW s \in Sessions
          PROVE  sess[s].ref = sess[s].ref + B(UserOf(g, s)) - B(UserOf(f, s))
                                           + B(HolderOf(g, s)) - B(HolderOf(f, s))
      <4>1. sess[s].ref \in Nat
        BY <2>9 DEF SessInv, SessRec
      <4> QED BY <1>3, <2>3, <2>8, <4>1 DEF UserOf, HolderOf, B
    <3>2. f.pc # "unlinkwait"
      BY <1>2
    <3> QED BY <2>2, <2>9, <3>1, <3>2 DEF SessMoves, SessInv
  <2>11. OwnerMoves(fr, <<t, n>>, g, sess', known, known')
    BY <1>2, <2>2, <2>3, <2>4, <2>8, <2>9 DEF OwnerMoves, SessInv, SessOwners
  <2>12. sess' = [s \in Sessions |-> sess'[s]]
    BY <2>2, SameLemma
  <2> HIDE DEF n
  <2> QED BY <1>2, <1>3, <2>2, <2>3, <2>4, <2>5, <2>6, <2>7, <2>8, <2>10, <2>11, <2>12, RefStep
<1> QED BY <1>4, <1>5

(* The call on top returns without a reference.                            *)
LEMMA LeaveLemma ==
  ASSUME TaInv, NEW t \in Threads, stack[t] # <<>>, NEW f, f = Top(t), Return(t),
         ~HasRef(f), ~f.held, f.pc \in {"init", "get"},
         UNCHANGED <<siThread, siCount, ctx, sess, crashed, known>>
  PROVE  TaInv'
<1> DEFINE n == Len(stack[t])
<1>1. stack \in Stacks /\ <<t, n>> \in Slots /\ fr[<<t, n>>] = f
  BY TopFacts
<1>2. Shifts(t, n, Gone)
  BY <1>1, ReturnLemma
<1>3. /\ ~HasRef(Gone) /\ ~Owns(Gone) /\ Gone.held = FALSE /\ Gone.pc = "get" /\ Gone.op = "none"
      /\ GoodFrame(Gone)
  BY DEF HasRef, Owns, Gone, GoodFrame
<1> DEFINE g == Gone
<1>4. ~HasRef(g) /\ ~Owns(g) /\ g.held = FALSE /\ g.pc = "get" /\ g.op = "none"
  BY <1>3
<1> HIDE DEF g
<1>5. SameRefs(f, g) /\ SameDrops(f, g) /\ SameInside(f, g)
  BY <1>4 DEF SameRefs, SameDrops, SameInside, DropsOf, Inside
<1>6. /\ SameSess(sess, sess') /\ SameCtx(ctx, ctx') /\ \A c \in Ctxs : ctx'[c].busy = ctx[c].busy
      /\ crashed' \in BOOLEAN /\ known' \subseteq known
  BY SameLemma DEF TaInv
<1> HIDE DEF n
<1>7. Shifts(t, n, g) /\ GoodFrame(g) /\ g = Gone
  BY <1>2, <1>3 DEF g
<1> QED BY <1>1, <1>4, <1>5, <1>6, <1>7, QuietStep

LEMMA InitFailsStep ==
  ASSUME TaInv, NEW t \in Threads, init_session_fails(t)
  PROVE  TaInv'
<1>1. PICK f : f = Top(t)
  OBVIOUS
<1>2. /\ stack[t] # <<>> /\ f.pc = "init" /\ f \in FrameRec /\ FrameOK(f) /\ Return(t)
      /\ UNCHANGED <<siThread, siCount, ctx, sess, crashed, known>>
  BY <1>1, TopFacts DEF init_session_fails, At, unchangedCore
<1>3. ~HasRef(f) /\ ~f.held
  BY <1>2 DEF HasRef, FrameOK, ClosePcs
<1> QED BY <1>1, <1>2, <1>3, LeaveLemma

LEMMA GetFailsStep ==
  ASSUME TaInv, NEW t \in Threads, get_session_fails(t)
  PROVE  TaInv'
<1>1. PICK f : f = Top(t)
  OBVIOUS
<1>2. /\ stack[t] # <<>> /\ f.pc = "get" /\ f \in FrameRec /\ FrameOK(f) /\ Return(t)
      /\ ~Linked(f) \/ sess[f.s].unlink
      /\ UNCHANGED <<siThread, siCount, ctx, sess, crashed, known>>
  BY <1>1, TopFacts DEF get_session_fails, At, unchangedCore
<1>3. <<t, Len(stack[t])>> \in Slots /\ fr[<<t, Len(stack[t])>>] = f
  BY <1>1, <1>2, TopFacts
<1>4. f.op # "close"
  BY <1>2, <1>3, CloseFinds
<1>5. ~HasRef(f) /\ ~f.held
  BY <1>2, <1>4 DEF HasRef, FrameOK
<1> QED BY <1>1, <1>2, <1>5, LeaveLemma

(* The caller: no other call works on its sessions.                        *)
LEMMA CallerFacts ==
  ASSUME TaInv, NEW t \in Threads, NEW list,
         \/ stack[t] = <<>> /\ list = Nsec
         \/ stack[t] # <<>> /\ Top(t).pc \in {"run", "destroy"} /\ list = Top(t).c
  PROVE  /\ CalledFrom(fr, t, Len(stack[t]) + 1, list)
         /\ list \in Ctxs \cup {Nsec}
         /\ \A y \in Slots : list \in Ctxs /\ fr[y] # Gone => fr[y].list # list
<1>1. /\ StackInv(fr) /\ SessInv(fr, sess, known) /\ CtxInv(fr, sess, ctx) /\ BusyInv(fr, ctx)
      /\ stack \in Stacks
  BY DEF TaInv, AllInv, Stacks
<1>2. CASE stack[t] = <<>> /\ list = Nsec
  BY <1>2, NoneAssumption DEF CalledFrom
<1>3. CASE stack[t] # <<>> /\ Top(t).pc \in {"run", "destroy"} /\ list = Top(t).c
  <2> DEFINE n == Len(stack[t])
  <2>1. /\ n \in Nat \ {0} /\ <<t, n>> \in Slots /\ fr[<<t, n>>] = Top(t) /\ FrameOK(Top(t))
        /\ Top(t) # Gone
    BY <1>3, TopFacts
  <2>2. list \in Ctxs
    BY <1>3, <2>1 DEF FrameOK, EnteredPcs
  <2>3. CalledFrom(fr, t, n + 1, list)
    BY <1>3, <2>1 DEF CalledFrom
  <2>4. fr[<<t, n + 1>>] = Gone
    BY <1>1, <2>1, SlotFacts
  <2>5. ASSUME NEW y \in Slots, fr[y] # Gone, fr[y].list = list PROVE FALSE
    <3>1. y = <<t, n + 1>>
      BY <1>1, <1>3, <2>1, <2>2, <2>5, SoleList
    <3> QED BY <2>4, <2>5, <3>1
  <2> QED BY <2>2, <2>3, <2>5
<1> QED BY <1>2, <1>3

(* A call is made; a close is of a session that nobody else owns.          *)
LEMMA CallLemma ==
  ASSUME TaInv, NEW t \in Threads, NEW list, NEW g \in FrameRec, Push(t, g), FrameOK(g),
         \/ stack[t] = <<>> /\ list = Nsec
         \/ stack[t] # <<>> /\ Top(t).pc \in {"run", "destroy"} /\ list = Top(t).c,
         g.list = list, g.pc \in {"init", "get"}, ~g.held,
         g.op = "close" => sess[g.s].list = list /\ (list = Nsec => g.s \in known),
         known' = IF g.op = "close" /\ list = Nsec THEN known \ {g.s} ELSE known,
         UNCHANGED <<siThread, siCount, ctx, sess, crashed>>
  PROVE  TaInv'
<1> DEFINE n == Len(stack[t]) + 1
<1>1. /\ StackInv(fr) /\ SessInv(fr, sess, known) /\ stack \in Stacks /\ crashed \in BOOLEAN
  BY DEF TaInv, AllInv, Stacks
<1>2. Shifts(t, n, g) /\ fr[<<t, n>>] = Gone
  BY <1>1, PushLemma
<1>3. CalledFrom(fr, t, n, g.list) /\ GoodFrame(g) /\ list \in Ctxs \cup {Nsec}
  BY CallerFacts DEF GoodFrame
<1>4. ~HasRef(g) /\ (Owns(g) => g.op = "close")
  BY DEF HasRef, Owns, FrameOK, OpenPcs, FrameRec, Ops
<1> DEFINE f == Gone
<1>5. ~HasRef(f) /\ f.held = FALSE /\ f.pc = "get" /\ f.op = "none" /\ fr[<<t, n>>] = f
  BY <1>2 DEF HasRef, Gone
<1> HIDE DEF f
<1>6. SameRefs(f, g) /\ SameDrops(f, g) /\ SameInside(f, g)
  BY <1>4, <1>5 DEF SameRefs, SameDrops, SameInside, DropsOf, Inside
<1>7. /\ SameSess(sess, sess') /\ SameCtx(ctx, ctx') /\ \A c \in Ctxs : ctx'[c].busy = ctx[c].busy
      /\ crashed' \in BOOLEAN /\ known' \subseteq known
  BY <1>1, SameLemma
<1>8. ASSUME Owns(g)
      PROVE  /\ sess[g.s].list = g.list /\ g.s \notin known'
             /\ \A y \in Slots : Owns(fr[y]) => fr[y].s # g.s
  <2>1. g.op = "close" /\ sess[g.s].list = list
    BY <1>4, <1>8
  <2>2. CASE list = Nsec
    BY <1>1, <2>1, <2>2 DEF SessInv, SessOwners
  <2>3. CASE list \in Ctxs
    <3>1. g.s \notin known
      BY <1>1, <2>1, <2>3, NoneAssumption DEF SessInv, SessOwners
    <3>2. ASSUME NEW y \in Slots, Owns(fr[y]), fr[y].s = g.s PROVE FALSE
      <4>1. fr[y] # Gone
        BY <3>2 DEF Owns, Gone
      <4>2. fr[y].list = list
        BY <1>1, <2>1, <3>2 DEF SessInv, SessLinks
      <4> QED BY <2>3, <4>1, <4>2, CallerFacts
    <3>3. known' = known
      BY <2>3, NoneAssumption
    <3> QED BY <2>1, <3>1, <3>2, <3>3
  <2> QED BY <1>3, <2>2, <2>3
<1> HIDE DEF n
<1>9. Owns(g) => /\ sess[g.s].list = g.list /\ g.s \notin known'
                 /\ \A y \in Slots \ {<<t, n>>} : Owns(fr[y]) => fr[y].s # g.s
  BY <1>8
<1> QED BY <1>2, <1>3, <1>4, <1>5, <1>6, <1>7, <1>9, QuietStep

LEMMA CallStep ==
  ASSUME TaInv, NEW t \in Threads, Call(t)
  PROVE  TaInv'
<1>1. PICK list : list = Caller(t)
  OBVIOUS
<1>2. /\ \/ stack[t] = <<>> /\ list = Nsec
         \/ stack[t] # <<>> /\ Top(t).pc \in {"run", "destroy"} /\ list = Top(t).c
      /\ UNCHANGED <<siThread, siCount, ctx, sess, crashed>>
  BY <1>1 DEF Call, open_session, invoke_command, close_session, entry_cancel, CanCall, At,
              Caller, unchangedCore
<1>3. list \in Ctxs \cup {Nsec}
  BY <1>2, CallerFacts
<1>4. ASSUME NEW u \in Uuids, open_session(t, u) PROVE TaInv'
  <2>1. PICK g : g = Frame("open", "init", u, NoSess, list, FALSE)
    OBVIOUS
  <2>2. /\ g \in FrameRec /\ FrameOK(g) /\ g.op = "open" /\ g.pc = "init" /\ ~g.held
        /\ g.list = list
    BY <1>3, <2>1 DEF Frame, FrameRec, FrameOK, OpenPcs, EnteredPcs, Ops, PCs
  <2>3. Push(t, g) /\ known' = known
    BY <1>1, <1>4, <2>1 DEF open_session
  <2> QED BY <1>2, <2>2, <2>3, CallLemma
<1>5. ASSUME NEW s \in Sessions, invoke_command(t, s) PROVE TaInv'
  <2>1. PICK g : g = Frame("invoke", "get", NoUuid, s, list, FALSE)
    OBVIOUS
  <2>2. /\ g \in FrameRec /\ FrameOK(g) /\ g.op = "invoke" /\ g.pc = "get" /\ ~g.held
        /\ g.list = list
    BY <1>3, <2>1 DEF Frame, FrameRec, FrameOK, InvokePcs, EnteredPcs, Ops, PCs
  <2>3. Push(t, g) /\ known' = known
    BY <1>1, <1>5, <2>1 DEF invoke_command
  <2> QED BY <1>2, <2>2, <2>3, CallLemma
<1>6. ASSUME NEW s \in Sessions, entry_cancel(t, s) PROVE TaInv'
  <2>1. PICK g : g = Frame("cancel", "get", NoUuid, s, list, FALSE)
    OBVIOUS
  <2>2. /\ g \in FrameRec /\ FrameOK(g) /\ g.op = "cancel" /\ g.pc = "get" /\ ~g.held
        /\ g.list = list
    BY <1>3, <2>1 DEF Frame, FrameRec, FrameOK, CancelPcs, EnteredPcs, Ops, PCs
  <2>3. list = Nsec
    BY <1>1, <1>6 DEF entry_cancel, Caller
  <2>4. Push(t, g) /\ known' = known
    BY <1>6, <2>1, <2>3 DEF entry_cancel
  <2> QED BY <1>2, <2>2, <2>4, CallLemma
<1>7. ASSUME NEW s \in Sessions, close_session(t, s) PROVE TaInv'
  <2>1. PICK g : g = Frame("close", "get", NoUuid, s, list, FALSE)
    OBVIOUS
  <2>2. /\ g \in FrameRec /\ FrameOK(g) /\ g.op = "close" /\ g.pc = "get" /\ ~g.held
        /\ g.list = list /\ g.s = s
    BY <1>3, <2>1 DEF Frame, FrameRec, FrameOK, ClosePcs, EnteredPcs, Ops, PCs
  <2>3. Push(t, g) /\ known' = IF list = Nsec THEN known \ {s} ELSE known
    BY <1>1, <1>7, <2>1 DEF close_session
  <2>4. sess[s].list = list /\ (list = Nsec => s \in known)
    <3>1. IF list = Nsec THEN s \in known ELSE sess[s].list = list
      BY <1>1, <1>7 DEF close_session, HasSession
    <3>2. s \in known => sess[s].list = Nsec
      BY DEF TaInv, AllInv, SessInv, SessOwners
    <3> QED BY <3>1, <3>2
  <2> QED BY <1>2, <2>2, <2>3, <2>4, CallLemma
<1> QED BY <1>4, <1>5, <1>6, <1>7 DEF Call

(* References to session r, which becomes v, are taken and given back.     *)
Recounts(f, g, r, v, S, T) ==
  /\ v \in SessRec /\ T = [S EXCEPT ![r] = v]
  /\ v.ctx = S[r].ctx /\ v.list = S[r].list /\ v.unlink = S[r].unlink
  /\ v.ref = S[r].ref + B(HasRef(g)) - B(HasRef(f))
  /\ (HasRef(f) => f.s = r) /\ (HasRef(g) => g.s = r)
  /\ (g.held <=> f.held) /\ (f.held => g.s = f.s) /\ f.pc # "unlinkwait"

LEMMA RefMoves ==
  ASSUME NEW fm, NEW S, NEW T, NEW K, SessInv(fm, S, K), NEW r \in Sessions, NEW v,
         NEW f, NEW g, Recounts(f, g, r, v, S, T)
  PROVE  /\ SessMoves(f, g, S, T) /\ T = [s \in Sessions |-> T[s]]
         /\ \A s \in Sessions : T[s].ctx = S[s].ctx /\ T[s].list = S[s].list
<1>1. /\ S \in [Sessions -> SessRec]
      /\ \A s \in Sessions : S[s].ctx = NoCtx <=> S[s].list = NoCtx
  BY DEF SessInv
<1>2. /\ T = [s \in Sessions |-> T[s]] /\ \A s \in Sessions : T[s] \in SessRec
      /\ \A s \in Sessions : /\ T[s].ctx = S[s].ctx /\ T[s].list = S[s].list
                             /\ T[s].unlink = S[s].unlink
      /\ \A s \in Sessions \ {r} : T[s].ref = S[s].ref
      /\ T[r].ref = S[r].ref + B(HasRef(g)) - B(HasRef(f))
  BY <1>1 DEF Recounts
<1>3. ASSUME NEW s \in Sessions
      PROVE  T[s].ref = S[s].ref + B(UserOf(g, s)) - B(UserOf(f, s))
                                 + B(HolderOf(g, s)) - B(HolderOf(f, s))
  <2>1. S[s].ref \in Nat
    BY <1>1 DEF SessRec
  <2>2. B(HolderOf(g, s)) = B(HolderOf(f, s)) /\ \A b : B(b) \in {0, 1}
    BY DEF HolderOf, B, Recounts
  <2>3. CASE s = r
    <3>1. B(UserOf(g, s)) = B(HasRef(g)) /\ B(UserOf(f, s)) = B(HasRef(f))
      BY <2>3 DEF UserOf, B, Recounts
    <3> QED BY <1>2, <2>1, <2>2, <2>3, <3>1
  <2>4. CASE s # r
    <3>1. B(UserOf(g, s)) = 0 /\ B(UserOf(f, s)) = 0
      BY <2>4 DEF UserOf, B, Recounts
    <3> QED BY <1>2, <2>1, <2>2, <2>4, <3>1
  <2> QED BY <2>3, <2>4
<1>4. SessMoves(f, g, S, T)
  BY <1>1, <1>2, <1>3 DEF SessMoves, Recounts
<1> QED BY <1>2, <1>4

LEMMA RefPositive ==
  ASSUME NEW fm, NEW S, NEW K, SessInv(fm, S, K), NEW x \in Slots, HasRef(fm[x]),
         fm[x].s \in Sessions
  PROVE  S[fm[x].s].ref \in Nat \ {0}
<1> DEFINE s == fm[x].s
<1>1. x \in UsersOf(fm, s)
  BY DEF UsersOf, UserOf
<1>2. /\ IsFiniteSet(UsersOf(fm, s)) /\ IsFiniteSet(HoldersOf(fm, s))
      /\ S[s].ref = Cardinality(UsersOf(fm, s)) + Cardinality(HoldersOf(fm, s))
  BY DEF SessInv, SessRefs
<1>3. /\ Cardinality(UsersOf(fm, s)) \in Nat
      /\ (Cardinality(UsersOf(fm, s)) = 0 <=> UsersOf(fm, s) = {})
  BY <1>2, CountFacts
<1>4. Cardinality(HoldersOf(fm, s)) \in Nat
  BY <1>2, CountFacts
<1> QED BY <1>1, <1>2, <1>3, <1>4

WithCount(o, k, l) == [o EXCEPT !.ref = k, !.lock = l]

LEMMA SessCount ==
  ASSUME NEW o \in SessRec, NEW k \in Nat, NEW l \in Threads \cup {NoThread}, NEW v,
         v = WithCount(o, k, l)
  PROVE  /\ v \in SessRec /\ v.ctx = o.ctx /\ v.list = o.list /\ v.unlink = o.unlink
         /\ v.ref = k
BY DEF SessRec, WithCount

LEMMA GetStep ==
  ASSUME TaInv, NEW t \in Threads, get_session(t)
  PROVE  TaInv'
<1>1. PICK f : f = Top(t)
  OBVIOUS
<1>2. /\ stack[t] # <<>> /\ f.pc = "get" /\ f \in FrameRec /\ FrameOK(f)
      /\ sess[f.s].list = f.list
      /\ UNCHANGED <<siThread, siCount, ctx, crashed, known>>
  BY <1>1, TopFacts DEF get_session, At, Linked
<1>3. f.s \in Sessions /\ f.c = NoCtx /\ f.op \in {"invoke", "close", "cancel"}
  BY <1>2 DEF FrameOK, OpenPcs, FrameRec, Ops
<1> DEFINE n == Len(stack[t])
           o == sess[f.s]
<1>4. SessInv(fr, sess, known) /\ o \in SessRec
  BY <1>3 DEF TaInv, AllInv, SessInv
<1>5. PICK l : l = IF f.op # "cancel" /\ o.lock = NoThread THEN t ELSE o.lock
  OBVIOUS
<1>6. l \in Threads \cup {NoThread}
  BY <1>4, <1>5 DEF SessRec
<1>7. PICK v : v = WithCount(o, o.ref + 1, l)
  OBVIOUS
<1>8. sess' = [sess EXCEPT ![f.s] = v]
  BY <1>1, <1>3, <1>4, <1>5, <1>7 DEF get_session, SessInv, WithCount
<1>9. o.ref \in Nat
  BY <1>4 DEF SessRec
<1>10. /\ v \in SessRec /\ v.ctx = o.ctx /\ v.list = o.list /\ v.unlink = o.unlink
      /\ v.ref = o.ref + 1
  <2>1. PICK k \in Nat : k = o.ref + 1
    BY <1>9
  <2> HIDE DEF o
  <2>2. v = WithCount(o, k, l)
    BY <1>7, <2>1
  <2>3. /\ v \in SessRec /\ v.ctx = o.ctx /\ v.list = o.list /\ v.unlink = o.unlink
        /\ v.ref = k
    BY <1>4, <1>6, <2>2, SessCount
  <2> QED BY <2>1, <2>3
<1>11. PICK p \in {"getwait", "check"} : Goto(t, p) /\ (f.op = "cancel" => p = "check")
  BY <1>1 DEF get_session
<1>12. PICK g : g = [f EXCEPT !.pc = p]
  OBVIOUS
<1>13. Become(t, g)
  BY <1>1, <1>11, <1>12 DEF Goto
<1>14. /\ g \in FrameRec /\ g.pc = p /\ g.op = f.op /\ g.s = f.s /\ g.c = f.c
       /\ g.list = f.list /\ g.kern = f.kern /\ g.held = f.held
  BY <1>2, <1>11, <1>12 DEF FrameRec, PCs
<1>15. FrameOK(g)
  BY <1>2, <1>3, <1>11, <1>14 DEF FrameOK, InvokePcs, ClosePcs, CancelPcs, EnteredPcs
<1>16. /\ stack \in Stacks /\ n \in Nat \ {0} /\ <<t, n>> \in Slots /\ fr[<<t, n>>] = f
       /\ CalledFrom(fr, t, n, f.list)
  BY <1>1, <1>2, TopFacts
<1>17. Shifts(t, n, g) /\ GoodFrame(g) /\ CalledFrom(fr, t, n, g.list)
  BY <1>2, <1>13, <1>14, <1>15, <1>16, BecomeLemma DEF GoodFrame
<1>18. HasRef(g) /\ ~HasRef(f) /\ (Owns(g) => Owns(f))
  BY <1>2, <1>11, <1>14 DEF HasRef, Owns
<1>19. SameDrops(f, g) /\ SameInside(f, g)
  BY <1>2, <1>11, <1>14 DEF SameDrops, SameInside, DropsOf, Inside
<1>20. v.ref = o.ref + B(HasRef(g)) - B(HasRef(f))
  BY <1>9, <1>10, <1>18 DEF B
<1>21. /\ SessMoves(f, g, sess, sess') /\ sess' = [s \in Sessions |-> sess'[s]]
       /\ \A s \in Sessions : sess'[s].ctx = sess[s].ctx /\ sess'[s].list = sess[s].list
  <2>1. Recounts(f, g, f.s, v, sess, sess')
    BY <1>2, <1>8, <1>10, <1>14, <1>18, <1>20 DEF Recounts
  <2> QED BY <1>3, <1>4, <2>1, RefMoves
<1>22. OwnerMoves(fr, <<t, n>>, g, sess', known, known')
  BY <1>2, <1>4, <1>14, <1>16, <1>18, <1>21 DEF OwnerMoves, SessInv, SessOwners
<1> HIDE DEF n
<1> QED BY <1>2, <1>3, <1>14, <1>16, <1>17, <1>18, <1>19, <1>21, <1>22, RefStep

(* A reference is given back; the call ends or closes the session.         *)
LEMMA DropStep ==
  ASSUME TaInv, NEW t \in Threads, stack[t] # <<>>, NEW f, f = Top(t), NEW n, n = Len(stack[t]),
         f.pc \in {"put", "getwait"}, ~f.held, NEW v \in SessRec, sess' = [sess EXCEPT ![f.s] = v],
         v.ctx = sess[f.s].ctx, v.list = sess[f.s].list, v.unlink = sess[f.s].unlink,
         v.ref = sess[f.s].ref - 1, NEW g, Shifts(t, n, g), GoodFrame(g),
         g = Gone \/ (g.op = "close" /\ g.pc = "get" /\ g.s = f.s /\ g.list = f.list /\ Owns(f)
                      /\ ~g.held /\ known' = known),
         known' = known \/ (Owns(f) /\ f.list = Nsec /\ known' = known \cup {f.s}),
         UNCHANGED <<siThread, siCount, ctx, crashed>>
  PROVE  TaInv'
<1>1. /\ <<t, n>> \in Slots /\ fr[<<t, n>>] = f /\ f \in FrameRec /\ FrameOK(f)
      /\ CalledFrom(fr, t, n, f.list)
  BY TopFacts
<1>2. HasRef(f)
  BY DEF HasRef
<1>3. f.s \in Sessions /\ sess[f.s].list = f.list
  BY <1>2, TopFacts
<1>4. SessInv(fr, sess, known)
  BY DEF TaInv, AllInv
<1>5. sess[f.s].ref \in Nat
  BY <1>3, <1>4 DEF SessInv, SessRec
<1>6. ~HasRef(g) /\ g.held = FALSE /\ g.pc = "get" /\ (Owns(g) => g # Gone)
  <2>1. CASE g = Gone
    BY <2>1 DEF HasRef, Gone, Owns
  <2>2. CASE g # Gone
    <3>1. g.held \in BOOLEAN
      BY <2>2 DEF GoodFrame, FrameRec
    <3> QED BY <2>2, <3>1 DEF HasRef
  <2> QED BY <2>1, <2>2
<1>7. SameDrops(f, g) /\ SameInside(f, g)
  BY <1>6 DEF SameDrops, SameInside, DropsOf, Inside
<1>8. v.ref = sess[f.s].ref + B(HasRef(g)) - B(HasRef(f))
  BY <1>2, <1>5, <1>6 DEF B
<1>9. /\ SessMoves(f, g, sess, sess') /\ sess' = [s \in Sessions |-> sess'[s]]
      /\ \A s \in Sessions : sess'[s].ctx = sess[s].ctx /\ sess'[s].list = sess[s].list
  <2>1. f.pc # "unlinkwait" /\ (g.held <=> f.held)
    BY <1>6
  <2>2. (HasRef(f) => f.s = f.s) /\ (HasRef(g) => g.s = f.s) /\ (f.held => g.s = f.s)
    BY <1>6
  <2>3. Recounts(f, g, f.s, v, sess, sess')
    BY <1>8, <2>1, <2>2, Zenon DEF Recounts
  <2> QED BY ONLY <1>3, <1>4, <2>3, RefMoves
<1>10. OwnerMoves(fr, <<t, n>>, g, sess', known, known')
  <2>1. Owns(g) => Owns(f) /\ g.s = f.s /\ known' = known
    BY <1>6
  <2>2. ASSUME NEW s \in known'
        PROVE  /\ s \in Sessions /\ sess'[s].list = Nsec
               /\ s \in known \/ (Owns(f) /\ f.s = s)
               /\ Owns(g) => g.s # s
    <3>1. CASE s \in known
      <4>1. s \in Sessions /\ sess[s].list = Nsec /\ (Owns(f) => f.s # s)
        BY <1>1, <1>4, <3>1 DEF SessInv, SessOwners
      <4> QED BY <1>9, <2>1, <3>1, <4>1
    <3>2. CASE s \notin known
      BY <1>3, <1>9, <2>1, <2>2, <3>2
    <3> QED BY <3>1, <3>2
  <2> QED BY <1>1, <2>1, <2>2 DEF OwnerMoves
<1>11. /\ HasRef(g) \/ Owns(g) => g.s \in Sessions /\ sess[g.s].list = g.list
       /\ g = Gone \/ CalledFrom(fr, t, n, g.list)
  BY <1>1, <1>3, <1>6
<1> QED BY <1>1, <1>6, <1>7, <1>9, <1>10, <1>11, RefStep

(* CloseKern is a call that has nothing yet.                               *)
LEMMA CloseKernFacts ==
  ASSUME NEW s \in Sessions, NEW list \in Ctxs \cup {Nsec}, NEW g, g = CloseKern(s, list)
  PROVE  /\ g \in FrameRec /\ FrameOK(g) /\ GoodFrame(g) /\ g.op = "close" /\ g.pc = "get"
         /\ g.s = s /\ g.list = list /\ ~g.held /\ g # Gone
<1>1. /\ g \in FrameRec /\ g.op = "close" /\ g.pc = "get" /\ g.s = s /\ g.list = list
      /\ g.held = FALSE /\ g.kern = TRUE /\ g.c = NoCtx
  BY DEF CloseKern, Frame, FrameRec, Ops, PCs
<1>2. FrameOK(g)
  BY <1>1 DEF FrameOK, ClosePcs, EnteredPcs
<1>3. g # Gone
  BY <1>1 DEF Gone
<1> QED BY <1>1, <1>2, <1>3 DEF GoodFrame

LEMMA PutStep ==
  ASSUME TaInv, NEW t \in Threads, put_session(t)
  PROVE  TaInv'
<1>1. PICK f : f = Top(t)
  OBVIOUS
<1>2. PICK n : n = Len(stack[t])
  OBVIOUS
<1>3. /\ stack[t] # <<>> /\ f.pc = "put" /\ f \in FrameRec /\ FrameOK(f)
      /\ stack \in Stacks /\ <<t, n>> \in Slots /\ fr[<<t, n>>] = f
      /\ UNCHANGED <<siThread, siCount, ctx, crashed>>
  BY <1>1, <1>2, TopFacts DEF put_session, At
<1>4. f.s \in Sessions /\ ~f.held /\ ~f.kern /\ HasRef(f)
  BY <1>3 DEF FrameOK, HasRef
<1>5. PICK o : o = sess[f.s]
  OBVIOUS
<1>6. SessInv(fr, sess, known) /\ o \in SessRec /\ sess \in [Sessions -> SessRec]
  BY <1>4, <1>5 DEF TaInv, AllInv, SessInv
<1>7. o.ref \in Nat \ {0}
  BY <1>3, <1>4, <1>5, <1>6, RefPositive
<1>8. PICK l : l = IF o.lock = t THEN NoThread ELSE o.lock
  OBVIOUS
<1>9. l \in Threads \cup {NoThread}
  BY <1>6, <1>8 DEF SessRec
<1>10. PICK v : v = WithCount(o, o.ref - 1, l)
  OBVIOUS
<1>11. sess' = [sess EXCEPT ![f.s] = v]
  <2>1. sess' = [[sess EXCEPT ![f.s].lock = l] EXCEPT ![f.s].ref = @ - 1]
    BY <1>1, <1>5, <1>8 DEF put_session, DecRef
  <2> QED BY <1>4, <1>5, <1>6, <1>10, <2>1 DEF WithCount, SessRec
<1>12. /\ v \in SessRec /\ v.ctx = o.ctx /\ v.list = o.list /\ v.unlink = o.unlink
       /\ v.ref = o.ref - 1
  <2>1. PICK k \in Nat : k = o.ref - 1
    BY <1>7
  <2>2. v = WithCount(o, k, l)
    BY <1>10, <2>1
  <2>3. /\ v \in SessRec /\ v.ctx = o.ctx /\ v.list = o.list /\ v.unlink = o.unlink
        /\ v.ref = k
    BY <1>6, <1>9, <2>2, SessCount
  <2> QED BY <2>1, <2>3
<1>13. f.op = "open" => Owns(f)
  BY <1>3 DEF Owns
<1>14. known' = known \/ (Owns(f) /\ f.list = Nsec /\ known' = known \cup {f.s})
  BY <1>1, <1>13 DEF put_session
<1>15. CASE f.op = "open" /\ f.bad
  <2>1. PICK g : g = CloseKern(f.s, f.list)
    OBVIOUS
  <2>2. Become(t, g) /\ known' = known
    BY <1>1, <1>15, <2>1 DEF put_session
  <2>3. /\ g \in FrameRec /\ GoodFrame(g) /\ g.op = "close" /\ g.pc = "get"
        /\ g.s = f.s /\ g.list = f.list /\ ~g.held
    BY <1>3, <1>4, <2>1, CloseKernFacts DEF FrameRec
  <2>4. Shifts(t, n, g)
    BY <1>2, <1>3, <2>2, <2>3, BecomeLemma
  <2> QED BY <1>1, <1>2, <1>3, <1>4, <1>5, <1>11, <1>12, <1>13, <1>15, <2>2, <2>3, <2>4, DropStep
<1>16. CASE ~(f.op = "open" /\ f.bad)
  <2>1. Return(t)
    BY <1>1, <1>16 DEF put_session
  <2>2. PICK g : g = Gone
    OBVIOUS
  <2>3. Shifts(t, n, g) /\ GoodFrame(g)
    BY <1>2, <1>3, <2>1, <2>2, ReturnLemma DEF GoodFrame
  <2> QED BY <1>1, <1>2, <1>3, <1>4, <1>5, <1>11, <1>12, <1>14, <2>2, <2>3, DropStep
<1> QED BY <1>15, <1>16

LEMMA GetWakesStep ==
  ASSUME TaInv, NEW t \in Threads, get_session_wakes(t)
  PROVE  TaInv'
<1>1. PICK f : f = Top(t)
  OBVIOUS
<1>2. PICK n : n = Len(stack[t])
  OBVIOUS
<1>3. /\ stack[t] # <<>> /\ f.pc = "getwait" /\ f \in FrameRec /\ FrameOK(f)
      /\ stack \in Stacks /\ <<t, n>> \in Slots /\ fr[<<t, n>>] = f
      /\ UNCHANGED <<siThread, siCount, ctx, crashed, known>>
  BY <1>1, <1>2, TopFacts DEF get_session_wakes, At
<1>4. f.s \in Sessions /\ HasRef(f) /\ f.c = NoCtx
  BY <1>3 DEF FrameOK, HasRef
<1>5. PICK o : o = sess[f.s]
  OBVIOUS
<1>6. /\ SessInv(fr, sess, known) /\ o \in SessRec /\ sess \in [Sessions -> SessRec]
      /\ crashed \in BOOLEAN
  BY <1>4, <1>5 DEF TaInv, AllInv, SessInv
<1>7. CASE UNCHANGED <<sess, stack>>
  BY <1>3, <1>6, <1>7, StutterStep
<1>8. CASE o.unlink /\ sess' = DecRef(sess, f.s) /\ Return(t)
  <2>1. f.op # "close"
    BY <1>3, <1>5, <1>8, CloseFinds
  <2>2. ~f.held
    BY <1>3, <2>1 DEF FrameOK
  <2>3. o.ref \in Nat \ {0}
    BY <1>3, <1>4, <1>5, <1>6, RefPositive
  <2>4. PICK v : v = [o EXCEPT !.ref = o.ref - 1]
    OBVIOUS
  <2>5. sess' = [sess EXCEPT ![f.s] = v]
    BY <1>5, <1>8, <2>4 DEF DecRef
  <2>6. o.ref - 1 \in Nat
    BY <2>3
  <2>7. /\ v \in SessRec /\ v.ctx = o.ctx /\ v.list = o.list /\ v.unlink = o.unlink
        /\ v.ref = o.ref - 1
    BY <1>6, <2>4, <2>6 DEF SessRec
  <2>8. PICK g : g = Gone
    OBVIOUS
  <2>9. Shifts(t, n, g) /\ GoodFrame(g)
    BY <1>2, <1>3, <1>8, <2>8, ReturnLemma DEF GoodFrame
  <2> QED BY <1>1, <1>2, <1>3, <1>5, <2>2, <2>5, <2>7, <2>8, <2>9, DropStep
<1>9. CASE sess' = [sess EXCEPT ![f.s].lock = t] /\ Goto(t, "check")
  <2>1. PICK v : v = [o EXCEPT !.lock = t]
    OBVIOUS
  <2>2. sess' = [sess EXCEPT ![f.s] = v]
    BY <1>5, <1>9, <2>1
  <2>3. /\ v \in SessRec /\ v.ctx = o.ctx /\ v.list = o.list /\ v.unlink = o.unlink
        /\ v.ref = o.ref
    BY <1>6, <2>1 DEF SessRec
  <2>4. SameSess(sess, sess')
    BY <1>4, <1>5, <2>2, <2>3, SessField
  <2>5. PICK g : g = [f EXCEPT !.pc = "check"]
    OBVIOUS
  <2>6. Become(t, g)
    BY <1>1, <1>9, <2>5 DEF Goto
  <2>7. /\ g \in FrameRec /\ g.pc = "check" /\ g.op = f.op /\ g.s = f.s /\ g.c = f.c
        /\ g.list = f.list /\ g.kern = f.kern /\ g.held = f.held
    BY <1>3, <2>5 DEF FrameRec, PCs
  <2>8. FrameOK(g)
    BY <1>3, <1>4, <2>7
       DEF FrameOK, InvokePcs, ClosePcs, CancelPcs, OpenPcs, EnteredPcs
  <2>9. SameRefs(f, g) /\ SameDrops(f, g) /\ SameInside(f, g) /\ (Owns(g) => Owns(f))
    BY <1>3, <2>7 DEF SameRefs, SameDrops, SameInside, Owns, HasRef, DropsOf, Inside
  <2>10. SameCtx(ctx, ctx') /\ \A c \in Ctxs : ctx'[c].busy = ctx[c].busy
    BY <1>3, SameLemma
  <2> QED BY <1>1, <1>3, <2>4, <2>6, <2>7, <2>8, <2>9, <2>10, GoOn
<1> QED BY <1>1, <1>5, <1>7, <1>8, <1>9 DEF get_session_wakes

LEMMA BusyWaitsStep ==
  ASSUME TaInv, NEW t \in Threads, set_busy_waits(t)
  PROVE  TaInv'
<1>1. UNCHANGED <<siThread, siCount, ctx, sess, stack, known>> /\ crashed' \in BOOLEAN
  BY DEF set_busy_waits, TaInv
<1> QED BY <1>1, StutterStep

(* A TA is entered or left: the busy flag of its context becomes b.        *)
LEMMA FlagStep ==
  ASSUME TaInv, NEW t \in Threads, stack[t] # <<>>, NEW f, f = Top(t), NEW g \in FrameRec,
         NEW n, n = Len(stack[t]),
         Become(t, g), FrameOK(g), g.s = f.s, g.list = f.list, g.c = f.c, f.c \in Ctxs,
         SameRefs(f, g), SameDrops(f, g), Owns(g) => Owns(f), Inside(g) <=> ~Inside(f),
         Inside(f) <=> ctx[f.c].busy, NEW b \in BOOLEAN, Inside(g) <=> b,
         ctx' = [ctx EXCEPT ![f.c].busy = b],
         LockMoves(fr, <<t, n>>, g, ctx, ctx', siThread, siCount, siThread', siCount'),
         UNCHANGED <<sess, crashed, known>>
  PROVE  TaInv'
<1> DEFINE x == <<t, n>>
<1>1. /\ StackInv(fr) /\ SessInv(fr, sess, known) /\ CtxInv(fr, sess, ctx)
      /\ crashed \in BOOLEAN
  BY DEF TaInv, AllInv
<1>2. /\ stack \in Stacks /\ x \in Slots /\ fr[x] = f /\ CalledFrom(fr, t, n, f.list)
      /\ ctx[f.c].uuid # NoUuid
  BY TopFacts
<1>3. Shifts(t, n, g) /\ GoodFrame(g) /\ CalledFrom(fr, t, n, g.list)
  BY <1>2, BecomeLemma DEF GoodFrame
<1>4. SameSess(sess, sess') /\ sess' = [s \in Sessions |-> sess'[s]]
  BY SameLemma
<1>5. ctx[f.c] \in CtxRec /\ ctx \in [Ctxs -> CtxRec]
  BY <1>1 DEF CtxInv
<1>6. PICK v : v = [ctx[f.c] EXCEPT !.busy = b]
  OBVIOUS
<1>7. /\ v \in CtxRec /\ v.uuid = ctx[f.c].uuid /\ v.linked = ctx[f.c].linked
      /\ v.ref = ctx[f.c].ref /\ v.busy = b
  BY <1>5, <1>6 DEF CtxRec
<1>8. ctx' = [ctx EXCEPT ![f.c] = v]
  BY <1>6
<1>9. SameCtx(ctx, ctx')
  <2>1. \A c \in Ctxs : ctx[c].uuid = NoUuid => ctx[c] = FreeCtx
    BY <1>1 DEF CtxInv, CtxLinks
  <2> QED BY <1>2, <1>5, <1>7, <1>8, <2>1 DEF SameCtx
<1>10. BusyMoves(f, g, ctx, ctx')
  <2>1. ASSUME NEW c \in Ctxs
        PROVE  B(ctx'[c].busy) = B(ctx[c].busy) + B(InsideOf(g, c)) - B(InsideOf(f, c))
    <3>1. CASE c = f.c
      <4>1. ctx'[c].busy = b
        BY <1>5, <1>7, <1>8, <3>1
      <4>2. (InsideOf(g, c) <=> b) /\ (InsideOf(f, c) <=> ~b) /\ (ctx[c].busy <=> ~b)
        BY <3>1 DEF InsideOf
      <4> QED BY <4>1, <4>2 DEF B
    <3>2. CASE c # f.c
      <4>1. ctx'[c] = ctx[c]
        BY <1>5, <1>8, <3>2
      <4>2. ~InsideOf(g, c) /\ ~InsideOf(f, c)
        BY <3>2 DEF InsideOf
      <4>3. B(InsideOf(g, c)) = 0 /\ B(InsideOf(f, c)) = 0 /\ B(ctx[c].busy) \in {0, 1}
        BY <4>2 DEF B
      <4>4. B(ctx'[c].busy) = B(ctx[c].busy)
        BY <4>1, Zenon
      <4> QED BY <4>3, <4>4
    <3> QED BY <3>1, <3>2
  <2> QED BY <2>1 DEF BusyMoves
<1> HIDE DEF x
<1>11. /\ SessMoves(f, g, sess, sess') /\ LinkMoves(fr, x, g, sess, sess')
       /\ OwnerMoves(fr, x, g, sess', known, known')
  <2>1. /\ HasRef(g) => g.list = f.list /\ g.c \in {NoCtx, f.c, sess[g.s].ctx}
        /\ Owns(g) => Owns(f) /\ g.s = f.s /\ g.list = f.list
        /\ known' \subseteq known
    OBVIOUS
  <2> QED BY <1>1, <1>2, <1>3, <1>4, <2>1, SessQuiet
<1>12. CtxMoves(f, g, NoSess, sess, sess', ctx, ctx') /\ CtxLinkMoves(fr, x, g, sess', ctx, ctx')
  BY <1>1, <1>2, <1>3, <1>9, CtxQuiet
<1>13. ctx' = [c \in Ctxs |-> ctx'[c]] /\ crashed' \in BOOLEAN
  BY <1>1, <1>9 DEF SameCtx
<1>14. /\ fr[<<t, n>>] = f /\ LinkMoves(fr, <<t, n>>, g, sess, sess')
       /\ OwnerMoves(fr, <<t, n>>, g, sess', known, known')
       /\ CtxLinkMoves(fr, <<t, n>>, g, sess', ctx, ctx')
  BY <1>2, <1>11, <1>12 DEF x
<1> QED BY <1>3, <1>4, <1>10, <1>11, <1>12, <1>13, <1>14, TakeStep

(* The uuids stay: the calls that need the lock are the same.              *)
LEMMA SameLocks ==
  ASSUME TaInv, NEW x \in Slots, NEW c \in Ctxs, NEW b, ctx' = [ctx EXCEPT ![c].busy = b],
         Inside(fr[x])
  PROVE  fr[x].c \in Ctxs /\ ctx'[fr[x].c].uuid = ctx[fr[x].c].uuid
<1>1. ctx \in [Ctxs -> CtxRec] /\ StackInv(fr)
  BY DEF TaInv, AllInv, CtxInv
<1>2. fr[x].c \in Ctxs
  BY <1>1 DEF StackInv, GoodFrame, FrameOK, Gone, EnteredPcs, Inside
<1>3. ctx[c] \in CtxRec
  BY <1>1
<1>4. PICK v : v = [ctx[c] EXCEPT !.busy = b]
  OBVIOUS
<1>5. v.uuid = ctx[c].uuid
  BY <1>3, <1>4 DEF CtxRec
<1>6. ctx' = [ctx EXCEPT ![c] = v]
  BY <1>4
<1> QED BY <1>1, <1>2, <1>5, <1>6

LEMMA SetBusyStep ==
  ASSUME TaInv, NEW t \in Threads, set_busy(t)
  PROVE  TaInv'
<1>1. PICK f : f = Top(t)
  OBVIOUS
<1>2. PICK n : n = Len(stack[t])
  OBVIOUS
<1>3. /\ stack[t] # <<>> /\ f.pc = "busy" /\ f \in FrameRec /\ FrameOK(f)
      /\ <<t, n>> \in Slots /\ fr[<<t, n>>] = f
      /\ UNCHANGED <<sess, crashed, known>>
  BY <1>1, <1>2, TopFacts DEF set_busy, At
<1>4. f.c \in Ctxs /\ f.s \in Sessions /\ f.op # "cancel"
  BY <1>3 DEF FrameOK, EnteredPcs, CancelPcs
<1>5. /\ ~SiLocked(t, f.c) /\ ~ctx[f.c].busy /\ ctx' = [ctx EXCEPT ![f.c].busy = TRUE]
      /\ IF Single(f.c) THEN siThread' = t /\ siCount' = siCount + 1
         ELSE UNCHANGED <<siThread, siCount>>
  BY <1>1 DEF set_busy
<1>6. PICK p : p = IF f.op = "close" THEN "closing" ELSE "run"
  OBVIOUS
<1>7. PICK g : g = [f EXCEPT !.pc = p]
  OBVIOUS
<1>8. Become(t, g)
  BY <1>1, <1>6, <1>7 DEF set_busy, Goto
<1>9. /\ g \in FrameRec /\ g.pc = p /\ g.op = f.op /\ g.s = f.s /\ g.c = f.c
      /\ g.list = f.list /\ g.kern = f.kern /\ g.held = f.held
  BY <1>3, <1>6, <1>7 DEF FrameRec, PCs
<1>10. FrameOK(g)
  BY <1>3, <1>4, <1>6, <1>9
     DEF FrameOK, OpenPcs, InvokePcs, ClosePcs, CancelPcs, EnteredPcs
<1>11. /\ SameRefs(f, g) /\ SameDrops(f, g) /\ (Owns(g) => Owns(f)) /\ ~Inside(f) /\ Inside(g)
  BY <1>3, <1>6, <1>9 DEF SameRefs, SameDrops, Owns, HasRef, DropsOf, Inside
<1>12. LockInv(fr, ctx, siThread, siCount)
  BY DEF TaInv, AllInv
<1>13. \A y \in Slots : Inside(fr[y]) => fr[y].c \in Ctxs /\ ctx'[fr[y].c].uuid = ctx[fr[y].c].uuid
  BY <1>4, <1>5, SameLocks
<1>14. \A y \in Slots : Locks(fr[y], ctx') <=> Locks(fr[y], ctx)
  BY <1>13 DEF Locks
<1>15. ctx'[f.c].uuid = ctx[f.c].uuid
  <2>1. ctx \in [Ctxs -> CtxRec] /\ ctx[f.c] \in CtxRec
    BY <1>4 DEF TaInv, AllInv, CtxInv
  <2> QED BY <1>4, <1>5, <2>1 DEF CtxRec
<1>16. (Locks(g, ctx') <=> Single(f.c)) /\ ~Locks(f, ctx)
  BY <1>9, <1>11, <1>15 DEF Locks, Single
<1>17. LockMoves(fr, <<t, n>>, g, ctx, ctx', siThread, siCount, siThread', siCount')
  <2>1. siThread \in Threads \cup {NoThread} /\ siCount \in Nat /\ (siCount = 0 <=> siThread = NoThread)
    BY <1>12 DEF LockInv
  <2>2. <<t, n>>[1] = t
    OBVIOUS
  <2>3. CASE Single(f.c)
    <3>1. siThread' = t /\ siCount' = siCount + 1 /\ siThread \in {t, NoThread}
      BY <1>5, <2>3 DEF SiLocked
    <3>2. B(Locks(g, ctx')) = 1 /\ B(Locks(f, ctx)) = 0
      BY <1>16, <2>3 DEF B
    <3>3. siThread' = siThread \/ \A y \in Slots \ {<<t, n>>} : ~Locks(fr[y], ctx)
      <4>1. CASE siThread = NoThread
        <5>1. LockersOf(fr, ctx) = {}
          BY <1>12, <2>1, <4>1, CountFacts DEF LockInv
        <5> QED BY <5>1 DEF LockersOf
      <4> QED BY <3>1, <4>1
    <3>4. siCount' = siCount + B(Locks(g, ctx')) - B(Locks(f, ctx))
      BY <2>1, <3>1, <3>2
    <3>5. siCount' = 0 <=> siThread' = NoThread
      BY <2>1, <3>1, NoneAssumption
    <3> QED BY <1>3, <1>14, <2>2, <3>1, <3>3, <3>4, <3>5 DEF LockMoves
  <2>4. CASE ~Single(f.c)
    <3>1. siThread' = siThread /\ siCount' = siCount
      BY <1>5, <2>4
    <3>2. B(Locks(g, ctx')) = 0 /\ B(Locks(f, ctx)) = 0
      BY <1>16, <2>4 DEF B
    <3>3. siCount' = siCount + B(Locks(g, ctx')) - B(Locks(f, ctx))
      BY <2>1, <3>1, <3>2
    <3> QED BY <1>3, <1>14, <1>16, <2>1, <2>4, <3>1, <3>3 DEF LockMoves
  <2> QED BY <2>3, <2>4
<1> QED BY <1>1, <1>2, <1>3, <1>4, <1>5, <1>8, <1>9, <1>10, <1>11, <1>17, FlagStep

LEMMA ClearBusyStep ==
  ASSUME TaInv, NEW t \in Threads, clear_busy(t)
  PROVE  TaInv'
<1>1. PICK f : f = Top(t)
  OBVIOUS
<1>2. PICK n : n = Len(stack[t])
  OBVIOUS
<1>3. /\ stack[t] # <<>> /\ f.pc = "clear" /\ f \in FrameRec /\ FrameOK(f)
      /\ <<t, n>> \in Slots /\ fr[<<t, n>>] = f
      /\ UNCHANGED <<sess, crashed, known>>
  BY <1>1, <1>2, TopFacts DEF clear_busy, At
<1>4. f.c \in Ctxs /\ f.s \in Sessions /\ f.op \in {"open", "invoke", "close"} /\ ~f.held
  BY <1>3 DEF FrameOK, EnteredPcs, CancelPcs, FrameRec, Ops
<1>5. /\ ctx' = [ctx EXCEPT ![f.c].busy = FALSE]
      /\ IF Single(f.c) THEN /\ siCount' = siCount - 1
                             /\ siThread' = IF siCount = 1 THEN NoThread ELSE siThread
         ELSE UNCHANGED <<siThread, siCount>>
  BY <1>1 DEF clear_busy
<1>6. PICK p : p = IF f.op = "open" THEN "opened" ELSE IF f.op = "invoke" THEN "put" ELSE "deref"
  OBVIOUS
<1>7. PICK g : g = [f EXCEPT !.pc = p]
  OBVIOUS
<1>8. Become(t, g)
  <2>1. Goto(t, CASE f.op = "open" -> "opened" [] f.op = "invoke" -> "put"
                  [] f.op = "close" -> "deref")
    BY <1>1 DEF clear_busy
  <2>2. Goto(t, p)
    BY <1>4, <1>6, <2>1
  <2> QED BY <1>1, <1>7, <2>2 DEF Goto
<1>9. /\ g \in FrameRec /\ g.pc = p /\ g.op = f.op /\ g.s = f.s /\ g.c = f.c
      /\ g.list = f.list /\ g.kern = f.kern /\ g.held = f.held
  BY <1>3, <1>6, <1>7 DEF FrameRec, PCs
<1>10. FrameOK(g)
  BY <1>3, <1>4, <1>6, <1>9
     DEF FrameOK, OpenPcs, InvokePcs, ClosePcs, CancelPcs, EnteredPcs
<1>11. /\ SameRefs(f, g) /\ SameDrops(f, g) /\ (Owns(g) => Owns(f)) /\ Inside(f) /\ ~Inside(g)
  BY <1>3, <1>4, <1>6, <1>9 DEF SameRefs, SameDrops, Owns, HasRef, DropsOf, Inside
<1>12. LockInv(fr, ctx, siThread, siCount) /\ BusyInv(fr, ctx)
  BY DEF TaInv, AllInv
<1>13. ctx[f.c].busy
  <2>1. <<t, n>> \in InsidersOf(fr, f.c)
    BY <1>3, <1>11 DEF InsidersOf, InsideOf
  <2>2. IsFiniteSet(InsidersOf(fr, f.c)) /\ Cardinality(InsidersOf(fr, f.c)) = B(ctx[f.c].busy)
    BY <1>4, <1>12 DEF BusyInv
  <2>3. Cardinality(InsidersOf(fr, f.c)) # 0
    BY <2>1, <2>2, CountFacts
  <2> QED BY <2>2, <2>3 DEF B
<1>14. \A y \in Slots : Inside(fr[y]) => fr[y].c \in Ctxs /\ ctx'[fr[y].c].uuid = ctx[fr[y].c].uuid
  BY <1>4, <1>5, SameLocks
<1>15. \A y \in Slots : Locks(fr[y], ctx') <=> Locks(fr[y], ctx)
  BY <1>14 DEF Locks
<1>16. (Locks(f, ctx) <=> Single(f.c)) /\ ~Locks(g, ctx')
  BY <1>9, <1>11 DEF Locks, Single
<1>17. LockMoves(fr, <<t, n>>, g, ctx, ctx', siThread, siCount, siThread', siCount')
  <2>1. /\ siThread \in Threads \cup {NoThread} /\ siCount \in Nat
        /\ (siCount = 0 <=> siThread = NoThread)
        /\ IsFiniteSet(LockersOf(fr, ctx)) /\ siCount = Cardinality(LockersOf(fr, ctx))
    BY <1>12 DEF LockInv
  <2>2. B(Locks(g, ctx')) = 0
    BY <1>16 DEF B
  <2>3. CASE Single(f.c)
    <3>1. siCount' = siCount - 1 /\ siThread' = IF siCount = 1 THEN NoThread ELSE siThread
      BY <1>5, <2>3
    <3>2. B(Locks(f, ctx)) = 1
      BY <1>16, <2>3 DEF B
    <3>3. <<t, n>> \in LockersOf(fr, ctx)
      BY <1>3, <1>16, <2>3 DEF LockersOf
    <3>4. siCount # 0
      BY <2>1, <3>3, CountFacts
    <3>5. siThread' = siThread \/ \A y \in Slots \ {<<t, n>>} : ~Locks(fr[y], ctx)
      <4>1. ASSUME siCount = 1, NEW y \in Slots \ {<<t, n>>}, Locks(fr[y], ctx) PROVE FALSE
        <5>1. y \in LockersOf(fr, ctx)
          BY <4>1 DEF LockersOf
        <5> QED BY <2>1, <3>3, <4>1, <5>1, CountFacts
      <4> QED BY <3>1, <4>1
    <3>6. siCount' = siCount + B(Locks(g, ctx')) - B(Locks(f, ctx))
      BY <2>1, <2>2, <3>1, <3>2
    <3>7. siCount' = 0 <=> siThread' = NoThread
      BY <2>1, <3>1, <3>4
    <3>8. siThread' \in Threads \cup {NoThread}
      BY <2>1, <3>1
    <3> QED BY <1>3, <1>15, <1>16, <3>5, <3>6, <3>7, <3>8 DEF LockMoves
  <2>4. CASE ~Single(f.c)
    <3>1. siThread' = siThread /\ siCount' = siCount
      BY <1>5, <2>4
    <3>2. B(Locks(f, ctx)) = 0
      BY <1>16, <2>4 DEF B
    <3>3. siCount' = siCount + B(Locks(g, ctx')) - B(Locks(f, ctx))
      BY <2>1, <2>2, <3>1, <3>2
    <3> QED BY <1>3, <1>15, <1>16, <2>1, <3>1, <3>3 DEF LockMoves
  <2> QED BY <2>3, <2>4
<1>18. PICK b \in BOOLEAN : b = FALSE
  OBVIOUS
<1> QED BY <1>1, <1>2, <1>3, <1>4, <1>5, <1>8, <1>9, <1>10, <1>11, <1>13, <1>17, <1>18, FlagStep

(* The last reference to a session is the one of the call that frees it.   *)
LEMMA LastUser ==
  ASSUME NEW fm, NEW S, NEW K, SessInv(fm, S, K), NEW x \in Slots, HasRef(fm[x]),
         fm[x].s \in Sessions, S[fm[x].s].ref = 1
  PROVE  \A y \in Slots : /\ HasRef(fm[y]) /\ fm[y].s = fm[x].s => y = x
                          /\ fm[y].held => fm[y].s # fm[x].s
<1> DEFINE s == fm[x].s
<1>1. x \in UsersOf(fm, s)
  BY DEF UsersOf, UserOf
<1>2. /\ IsFiniteSet(UsersOf(fm, s)) /\ IsFiniteSet(HoldersOf(fm, s))
      /\ S[s].ref = Cardinality(UsersOf(fm, s)) + Cardinality(HoldersOf(fm, s))
  BY DEF SessInv, SessRefs
<1>3. /\ Cardinality(UsersOf(fm, s)) \in Nat
      /\ (Cardinality(UsersOf(fm, s)) = 0 <=> UsersOf(fm, s) = {})
      /\ \A y, z \in UsersOf(fm, s) : Cardinality(UsersOf(fm, s)) = 1 => y = z
  BY <1>2, CountFacts
<1>4. /\ Cardinality(HoldersOf(fm, s)) \in Nat
      /\ (Cardinality(HoldersOf(fm, s)) = 0 <=> HoldersOf(fm, s) = {})
  BY <1>2, CountFacts
<1>5. Cardinality(UsersOf(fm, s)) = 1 /\ Cardinality(HoldersOf(fm, s)) = 0
  BY <1>1, <1>2, <1>3, <1>4
<1>6. HoldersOf(fm, s) = {}
  BY <1>4, <1>5
<1>7. ASSUME NEW y \in Slots, HasRef(fm[y]), fm[y].s = s PROVE y = x
  <2>1. y \in UsersOf(fm, s)
    BY <1>7 DEF UsersOf, UserOf
  <2> QED BY <1>1, <1>3, <1>5, <2>1
<1>8. ASSUME NEW y \in Slots, fm[y].held, fm[y].s = s PROVE FALSE
  <2>1. y \in HoldersOf(fm, s)
    BY <1>8 DEF HoldersOf, HolderOf
  <2> QED BY <1>6, <2>1
<1> QED BY <1>7, <1>8

(* The session is freed; the close keeps the reference to the context.     *)
Frees(f, g, r, S, T) ==
  /\ f.op = "close" /\ f.pc \in {"unlink", "unlinkwait"} /\ f.s = r
  /\ f.c = S[r].ctx /\ f.c \in Ctxs
  /\ g.op = "close" /\ g.pc = "clear" /\ g.s = f.s /\ g.c = f.c /\ ~g.held
  /\ S[r].ref = 1 /\ T = [S EXCEPT ![r] = FreeSess]

LEMMA FreeMoves ==
  ASSUME NEW fm, NEW S, NEW T, NEW K, NEW C, StackInv(fm), SessInv(fm, S, K), CtxInv(fm, S, C),
         NEW x \in Slots, NEW f, f = fm[x], NEW g, NEW r \in Sessions, Frees(f, g, r, S, T)
  PROVE  /\ SessMoves(f, g, S, T) /\ LinkMoves(fm, x, g, S, T) /\ OwnerMoves(fm, x, g, T, K, K)
         /\ CtxMoves(f, g, r, S, T, C, C) /\ CtxLinkMoves(fm, x, g, T, C, C)
         /\ T = [s \in Sessions |-> T[s]]
<1> USE DEF Frees
<1>1. /\ S \in [Sessions -> SessRec]
      /\ \A s \in Sessions : S[s].ctx = NoCtx <=> S[s].list = NoCtx
  BY DEF SessInv
<1>2. HasRef(f) /\ Owns(f) /\ ~HasRef(g) /\ ~Owns(g)
  BY DEF HasRef, Owns
<1>3. \A y \in Slots : /\ HasRef(fm[y]) /\ fm[y].s = r => y = x
                       /\ fm[y].held => fm[y].s # r
  BY <1>2, LastUser
<1>4. \A y \in Slots : Owns(fm[y]) /\ fm[y].s = r => y = x
  BY <1>2 DEF SessInv, SessOwners
<1>5. /\ FreeSess \in SessRec /\ FreeSess.ctx = NoCtx /\ FreeSess.list = NoCtx
      /\ FreeSess.ref = 0 /\ FreeSess.unlink = FALSE
  BY DEF FreeSess, SessRec
<1>6. /\ T = [s \in Sessions |-> T[s]] /\ T[r] = FreeSess
      /\ \A s \in Sessions \ {r} : T[s] = S[s]
  BY <1>1
<1>7. SessMoves(f, g, S, T)
  <2>1. ASSUME NEW s \in Sessions
        PROVE  /\ T[s] \in SessRec
               /\ T[s].ctx = NoCtx <=> T[s].list = NoCtx
               /\ T[s].ref = S[s].ref + B(UserOf(g, s)) - B(UserOf(f, s))
                                      + B(HolderOf(g, s)) - B(HolderOf(f, s))
               /\ T[s].unlink => \/ S[s].unlink /\ ~(f.pc = "unlinkwait" /\ f.s = s)
                                 \/ g.pc = "unlinkwait" /\ g.s = s
    <3>1. B(UserOf(g, s)) = 0 /\ B(HolderOf(g, s)) = 0 /\ B(HolderOf(f, s)) = 0
      BY <1>2, <1>3 DEF UserOf, HolderOf, B
    <3>2. B(UserOf(f, s)) = IF s = r THEN 1 ELSE 0
      BY <1>2 DEF UserOf, B
    <3>3. CASE s = r
      <4>1. T[s].ref = S[s].ref + B(UserOf(g, s)) - B(UserOf(f, s))
                                + B(HolderOf(g, s)) - B(HolderOf(f, s))
        BY <1>5, <1>6, <3>1, <3>2, <3>3
      <4> QED BY <1>5, <1>6, <3>3, <4>1
    <3>4. CASE s # r
      <4>1. T[s] = S[s] /\ S[s].ref \in Nat
        BY <1>1, <1>6, <3>4 DEF SessRec
      <4>2. T[s].ref = S[s].ref + B(UserOf(g, s)) - B(UserOf(f, s))
                                + B(HolderOf(g, s)) - B(HolderOf(f, s))
        BY <3>1, <3>2, <3>4, <4>1
      <4> QED BY <1>1, <3>4, <4>1, <4>2
    <3> QED BY <3>3, <3>4
  <2> QED BY <2>1 DEF SessMoves
<1>8. LinkMoves(fm, x, g, S, T)
  BY <1>2, <1>3, <1>4, <1>6 DEF LinkMoves
<1>9. OwnerMoves(fm, x, g, T, K, K)
  BY <1>2, <1>6 DEF OwnerMoves, SessInv, SessOwners
<1>10. CtxMoves(f, g, r, S, T, C, C)
  <2>1. ASSUME NEW c \in Ctxs
        PROVE  C[c].ref = C[c].ref + B(r \in SessOf(T, c)) - B(r \in SessOf(S, c))
                                   + B(DropsOf(g, c)) - B(DropsOf(f, c))
    <3>1. C[c].ref \in Nat
      BY DEF CtxInv, CtxRec
    <3>2. r \notin SessOf(T, c) /\ ~DropsOf(f, c)
      BY <1>5, <1>6, NoneAssumption DEF SessOf, DropsOf
    <3>3. (r \in SessOf(S, c) <=> c = f.c) /\ (DropsOf(g, c) <=> c = f.c)
      BY DEF SessOf, DropsOf
    <3>4. /\ B(r \in SessOf(T, c)) = 0 /\ B(DropsOf(f, c)) = 0
          /\ B(r \in SessOf(S, c)) = B(DropsOf(g, c)) /\ B(DropsOf(g, c)) \in {0, 1}
      BY <3>2, <3>3 DEF B
    <3> QED BY <3>1, <3>4
  <2>2. \A c \in Ctxs : /\ C[c] \in CtxRec
                        /\ ~C[c].linked => C[c].ref = 0
                        /\ C[c].uuid = NoUuid => C[c] = FreeCtx
                        /\ C[c].uuid \in SingleInstance \ MultiSession => C[c].ref <= 1
    BY DEF CtxInv, CtxLinks
  <2>3. \A s \in Sessions \ {r} : T[s].ctx = S[s].ctx
    BY <1>6
  <2> QED BY <2>1, <2>2, <2>3 DEF CtxMoves
<1>11. CtxLinkMoves(fm, x, g, T, C, C)
  <2>1. \A s \in Sessions : T[s].list \in Ctxs => C[T[s].list].uuid # NoUuid
    BY <1>5, <1>6, NoneAssumption DEF CtxInv, CtxLinks
  <2>2. \A y \in Slots : fm[y].pc = "destroy" => ~C[fm[y].c].linked /\ C[fm[y].c].uuid # NoUuid
    BY DEF CtxInv, CtxLinks
  <2> QED BY <2>1, <2>2 DEF CtxLinkMoves
<1> QED BY <1>6, <1>7, <1>8, <1>9, <1>10, <1>11

LEMMA UnlinkStep ==
  ASSUME TaInv, NEW t \in Threads, unlink_session(t)
  PROVE  TaInv'
<1>1. PICK f : f = Top(t)
  OBVIOUS
<1>2. PICK n : n = Len(stack[t])
  OBVIOUS
<1>3. /\ stack[t] # <<>> /\ f.pc \in {"unlink", "unlinkwait"} /\ f \in FrameRec /\ FrameOK(f)
      /\ stack \in Stacks /\ <<t, n>> \in Slots /\ fr[<<t, n>>] = f
      /\ CalledFrom(fr, t, n, f.list)
      /\ UNCHANGED <<siThread, siCount, ctx, crashed, known>>
  BY <1>1, <1>2, TopFacts DEF unlink_session, At
<1>4. f.op = "close" /\ f.s \in Sessions /\ f.c \in Ctxs
  BY <1>3 DEF FrameOK, EnteredPcs, OpenPcs, InvokePcs, CancelPcs, FrameRec, Ops
<1>5. HasRef(f) /\ Owns(f) /\ f.c = sess[f.s].ctx /\ sess[f.s].list = f.list
  BY <1>1, <1>3, <1>4, TopFacts, NoneAssumption DEF HasRef, Owns
<1>6. /\ StackInv(fr) /\ SessInv(fr, sess, known) /\ CtxInv(fr, sess, ctx) /\ BusyInv(fr, ctx)
      /\ LockInv(fr, ctx, siThread, siCount) /\ crashed \in BOOLEAN
  BY DEF TaInv, AllInv
<1>7. PICK o : o = sess[f.s]
  OBVIOUS
<1>8. o \in SessRec /\ sess \in [Sessions -> SessRec]
  BY <1>4, <1>6, <1>7 DEF SessInv
<1>9. CASE o.ref # 1
  <2>1. PICK v : v = [o EXCEPT !.unlink = TRUE]
    OBVIOUS
  <2>2. /\ v \in SessRec /\ v.ctx = o.ctx /\ v.list = o.list /\ v.ref = o.ref /\ v.unlink = TRUE
    BY <1>8, <2>1 DEF SessRec
  <2>3. sess' = [sess EXCEPT ![f.s] = v] /\ Goto(t, "unlinkwait")
    BY <1>1, <1>7, <1>9, <2>1 DEF unlink_session
  <2>4. PICK g : g = [f EXCEPT !.pc = "unlinkwait"]
    OBVIOUS
  <2>5. Become(t, g)
    BY <1>1, <2>3, <2>4 DEF Goto
  <2>6. /\ g \in FrameRec /\ g.pc = "unlinkwait" /\ g.op = f.op /\ g.s = f.s /\ g.c = f.c
        /\ g.list = f.list /\ g.kern = f.kern /\ g.held = f.held
    BY <1>3, <2>4 DEF FrameRec, PCs
  <2>7. FrameOK(g)
    BY <1>3, <1>4, <2>6 DEF FrameOK, ClosePcs, EnteredPcs
  <2>8. Shifts(t, n, g) /\ GoodFrame(g) /\ CalledFrom(fr, t, n, g.list)
    BY <1>2, <1>3, <2>5, <2>6, <2>7, BecomeLemma DEF GoodFrame
  <2>9. HasRef(g) /\ Owns(g) /\ SameDrops(f, g) /\ SameInside(f, g)
    BY <1>3, <1>4, <2>6 DEF HasRef, Owns, SameDrops, SameInside, DropsOf, Inside
  <2>10. /\ sess' = [s \in Sessions |-> sess'[s]]
         /\ \A s \in Sessions : /\ sess'[s] \in SessRec
                                /\ sess'[s].ctx = sess[s].ctx /\ sess'[s].list = sess[s].list
                                /\ sess'[s].ref = sess[s].ref
                                /\ s # f.s => sess'[s].unlink = sess[s].unlink
    BY <1>4, <1>7, <1>8, <2>2, <2>3
  <2>11. SessMoves(f, g, sess, sess')
    <3>1. ASSUME NEW s \in Sessions
          PROVE  sess'[s].ref = sess[s].ref + B(UserOf(g, s)) - B(UserOf(f, s))
                                            + B(HolderOf(g, s)) - B(HolderOf(f, s))
      <4>1. sess[s].ref \in Nat /\ \A b : B(b) \in {0, 1}
        BY <1>8 DEF SessRec, B
      <4>2. B(UserOf(g, s)) = B(UserOf(f, s)) /\ B(HolderOf(g, s)) = B(HolderOf(f, s))
        BY <1>5, <2>6, <2>9 DEF UserOf, HolderOf, B
      <4> QED BY <2>10, <4>1, <4>2
    <3>2. \A s \in Sessions : sess[s].ctx = NoCtx <=> sess[s].list = NoCtx
      BY <1>6 DEF SessInv
    <3>3. \A s \in Sessions : sess'[s].unlink => \/ sess[s].unlink /\ f.s # s
                                                 \/ g.pc = "unlinkwait" /\ g.s = s
      BY <2>6, <2>10
    <3> QED BY <2>10, <3>1, <3>2, <3>3 DEF SessMoves
  <2>12. OwnerMoves(fr, <<t, n>>, g, sess', known, known')
    BY <1>3, <1>5, <1>6, <2>6, <2>10 DEF OwnerMoves, SessInv, SessOwners
  <2>13. /\ HasRef(g) \/ Owns(g) => g.s \in Sessions /\ sess[g.s].list = g.list
         /\ HasRef(g) => g.c \in {NoCtx, sess[g.s].ctx}
    BY <1>4, <1>5, <2>6
  <2> QED BY <1>3, <2>8, <2>9, <2>10, <2>11, <2>12, <2>13, RefStep
<1>10. CASE o.ref = 1
  <2>1. sess' = [sess EXCEPT ![f.s] = FreeSess] /\ Goto(t, "clear")
    BY <1>1, <1>7, <1>10 DEF unlink_session
  <2>2. ~f.held
    BY <1>3, <1>4, <1>5, <1>6, <1>7, <1>10, LastUser
  <2>3. PICK g : g = [f EXCEPT !.pc = "clear"]
    OBVIOUS
  <2>4. Become(t, g)
    BY <1>1, <2>1, <2>3 DEF Goto
  <2>5. /\ g \in FrameRec /\ g.pc = "clear" /\ g.op = f.op /\ g.s = f.s /\ g.c = f.c
        /\ g.list = f.list /\ g.kern = f.kern /\ g.held = f.held
    BY <1>3, <2>3 DEF FrameRec, PCs
  <2>6. FrameOK(g)
    BY <1>3, <1>4, <2>2, <2>5 DEF FrameOK, ClosePcs, EnteredPcs
  <2>7. Shifts(t, n, g) /\ GoodFrame(g) /\ CalledFrom(fr, t, n, g.list)
    BY <1>2, <1>3, <2>4, <2>5, <2>6, BecomeLemma DEF GoodFrame
  <2>8. SameInside(f, g)
    BY <1>3, <2>5 DEF SameInside, Inside
  <2>9. /\ SessMoves(f, g, sess, sess') /\ LinkMoves(fr, <<t, n>>, g, sess, sess')
        /\ OwnerMoves(fr, <<t, n>>, g, sess', known, known)
        /\ CtxMoves(f, g, f.s, sess, sess', ctx, ctx)
        /\ CtxLinkMoves(fr, <<t, n>>, g, sess', ctx, ctx)
        /\ sess' = [s \in Sessions |-> sess'[s]]
    <3>1. Frees(f, g, f.s, sess, sess')
      BY <1>3, <1>4, <1>5, <1>7, <1>10, <2>1, <2>2, <2>5 DEF Frees
    <3>2. PICK x : x = <<t, n>>
      OBVIOUS
    <3>3. f = fr[x] /\ x \in Slots /\ f.s \in Sessions
      BY <1>3, <1>4, <3>2
    <3>4. StackInv(fr) /\ SessInv(fr, sess, known) /\ CtxInv(fr, sess, ctx)
      BY <1>6
    <3>5. /\ SessMoves(f, g, sess, sess') /\ LinkMoves(fr, x, g, sess, sess')
          /\ OwnerMoves(fr, x, g, sess', known, known)
          /\ CtxMoves(f, g, f.s, sess, sess', ctx, ctx)
          /\ CtxLinkMoves(fr, x, g, sess', ctx, ctx)
          /\ sess' = [s \in Sessions |-> sess'[s]]
      BY ONLY <3>1, <3>3, <3>4, FreeMoves
    <3> QED BY <3>2, <3>5
  <2>10. /\ BusyMoves(f, g, ctx, ctx)
         /\ LockMoves(fr, <<t, n>>, g, ctx, ctx, siThread, siCount, siThread, siCount)
    BY <1>3, <1>6, <2>7, <2>8, BusyQuiet
  <2>11. /\ OwnerMoves(fr, <<t, n>>, g, sess', known, known')
         /\ CtxMoves(f, g, f.s, sess, sess', ctx, ctx')
         /\ CtxLinkMoves(fr, <<t, n>>, g, sess', ctx, ctx')
         /\ BusyMoves(f, g, ctx, ctx')
         /\ LockMoves(fr, <<t, n>>, g, ctx, ctx', siThread, siCount, siThread', siCount')
    BY <1>3, <2>9, <2>10
  <2>12. ctx' = [c \in Ctxs |-> ctx'[c]] /\ crashed' \in BOOLEAN
    BY <1>3, <1>6, SameLemma
  <2> QED BY <1>3, <2>7, <2>9, <2>11, <2>12, TakeStep
<1> QED BY <1>9, <1>10

(* A session is opened at the free address r, with context c.              *)
Opens(f, g, r, c, S, T) ==
  /\ f.op = "open" /\ f.pc = "init" /\ ~f.held /\ f.list \in Ctxs \cup {Nsec}
  /\ g.op = "open" /\ g.pc = "entry" /\ ~g.held /\ g.s = r /\ g.c = c /\ g.list = f.list
  /\ S[r] = FreeSess
  /\ T = [S EXCEPT ![r] = [FreeSess EXCEPT !.ctx = c, !.list = f.list, !.ref = 1]]

LEMMA NobodyUses ==
  ASSUME NEW fm, NEW S, NEW K, StackInv(fm), SessInv(fm, S, K), NEW r \in Sessions,
         S[r] = FreeSess
  PROVE  /\ \A y \in Slots : HasRef(fm[y]) \/ Owns(fm[y]) => fm[y].s # r
         /\ r \notin K
<1>1. S[r].ref = 0 /\ S[r].list = NoCtx
  BY DEF FreeSess
<1>2. ASSUME NEW y \in Slots, HasRef(fm[y]) \/ Owns(fm[y]), fm[y].s = r PROVE FALSE
  <2>1. fm[y] # Gone
    BY <1>2 DEF HasRef, Owns, Gone
  <2>2. fm[y].list \in Ctxs \cup {Nsec}
    BY <2>1 DEF StackInv, GoodFrame, FrameRec
  <2>3. S[r].list = fm[y].list
    BY <1>2 DEF SessInv, SessLinks
  <2> QED BY <1>1, <2>2, <2>3, NoneAssumption
<1>3. r \notin K
  BY <1>1, NoneAssumption DEF SessInv, SessOwners
<1> QED BY <1>2, <1>3

LEMMA OpenMoves ==
  ASSUME NEW fm, NEW S, NEW T, NEW K, StackInv(fm), SessInv(fm, S, K), NEW x \in Slots,
         NEW f, f = fm[x], NEW g, NEW r \in Sessions, NEW c \in Ctxs, Opens(f, g, r, c, S, T)
  PROVE  /\ SessMoves(f, g, S, T) /\ LinkMoves(fm, x, g, S, T) /\ OwnerMoves(fm, x, g, T, K, K)
         /\ T = [s \in Sessions |-> T[s]]
<1>1. /\ S \in [Sessions -> SessRec]
      /\ \A s \in Sessions : S[s].ctx = NoCtx <=> S[s].list = NoCtx
  BY DEF SessInv
<1>2. ~HasRef(f) /\ ~Owns(f) /\ HasRef(g) /\ Owns(g)
  BY DEF HasRef, Owns, Opens
<1>3. /\ \A y \in Slots : HasRef(fm[y]) \/ Owns(fm[y]) => fm[y].s # r
      /\ r \notin K
  BY NobodyUses DEF Opens
<1>4. PICK v : v = [FreeSess EXCEPT !.ctx = c, !.list = f.list, !.ref = 1]
  OBVIOUS
<1>5. /\ v \in SessRec /\ v.ctx = c /\ v.list = f.list /\ v.ref = 1 /\ v.unlink = FALSE
  BY <1>4 DEF FreeSess, SessRec, Opens
<1>6. /\ T = [s \in Sessions |-> T[s]] /\ T[r] = v
      /\ \A s \in Sessions \ {r} : T[s] = S[s]
  BY <1>1, <1>4 DEF Opens
<1>7. SessMoves(f, g, S, T)
  <2>1. ASSUME NEW s \in Sessions
        PROVE  /\ T[s] \in SessRec
               /\ T[s].ctx = NoCtx <=> T[s].list = NoCtx
               /\ T[s].ref = S[s].ref + B(UserOf(g, s)) - B(UserOf(f, s))
                                      + B(HolderOf(g, s)) - B(HolderOf(f, s))
               /\ T[s].unlink => \/ S[s].unlink /\ ~(f.pc = "unlinkwait" /\ f.s = s)
                                 \/ g.pc = "unlinkwait" /\ g.s = s
    <3>1. B(UserOf(f, s)) = 0 /\ B(HolderOf(g, s)) = 0 /\ B(HolderOf(f, s)) = 0
      BY <1>2 DEF UserOf, HolderOf, B, Opens
    <3>2. B(UserOf(g, s)) = IF s = r THEN 1 ELSE 0
      BY <1>2 DEF UserOf, B, Opens
    <3>3. CASE s = r
      <4>1. S[s].ref = 0
        BY <3>3 DEF Opens, FreeSess
      <4>2. T[s].ref = S[s].ref + B(UserOf(g, s)) - B(UserOf(f, s))
                                + B(HolderOf(g, s)) - B(HolderOf(f, s))
        BY <1>5, <1>6, <3>1, <3>2, <3>3, <4>1
      <4>3. f.list # NoCtx /\ c # NoCtx
        BY NoneAssumption DEF Opens
      <4> QED BY <1>5, <1>6, <3>3, <4>2, <4>3
    <3>4. CASE s # r
      <4>1. T[s] = S[s] /\ S[s].ref \in Nat
        BY <1>1, <1>6, <3>4 DEF SessRec
      <4>2. T[s].ref = S[s].ref + B(UserOf(g, s)) - B(UserOf(f, s))
                                + B(HolderOf(g, s)) - B(HolderOf(f, s))
        BY <3>1, <3>2, <3>4, <4>1
      <4>3. f.pc # "unlinkwait"
        BY DEF Opens
      <4> QED BY <1>1, <3>4, <4>1, <4>2, <4>3
    <3> QED BY <3>3, <3>4
  <2> QED BY <2>1 DEF SessMoves
<1>8. LinkMoves(fm, x, g, S, T)
  BY <1>2, <1>3, <1>5, <1>6 DEF LinkMoves, Opens
<1>9. OwnerMoves(fm, x, g, T, K, K)
  <2>1. \A s \in K : s \in Sessions /\ S[s].list = Nsec /\ s # r
    BY <1>3 DEF SessInv, SessOwners
  <2>2. \A y \in Slots : Owns(fm[y]) => fm[y].s # r
    BY <1>3
  <2> QED BY <1>2, <1>6, <2>1, <2>2 DEF OwnerMoves, Opens
<1> QED BY <1>6, <1>7, <1>8, <1>9

(* Context c, loaded or free, becomes d with one reference more.           *)
Refers(C, D, c, d) ==
  /\ D = [C EXCEPT ![c] = d] /\ d \in CtxRec /\ d.ref = C[c].ref + 1 /\ d.linked /\ d.uuid # NoUuid
  /\ d.busy = C[c].busy
  /\ d.uuid \in SingleInstance \ MultiSession => d.ref <= 1
  /\ \/ C[c].linked /\ d.uuid = C[c].uuid
     \/ /\ C[c].uuid = NoUuid
        /\ d.uuid \in SingleInstance =>
             \A e \in Ctxs : ~(C[e].linked /\ C[e].uuid = d.uuid)

ListedBy(fm, x, f, C) == x \in Slots /\ fm[x] = f /\ (f.list \in Ctxs => C[f.list].uuid # NoUuid)

LEMMA ReferMoves ==
  ASSUME NEW fm, NEW S, NEW T, NEW K, NEW C, NEW D, NEW st, NEW sn, AllInv(fm, S, C, K, st, sn),
         NEW x, NEW f, ListedBy(fm, x, f, C), NEW g, NEW r \in Sessions, NEW c \in Ctxs, NEW d,
         Opens(f, g, r, c, S, T), Refers(C, D, c, d)
  PROVE  /\ CtxMoves(f, g, r, S, T, C, D) /\ CtxLinkMoves(fm, x, g, T, C, D)
         /\ BusyMoves(f, g, C, D) /\ LockMoves(fm, x, g, C, D, st, sn, st, sn)
         /\ D = [e \in Ctxs |-> D[e]]
<1>1. /\ StackInv(fm) /\ SessInv(fm, S, K) /\ CtxInv(fm, S, C) /\ LockInv(fm, C, st, sn)
  BY DEF AllInv
<1>2. x \in Slots /\ fm[x] = f /\ (f.list \in Ctxs => C[f.list].uuid # NoUuid)
  BY DEF ListedBy
<1>3. S \in [Sessions -> SessRec] /\ C \in [Ctxs -> CtxRec]
  BY <1>1 DEF SessInv, CtxInv
<1>4. PICK v : v = [FreeSess EXCEPT !.ctx = c, !.list = f.list, !.ref = 1]
  OBVIOUS
<1>5. v.ctx = c /\ v.list = f.list
  BY <1>4 DEF FreeSess
<1>6. T[r] = v /\ \A s \in Sessions \ {r} : T[s] = S[s]
  BY <1>3, <1>4 DEF Opens
<1>7. D = [e \in Ctxs |-> D[e]] /\ D[c] = d /\ \A e \in Ctxs \ {c} : D[e] = C[e]
  BY <1>3 DEF Refers
<1>8. /\ ~Inside(f) /\ ~Inside(g)
      /\ \A e \in Ctxs : ~DropsOf(f, e) /\ ~DropsOf(g, e)
  BY DEF Inside, DropsOf, Opens
<1>9. CtxMoves(f, g, r, S, T, C, D)
  <2>1. ASSUME NEW e \in Ctxs
        PROVE  D[e].ref = C[e].ref + B(r \in SessOf(T, e)) - B(r \in SessOf(S, e))
                                   + B(DropsOf(g, e)) - B(DropsOf(f, e))
    <3>1. C[e].ref \in Nat
      BY <1>3 DEF CtxRec
    <3>2. r \notin SessOf(S, e) /\ (r \in SessOf(T, e) <=> e = c)
      BY <1>5, <1>6, NoneAssumption DEF SessOf, Opens, FreeSess
    <3>3. /\ B(r \in SessOf(S, e)) = 0 /\ B(DropsOf(f, e)) = 0 /\ B(DropsOf(g, e)) = 0
          /\ B(r \in SessOf(T, e)) = IF e = c THEN 1 ELSE 0
      BY <1>8, <3>2 DEF B
    <3>4. D[e].ref = IF e = c THEN C[e].ref + 1 ELSE C[e].ref
      BY <1>7 DEF Refers
    <3> QED BY <3>1, <3>3, <3>4
  <2>2. ASSUME NEW e \in Ctxs
        PROVE  /\ D[e] \in CtxRec
               /\ ~D[e].linked => D[e].ref = 0
               /\ D[e].uuid = NoUuid => D[e] = FreeCtx
               /\ D[e].uuid \in SingleInstance \ MultiSession => D[e].ref <= 1
    <3>1. CASE e = c
      BY <1>7, <3>1 DEF Refers
    <3>2. CASE e # c
      BY <1>1, <1>3, <1>7, <3>2 DEF CtxInv, CtxLinks
    <3> QED BY <3>1, <3>2
  <2>3. \A s \in Sessions \ {r} : T[s].ctx = S[s].ctx
    BY <1>6
  <2> QED BY <2>1, <2>2, <2>3 DEF CtxMoves
<1>10. CtxLinkMoves(fm, x, g, T, C, D)
  <2>1. \A y \in Slots : fm[y].pc = "destroy" => /\ fm[y].c \in Ctxs /\ ~C[fm[y].c].linked
                                                 /\ C[fm[y].c].uuid # NoUuid
    <3>1. ASSUME NEW y \in Slots, fm[y].pc = "destroy" PROVE fm[y].c \in Ctxs
      BY <1>1, <3>1 DEF StackInv, GoodFrame, FrameOK, Gone, EnteredPcs
    <3> QED BY <1>1, <3>1 DEF CtxInv, CtxLinks
  <2>2. \A y \in Slots : fm[y].pc = "destroy" => ~D[fm[y].c].linked /\ D[fm[y].c].uuid # NoUuid
    BY <1>7, <2>1 DEF Refers
  <2>3. \A e \in Ctxs : C[e].uuid # NoUuid => D[e].uuid # NoUuid
    BY <1>7 DEF Refers
  <2>4. \A s \in Sessions : T[s].list \in Ctxs => D[T[s].list].uuid # NoUuid
    BY <1>1, <1>2, <1>5, <1>6, <2>3 DEF CtxInv, CtxLinks
  <2>5. ASSUME NEW e \in Ctxs, D[e].linked, D[e].uuid \in SingleInstance
        PROVE  \/ C[e].linked /\ D[e].uuid = C[e].uuid
               \/ \A h \in Ctxs \ {e} : ~(D[h].linked /\ D[h].uuid = D[e].uuid)
    <3>1. CASE e # c
      BY <1>7, <2>5, <3>1
    <3>2. CASE e = c
      BY <1>7, <2>5, <3>2 DEF Refers
    <3> QED BY <3>1, <3>2
  <2>6. g.pc # "destroy"
    BY DEF Opens
  <2> QED BY <1>2, <2>2, <2>4, <2>5, <2>6 DEF CtxLinkMoves
<1>11. BusyMoves(f, g, C, D)
  <2>1. ASSUME NEW e \in Ctxs
        PROVE  B(D[e].busy) = B(C[e].busy) + B(InsideOf(g, e)) - B(InsideOf(f, e))
    <3>1. B(InsideOf(g, e)) = 0 /\ B(InsideOf(f, e)) = 0 /\ B(C[e].busy) \in {0, 1}
      BY <1>8 DEF InsideOf, B
    <3>2. D[e].busy = C[e].busy
      BY <1>7 DEF Refers
    <3>3. B(D[e].busy) = B(C[e].busy)
      BY <3>2, Zenon
    <3> QED BY <3>1, <3>3
  <2> QED BY <2>1 DEF BusyMoves
<1>12. LockMoves(fm, x, g, C, D, st, sn, st, sn)
  <2>1. ASSUME NEW y \in Slots, Inside(fm[y]) PROVE fm[y].c \in Ctxs /\ D[fm[y].c].uuid = C[fm[y].c].uuid
    <3>1. fm[y].c \in Ctxs
      BY <1>1, <2>1 DEF StackInv, GoodFrame, FrameOK, Gone, EnteredPcs, Inside
    <3>2. C[fm[y].c].uuid # NoUuid
      BY <1>1, <3>1, NeededCtx
    <3> QED BY <1>7, <3>1, <3>2 DEF Refers
  <2>2. \A y \in Slots : Locks(fm[y], D) <=> Locks(fm[y], C)
    BY <2>1 DEF Locks
  <2>3. ~Locks(g, D) /\ ~Locks(f, C)
    BY <1>8 DEF Locks
  <2>4. B(Locks(g, D)) = 0 /\ B(Locks(f, C)) = 0 /\ sn \in Nat
    BY <1>1, <2>3 DEF B, LockInv
  <2>5. sn = sn + B(Locks(g, D)) - B(Locks(f, C))
    BY <2>4
  <2>6. st \in Threads \cup {NoThread} /\ (sn = 0 <=> st = NoThread)
    BY <1>1 DEF LockInv
  <2> QED BY <1>2, <2>2, <2>3, <2>5, <2>6 DEF LockMoves
<1> QED BY <1>7, <1>9, <1>10, <1>11, <1>12

LEMMA NewSessionStep ==
  ASSUME TaInv, NEW t \in Threads, At(t, "init"), NEW s \in Sessions, NEW c \in Ctxs, NEW d,
         Refers(ctx, ctx', c, d), NewSession(t, s, c)
  PROVE  TaInv'
<1>1. PICK f : f = Top(t)
  OBVIOUS
<1>2. PICK n : n = Len(stack[t])
  OBVIOUS
<1>3. /\ stack[t] # <<>> /\ f.pc = "init" /\ f \in FrameRec /\ FrameOK(f)
      /\ stack \in Stacks /\ n \in Nat \ {0} /\ <<t, n>> \in Slots /\ fr[<<t, n>>] = f
      /\ CalledFrom(fr, t, n, f.list)
      /\ UNCHANGED <<siThread, siCount, crashed, known>>
  BY <1>1, <1>2, TopFacts DEF At, NewSession
<1>4. f.op = "open" /\ ~f.held /\ ~f.kern /\ f.list \in Ctxs \cup {Nsec}
  BY <1>3 DEF FrameOK, InvokePcs, ClosePcs, CancelPcs, FrameRec, Ops
<1>5. /\ StackInv(fr) /\ SessInv(fr, sess, known) /\ CtxInv(fr, sess, ctx) /\ BusyInv(fr, ctx)
      /\ LockInv(fr, ctx, siThread, siCount) /\ crashed \in BOOLEAN
  BY DEF TaInv, AllInv
<1>6. PICK g : g = [f EXCEPT !.pc = "entry", !.s = s, !.c = c]
  OBVIOUS
<1>7. Become(t, g)
  BY <1>1, <1>6 DEF NewSession
<1>8. /\ g \in FrameRec /\ g.pc = "entry" /\ g.op = f.op /\ g.s = s /\ g.c = c
      /\ g.list = f.list /\ g.kern = f.kern /\ g.held = f.held
  BY <1>3, <1>6 DEF FrameRec, PCs
<1>9. FrameOK(g)
  BY <1>4, <1>8 DEF FrameOK, OpenPcs, EnteredPcs
<1>10. Shifts(t, n, g) /\ GoodFrame(g) /\ CalledFrom(fr, t, n, g.list)
  BY <1>2, <1>3, <1>7, <1>8, <1>9, BecomeLemma DEF GoodFrame
<1>11. Opens(f, g, s, c, sess, sess')
  BY <1>1, <1>3, <1>4, <1>8 DEF Opens, NewSession
<1>12. f.list \in Ctxs => ctx[f.list].uuid # NoUuid
  <2>1. ASSUME f.list \in Ctxs PROVE ctx[f.list].uuid # NoUuid
    <3>1. n > 1 /\ f.list = fr[<<t, n - 1>>].c
      BY <1>3, <2>1, NoneAssumption DEF CalledFrom
    <3>2. <<t, n - 1>> \in Slots
      BY <1>3, <3>1 DEF Slots
    <3>3. PICK y : y = <<t, n - 1>>
      OBVIOUS
    <3>4. y \in Slots /\ fr[y].c = f.list
      BY <3>1, <3>2, <3>3
    <3>5. ctx[fr[y].c].uuid # NoUuid
      BY <1>5, <2>1, <3>4, NeededCtx
    <3> QED BY <3>4, <3>5
  <2> QED BY <2>1
<1>13. PICK x : x = <<t, n>>
  OBVIOUS
<1>14. x \in Slots /\ f = fr[x]
  BY <1>3, <1>13
<1>15. /\ SessMoves(f, g, sess, sess') /\ LinkMoves(fr, x, g, sess, sess')
       /\ OwnerMoves(fr, x, g, sess', known, known) /\ sess' = [r \in Sessions |-> sess'[r]]
  BY <1>5, <1>11, <1>14, OpenMoves
<1>16. /\ CtxMoves(f, g, s, sess, sess', ctx, ctx') /\ CtxLinkMoves(fr, x, g, sess', ctx, ctx')
       /\ BusyMoves(f, g, ctx, ctx')
       /\ LockMoves(fr, x, g, ctx, ctx', siThread, siCount, siThread, siCount)
       /\ ctx' = [e \in Ctxs |-> ctx'[e]]
  <2>1. s \in Sessions /\ c \in Ctxs /\ Refers(ctx, ctx', c, d)
    OBVIOUS
  <2>2. AllInv(fr, sess, ctx, known, siThread, siCount)
    BY DEF TaInv
  <2>3. ListedBy(fr, x, f, ctx)
    BY <1>12, <1>14 DEF ListedBy
  <2> QED BY ONLY <1>11, <2>1, <2>2, <2>3, ReferMoves
<1>17. /\ LinkMoves(fr, <<t, n>>, g, sess, sess')
       /\ OwnerMoves(fr, <<t, n>>, g, sess', known, known')
       /\ CtxLinkMoves(fr, <<t, n>>, g, sess', ctx, ctx')
       /\ LockMoves(fr, <<t, n>>, g, ctx, ctx', siThread, siCount, siThread', siCount')
       /\ crashed' \in BOOLEAN
  BY <1>3, <1>5, <1>13, <1>15, <1>16
<1> QED BY <1>3, <1>10, <1>15, <1>16, <1>17, TakeStep

LEMMA InitSessionStep ==
  ASSUME TaInv, NEW t \in Threads, NEW s \in Sessions, init_session_with_context(t, s)
  PROVE  TaInv'
<1>1. PICK u : u = Top(t).u
  OBVIOUS
<1>2. /\ At(t, "init") /\ u \in SingleInstance
      /\ \E c \in Loaded(u) : /\ u \in MultiSession \/ (u \in KeepAlive /\ ctx[c].ref = 0)
                              /\ ctx' = [ctx EXCEPT ![c].ref = @ + 1]
                              /\ NewSession(t, s, c)
  BY <1>1 DEF init_session_with_context
<1>3. PICK c \in Ctxs : /\ ctx[c].linked /\ ctx[c].uuid = u
                        /\ u \in MultiSession \/ ctx[c].ref = 0
                        /\ ctx' = [ctx EXCEPT ![c].ref = @ + 1]
                        /\ NewSession(t, s, c)
  BY <1>2 DEF Loaded
<1>4. ctx[c] \in CtxRec /\ ctx[c].ref \in Nat
  BY DEF TaInv, AllInv, CtxInv, CtxRec
<1>5. PICK k : k = ctx[c].ref + 1
  OBVIOUS
<1>6. k \in Nat
  BY <1>4, <1>5
<1>7. PICK d : d = [ctx[c] EXCEPT !.ref = k]
  OBVIOUS
<1>8. /\ d \in CtxRec /\ d.ref = k /\ d.linked = ctx[c].linked /\ d.uuid = ctx[c].uuid
      /\ d.busy = ctx[c].busy
  BY <1>4, <1>6, <1>7 DEF CtxRec
<1>9. ctx' = [ctx EXCEPT ![c] = d]
  BY <1>3, <1>5, <1>7
<1>10. u # NoUuid
  BY <1>2, FlagsAssumption, NoneAssumption
<1>11. u \in SingleInstance \ MultiSession => k <= 1
  BY <1>3, <1>5
<1>12. Refers(ctx, ctx', c, d)
  BY <1>3, <1>5, <1>8, <1>9, <1>10, <1>11 DEF Refers
<1> QED BY <1>2, <1>3, <1>12, NewSessionStep

LEMMA InitTaStep ==
  ASSUME TaInv, NEW t \in Threads, NEW s \in Sessions, NEW c \in Ctxs, init_ta_session(t, s, c)
  PROVE  TaInv'
<1>1. PICK u : u = Top(t).u
  OBVIOUS
<1>2. /\ At(t, "init") /\ (u \in SingleInstance => Loaded(u) = {}) /\ ctx[c] = FreeCtx
      /\ ctx' = [ctx EXCEPT ![c] = NewContext(u)] /\ NewSession(t, s, c)
  BY <1>1 DEF init_ta_session
<1>3. u \in Uuids
  BY <1>1, <1>2, TopFacts DEF At, FrameOK
<1>4. PICK d : d = NewContext(u)
  OBVIOUS
<1>5. /\ d \in CtxRec /\ d.ref = 1 /\ d.linked = TRUE /\ d.uuid = u /\ d.busy = FALSE
  BY <1>3, <1>4 DEF NewContext, FreeCtx, CtxRec
<1>6. ctx[c].ref = 0 /\ ctx[c].busy = FALSE /\ ctx[c].uuid = NoUuid
  BY <1>2 DEF FreeCtx
<1>7. u \in SingleInstance => \A e \in Ctxs : ~(ctx[e].linked /\ ctx[e].uuid = u)
  BY <1>2 DEF Loaded
<1>8. Refers(ctx, ctx', c, d)
  <2>1. ctx' = [ctx EXCEPT ![c] = d] /\ d.uuid # NoUuid /\ d.busy = ctx[c].busy
    BY <1>2, <1>3, <1>4, <1>5, <1>6, NoneAssumption
  <2>2. d.ref = ctx[c].ref + 1 /\ d.ref <= 1
    BY <1>5, <1>6
  <2>3. d.uuid \in SingleInstance => \A e \in Ctxs : ~(ctx[e].linked /\ ctx[e].uuid = d.uuid)
    BY <1>5, <1>7
  <2> QED BY <1>5, <1>6, <2>1, <2>2, <2>3 DEF Refers
<1> QED BY <1>2, <1>8, NewSessionStep

(* A call that has no session changes context c to d, and nothing else.    *)
LEMMA CtxOnly ==
  ASSUME TaInv, NEW t \in Threads, NEW n, NEW x, x = <<t, n>>, NEW f, fr[x] = f, NEW g,
         Shifts(t, n, g), GoodFrame(g), g = Gone \/ CalledFrom(fr, t, n, g.list),
         ~HasRef(f), ~f.held, ~Owns(f), f.pc # "unlinkwait", ~HasRef(g), ~g.held, ~Owns(g),
         ctx' = [e \in Ctxs |-> ctx'[e]],
         CtxMoves(f, g, NoSess, sess, sess, ctx, ctx'), CtxLinkMoves(fr, x, g, sess, ctx, ctx'),
         BusyMoves(f, g, ctx, ctx'),
         LockMoves(fr, x, g, ctx, ctx', siThread, siCount, siThread, siCount),
         UNCHANGED <<siThread, siCount, sess, crashed, known>>
  PROVE  TaInv'
<1>1. /\ StackInv(fr) /\ SessInv(fr, sess, known) /\ crashed \in BOOLEAN /\ x \in Slots
  BY DEF TaInv, AllInv, Shifts
<1>2. SameSess(sess, sess) /\ sess = [s \in Sessions |-> sess[s]]
  BY SameLemma
<1>3. SameRefs(f, g)
  BY DEF SameRefs
<1>4. /\ SessMoves(f, g, sess, sess) /\ LinkMoves(fr, x, g, sess, sess)
      /\ OwnerMoves(fr, x, g, sess, known, known)
  BY <1>1, <1>2, <1>3, SessQuiet
<1>5. /\ SessMoves(f, g, sess, sess') /\ LinkMoves(fr, <<t, n>>, g, sess, sess')
      /\ OwnerMoves(fr, <<t, n>>, g, sess', known, known')
      /\ CtxMoves(f, g, NoSess, sess, sess', ctx, ctx')
      /\ CtxLinkMoves(fr, <<t, n>>, g, sess', ctx, ctx')
      /\ LockMoves(fr, <<t, n>>, g, ctx, ctx', siThread, siCount, siThread', siCount')
      /\ crashed' \in BOOLEAN /\ sess' = [s \in Sessions |-> sess'[s]] /\ fr[<<t, n>>] = f
  BY <1>1, <1>2, <1>4
<1> QED BY <1>5, TakeStep

LEMMA DropContextStep ==
  ASSUME TaInv, NEW t \in Threads, drop_context(t)
  PROVE  TaInv'
<1>1. PICK f : f = Top(t)
  OBVIOUS
<1>2. PICK n : n = Len(stack[t])
  OBVIOUS
<1>3. PICK x : x = <<t, n>>
  OBVIOUS
<1>4. /\ stack[t] # <<>> /\ f.pc = "deref" /\ f \in FrameRec /\ FrameOK(f)
      /\ stack \in Stacks /\ x \in Slots /\ fr[x] = f /\ CalledFrom(fr, t, n, f.list)
      /\ UNCHANGED <<siThread, siCount, sess, crashed, known>>
  BY <1>1, <1>2, <1>3, TopFacts DEF drop_context, At
<1>5. f.op = "close" /\ f.s \in Sessions /\ f.c \in Ctxs /\ ~f.held
  BY <1>4 DEF FrameOK, EnteredPcs, OpenPcs, InvokePcs, CancelPcs, FrameRec, Ops
<1>6. /\ StackInv(fr) /\ CtxInv(fr, sess, ctx) /\ BusyInv(fr, ctx)
      /\ LockInv(fr, ctx, siThread, siCount) /\ ctx \in [Ctxs -> CtxRec]
  BY DEF TaInv, AllInv, CtxInv
<1>7. PICK c : c = f.c
  OBVIOUS
<1>8. c \in Ctxs /\ ctx[c].ref >= 1 /\ ctx[c].linked /\ ctx[c].uuid # NoUuid
  BY <1>1, <1>4, <1>5, <1>7, TopFacts
<1>9. ctx[c] \in CtxRec /\ ctx[c].ref \in Nat /\ ctx[c].linked \in BOOLEAN
  BY <1>6, <1>8 DEF CtxRec
<1>10. PICK last \in BOOLEAN : last <=> (ctx[c].ref = 1 /\ ~Kept(c))
  BY Zenon
<1>11. /\ ctx' = [ctx EXCEPT ![c].ref = @ - 1, ![c].linked = @ /\ ~(ctx[c].ref = 1 /\ ~Kept(c))]
       /\ IF last THEN Goto(t, "destroy") ELSE Return(t)
  BY <1>1, <1>7, <1>10 DEF drop_context
<1>12. PICK k : k = ctx[c].ref - 1
  OBVIOUS
<1>13. k \in Nat /\ (last => k = 0)
  BY <1>8, <1>9, <1>10, <1>12
<1>14. PICK b \in BOOLEAN : b <=> ~last
  BY Zenon
<1>15. PICK d : d = [ctx[c] EXCEPT !.ref = k, !.linked = b]
  OBVIOUS
<1>16. ctx' = [ctx EXCEPT ![c] = d]
  <2>1. b = (ctx[c].linked /\ ~(ctx[c].ref = 1 /\ ~Kept(c)))
    BY <1>8, <1>9, <1>10, <1>14
  <2> QED BY <1>6, <1>8, <1>9, <1>11, <1>12, <1>15, <2>1
<1>17. /\ d \in CtxRec /\ d.ref = k /\ d.linked = b /\ d.uuid = ctx[c].uuid
       /\ d.busy = ctx[c].busy
  BY <1>9, <1>13, <1>15 DEF CtxRec
<1>18. /\ ctx' = [e \in Ctxs |-> ctx'[e]] /\ ctx'[c] = d
       /\ \A e \in Ctxs \ {c} : ctx'[e] = ctx[e]
  BY <1>6, <1>8, <1>16
<1>19. PICK g : g = IF last THEN [f EXCEPT !.pc = "destroy"] ELSE Gone
  OBVIOUS
<1>20. /\ ~HasRef(g) /\ ~g.held /\ ~Owns(g) /\ ~Inside(g) /\ (\A e \in Ctxs : ~DropsOf(g, e))
       /\ GoodFrame(g) /\ (g = Gone \/ CalledFrom(fr, t, n, g.list))
       /\ Shifts(t, n, g)
       /\ (g.pc = "destroy" => last /\ g.c = c)
  <2>1. CASE last
    <3>1. g = [f EXCEPT !.pc = "destroy"]
      BY <1>19, <2>1
    <3>2. /\ g \in FrameRec /\ g.pc = "destroy" /\ g.op = f.op /\ g.s = f.s /\ g.c = f.c
          /\ g.list = f.list /\ g.kern = f.kern /\ g.held = f.held
      BY <1>4, <3>1 DEF FrameRec, PCs
    <3>3. FrameOK(g)
      BY <1>4, <1>5, <3>2 DEF FrameOK, ClosePcs, EnteredPcs
    <3>4. Become(t, g)
      BY <1>1, <1>11, <2>1, <3>1 DEF Goto
    <3>5. Shifts(t, n, g)
      BY <1>2, <1>4, <3>2, <3>4, BecomeLemma
    <3>6. ~HasRef(g) /\ ~g.held /\ ~Owns(g) /\ ~Inside(g) /\ (\A e \in Ctxs : ~DropsOf(g, e))
      BY <1>5, <3>2 DEF HasRef, Owns, Inside, DropsOf
    <3> QED BY <1>4, <1>7, <2>1, <3>2, <3>3, <3>5, <3>6 DEF GoodFrame
  <2>2. CASE ~last
    <3>1. g = Gone /\ Return(t)
      BY <1>11, <1>19, <2>2
    <3>2. Shifts(t, n, g)
      BY <1>2, <1>4, <3>1, ReturnLemma
    <3>3. /\ ~HasRef(g) /\ ~g.held /\ ~Owns(g) /\ ~Inside(g) /\ (\A e \in Ctxs : ~DropsOf(g, e))
          /\ g.pc = "get"
      BY <3>1 DEF HasRef, Owns, Inside, DropsOf, Gone
    <3> QED BY <3>1, <3>2, <3>3 DEF GoodFrame
  <2> QED BY <2>1, <2>2
<1>21. ~HasRef(f) /\ ~Owns(f) /\ ~Inside(f) /\ \A e \in Ctxs : DropsOf(f, e) <=> e = c
  BY <1>4, <1>5, <1>7 DEF HasRef, Owns, Inside, DropsOf
<1>22. CtxMoves(f, g, NoSess, sess, sess, ctx, ctx')
  <2>1. ASSUME NEW e \in Ctxs
        PROVE  ctx'[e].ref = ctx[e].ref + B(NoSess \in SessOf(sess, e)) - B(NoSess \in SessOf(sess, e))
                                        + B(DropsOf(g, e)) - B(DropsOf(f, e))
    <3>1. B(NoSess \in SessOf(sess, e)) = 0
      BY NoneAssumption DEF SessOf, B
    <3>2. B(DropsOf(g, e)) = 0 /\ B(DropsOf(f, e)) = IF e = c THEN 1 ELSE 0
      BY <1>20, <1>21 DEF B
    <3>3. ctx[e].ref \in Nat
      BY <1>6 DEF CtxRec
    <3>4. ctx'[e].ref = IF e = c THEN ctx[e].ref - 1 ELSE ctx[e].ref
      BY <1>12, <1>17, <1>18
    <3> QED BY <3>1, <3>2, <3>3, <3>4
  <2>2. ASSUME NEW e \in Ctxs
        PROVE  /\ ctx'[e] \in CtxRec
               /\ ~ctx'[e].linked => ctx'[e].ref = 0
               /\ ctx'[e].uuid = NoUuid => ctx'[e] = FreeCtx
               /\ ctx'[e].uuid \in SingleInstance \ MultiSession => ctx'[e].ref <= 1
    <3>1. /\ ~ctx[e].linked => ctx[e].ref = 0
          /\ ctx[e].uuid = NoUuid => ctx[e] = FreeCtx
          /\ ctx[e].uuid \in SingleInstance \ MultiSession => ctx[e].ref <= 1
      BY <1>6 DEF CtxInv, CtxLinks
    <3>2. CASE e = c
      <4>1. ~b => k = 0
        BY <1>13, <1>14
      <4>2. k <= ctx[c].ref
        BY <1>9, <1>12
      <4>3. d.uuid \in SingleInstance \ MultiSession => k <= 1
        BY <1>9, <1>13, <1>17, <3>1, <3>2, <4>2
      <4> QED BY <1>8, <1>17, <1>18, <3>2, <4>1, <4>3
    <3>3. CASE e # c
      BY <1>6, <1>18, <3>1, <3>3
    <3> QED BY <3>2, <3>3
  <2> QED BY <2>1, <2>2 DEF CtxMoves
<1>23. CtxLinkMoves(fr, x, g, sess, ctx, ctx')
  <2>1. \A y \in Slots : fr[y].pc = "destroy" => fr[y].c \in Ctxs
    <3>1. ASSUME NEW y \in Slots, fr[y].pc = "destroy" PROVE fr[y].c \in Ctxs
      BY <1>6, <3>1 DEF StackInv, GoodFrame, FrameOK, Gone, EnteredPcs
    <3> QED BY <3>1
  <2>2. \A y \in Slots : fr[y].pc = "destroy" => ~ctx[fr[y].c].linked /\ ctx[fr[y].c].uuid # NoUuid
    BY <1>6 DEF CtxInv, CtxLinks
  <2>3. \A y \in Slots : fr[y].pc = "destroy" => fr[y].c # c /\ ctx'[fr[y].c] = ctx[fr[y].c]
    BY <1>8, <1>18, <2>1, <2>2
  <2>4. g.pc = "destroy" => ~ctx'[g.c].linked /\ ctx'[g.c].uuid # NoUuid /\ g.c = c
    BY <1>8, <1>14, <1>17, <1>18, <1>20
  <2>5. \A s \in Sessions : sess[s].list \in Ctxs => ctx[sess[s].list].uuid # NoUuid
    BY <1>6 DEF CtxInv, CtxLinks
  <2>6. \A e \in Ctxs : ctx'[e].uuid = ctx[e].uuid
    BY <1>17, <1>18
  <2>7. \A s \in Sessions : sess[s].list \in Ctxs => ctx'[sess[s].list].uuid # NoUuid
    BY <2>5, <2>6
  <2>8. \A e \in Ctxs : ctx'[e].linked => ctx[e].linked
    BY <1>8, <1>18
  <2> QED BY <2>2, <2>3, <2>4, <2>6, <2>7, <2>8 DEF CtxLinkMoves
<1>24. /\ BusyMoves(f, g, ctx, ctx')
       /\ LockMoves(fr, x, g, ctx, ctx', siThread, siCount, siThread, siCount)
  <2>1. \A e \in Ctxs : ctx'[e].busy = ctx[e].busy /\ ctx'[e].uuid = ctx[e].uuid
    BY <1>17, <1>18
  <2>2. SameInside(f, g)
    BY <1>20, <1>21 DEF SameInside
  <2> QED BY <1>4, <1>6, <1>20, <2>1, <2>2, BusyQuiet
<1>25. f.pc # "unlinkwait"
  BY <1>4
<1> QED BY <1>3, <1>4, <1>5, <1>18, <1>20, <1>21, <1>22, <1>23, <1>24, <1>25, CtxOnly

LEMMA DestroyStep ==
  ASSUME TaInv, NEW t \in Threads, ctx_destroy(t)
  PROVE  TaInv'
<1>1. PICK f : f = Top(t)
  OBVIOUS
<1>2. PICK n : n = Len(stack[t])
  OBVIOUS
<1>3. PICK x : x = <<t, n>>
  OBVIOUS
<1>4. /\ stack[t] # <<>> /\ f.pc = "destroy" /\ f \in FrameRec /\ FrameOK(f)
      /\ stack \in Stacks /\ x \in Slots /\ fr[x] = f
      /\ UNCHANGED <<siThread, siCount, sess, crashed, known>>
  BY <1>1, <1>2, <1>3, TopFacts DEF ctx_destroy, At
<1>5. f.op = "close" /\ f.c \in Ctxs /\ ~f.held
  BY <1>4 DEF FrameOK, EnteredPcs, OpenPcs, InvokePcs, CancelPcs, FrameRec, Ops
<1>6. /\ StackInv(fr) /\ SessInv(fr, sess, known) /\ CtxInv(fr, sess, ctx) /\ BusyInv(fr, ctx)
      /\ LockInv(fr, ctx, siThread, siCount) /\ ctx \in [Ctxs -> CtxRec]
  BY DEF TaInv, AllInv, CtxInv
<1>7. PICK c : c = f.c
  OBVIOUS
<1>8. CASE \E s \in {r \in Sessions : sess[r].list = c} : Push(t, CloseKern(s, c)) /\ UNCHANGED ctx
  <2>1. PICK s \in Sessions : sess[s].list = c /\ Push(t, CloseKern(s, c)) /\ UNCHANGED ctx
    BY <1>8
  <2>2. PICK g : g = CloseKern(s, c)
    OBVIOUS
  <2>3. /\ g \in FrameRec /\ FrameOK(g) /\ g.op = "close" /\ g.pc = "get"
        /\ g.s = s /\ g.list = c /\ ~g.held
    BY <1>5, <1>7, <2>2, CloseKernFacts
  <2>4. Push(t, g)
    BY <2>1, <2>2
  <2>5. c # Nsec
    BY <1>5, <1>7, NoneAssumption
  <2>6. known' = IF g.op = "close" /\ c = Nsec THEN known \ {g.s} ELSE known
    BY <1>4, <2>5
  <2>7. stack[t] # <<>> /\ Top(t).pc \in {"run", "destroy"} /\ c = Top(t).c
    BY <1>1, <1>4, <1>7
  <2> QED BY <1>4, <2>1, <2>3, <2>4, <2>5, <2>6, <2>7, CallLemma
<1>9. CASE {r \in Sessions : sess[r].list = c} = {} /\ Return(t) /\ ctx' = [ctx EXCEPT ![c] = FreeCtx]
  <2>1. PICK g : g = Gone
    OBVIOUS
  <2>2. /\ ~HasRef(g) /\ ~g.held /\ ~Owns(g) /\ ~Inside(g) /\ (\A e \in Ctxs : ~DropsOf(g, e))
        /\ g.pc = "get" /\ GoodFrame(g)
    BY <2>1 DEF HasRef, Owns, Inside, DropsOf, Gone, GoodFrame
  <2>3. Shifts(t, n, g)
    BY <1>2, <1>4, <1>9, <2>1, ReturnLemma
  <2>4. ~HasRef(f) /\ ~Owns(f) /\ ~Inside(f) /\ \A e \in Ctxs : ~DropsOf(f, e)
    BY <1>4, <1>5 DEF HasRef, Owns, Inside, DropsOf
  <2>5. /\ ctx' = [e \in Ctxs |-> ctx'[e]] /\ ctx'[c] = FreeCtx /\ c \in Ctxs
        /\ \A e \in Ctxs \ {c} : ctx'[e] = ctx[e]
    BY <1>5, <1>6, <1>7, <1>9
  <2>6. /\ FreeCtx \in CtxRec /\ FreeCtx.ref = 0 /\ FreeCtx.linked = FALSE
        /\ FreeCtx.busy = FALSE /\ FreeCtx.uuid = NoUuid
    BY DEF FreeCtx, CtxRec
  <2>7. ~ctx[c].linked /\ ctx[c].ref = 0
    BY <1>4, <1>6, <1>7, <2>5 DEF CtxInv, CtxLinks
  <2>8. \A y \in Slots : fr[y].c = c => fr[y].pc = "destroy" /\ y = x
    <3>1. \A y \in Slots : fr[y].c = c => fr[y].pc = "destroy"
      BY <1>6, <2>5, <2>7, NeededCtx
    <3> QED BY <1>4, <1>6, <1>7, <3>1 DEF CtxInv, CtxLinks
  <2>9. CtxMoves(f, g, NoSess, sess, sess, ctx, ctx')
    <3>1. ASSUME NEW e \in Ctxs
          PROVE  ctx'[e].ref = ctx[e].ref + B(NoSess \in SessOf(sess, e)) - B(NoSess \in SessOf(sess, e))
                                          + B(DropsOf(g, e)) - B(DropsOf(f, e))
      <4>1. B(NoSess \in SessOf(sess, e)) = 0
        BY NoneAssumption DEF SessOf, B
      <4>2. B(DropsOf(g, e)) = 0 /\ B(DropsOf(f, e)) = 0
        BY <2>2, <2>4 DEF B
      <4>3. ctx[e].ref \in Nat
        BY <1>6 DEF CtxRec
      <4>4. ctx'[e].ref = ctx[e].ref
        BY <2>5, <2>6, <2>7
      <4> QED BY <4>1, <4>2, <4>3, <4>4
    <3>2. ASSUME NEW e \in Ctxs
          PROVE  /\ ctx'[e] \in CtxRec
                 /\ ~ctx'[e].linked => ctx'[e].ref = 0
                 /\ ctx'[e].uuid = NoUuid => ctx'[e] = FreeCtx
                 /\ ctx'[e].uuid \in SingleInstance \ MultiSession => ctx'[e].ref <= 1
      <4>1. /\ ~ctx[e].linked => ctx[e].ref = 0
            /\ ctx[e].uuid = NoUuid => ctx[e] = FreeCtx
            /\ ctx[e].uuid \in SingleInstance \ MultiSession => ctx[e].ref <= 1
        BY <1>6 DEF CtxInv, CtxLinks
      <4>2. CASE e = c
        BY <2>5, <2>6, <4>2
      <4>3. CASE e # c
        BY <1>6, <2>5, <4>1, <4>3
      <4> QED BY <4>2, <4>3
    <3> QED BY <3>1, <3>2 DEF CtxMoves
  <2>10. CtxLinkMoves(fr, x, g, sess, ctx, ctx')
    <3>1. \A y \in Slots : fr[y].pc = "destroy" => fr[y].c \in Ctxs
      <4>1. ASSUME NEW y \in Slots, fr[y].pc = "destroy" PROVE fr[y].c \in Ctxs
        BY <1>6, <4>1 DEF StackInv, GoodFrame, FrameOK, Gone, EnteredPcs
      <4> QED BY <4>1
    <3>2. \A y \in Slots : fr[y].pc = "destroy" => ~ctx[fr[y].c].linked /\ ctx[fr[y].c].uuid # NoUuid
      BY <1>6 DEF CtxInv, CtxLinks
    <3>3. \A y \in Slots \ {x} : fr[y].pc = "destroy" =>
            ~ctx'[fr[y].c].linked /\ ctx'[fr[y].c].uuid # NoUuid
      BY <2>5, <2>8, <3>1, <3>2
    <3>4. \A s \in Sessions : sess[s].list \in Ctxs => ctx[sess[s].list].uuid # NoUuid
      BY <1>6 DEF CtxInv, CtxLinks
    <3>5. \A s \in Sessions : sess[s].list # c
      BY <1>9
    <3>6. \A s \in Sessions : sess[s].list \in Ctxs => ctx'[sess[s].list].uuid # NoUuid
      BY <2>5, <3>4, <3>5
    <3>7. \A e \in Ctxs : ctx'[e].linked => ctx[e].linked /\ ctx'[e].uuid = ctx[e].uuid
      BY <2>5, <2>6
    <3> QED BY <2>2, <3>3, <3>6, <3>7 DEF CtxLinkMoves
  <2>11. BusyMoves(f, g, ctx, ctx')
    <3>1. ASSUME NEW e \in Ctxs
          PROVE  B(ctx'[e].busy) = B(ctx[e].busy) + B(InsideOf(g, e)) - B(InsideOf(f, e))
      <4>1. B(InsideOf(g, e)) = 0 /\ B(InsideOf(f, e)) = 0
        BY <2>2, <2>4 DEF InsideOf, B
      <4>2. CASE e = c
        <5>1. InsidersOf(fr, c) = {}
          BY <1>4, <2>4, <2>8 DEF InsidersOf, InsideOf
        <5>2. IsFiniteSet(InsidersOf(fr, c)) /\ Cardinality(InsidersOf(fr, c)) = B(ctx[c].busy)
          BY <1>6, <2>5 DEF BusyInv
        <5>3. B(ctx[e].busy) = 0
          BY <4>2, <5>1, <5>2, CountFacts
        <5>4. B(ctx'[e].busy) = 0
          BY <2>5, <2>6, <4>2 DEF B
        <5> QED BY <4>1, <5>3, <5>4
      <4>3. CASE e # c
        <5>1. ctx'[e].busy = ctx[e].busy
          BY <2>5, <4>3
        <5>2. B(ctx'[e].busy) = B(ctx[e].busy)
          BY <5>1, Zenon
        <5>3. B(ctx[e].busy) \in {0, 1}
          BY DEF B
        <5> QED BY <4>1, <5>2, <5>3
      <4> QED BY <4>2, <4>3
    <3> QED BY <3>1 DEF BusyMoves
  <2>12. LockMoves(fr, x, g, ctx, ctx', siThread, siCount, siThread, siCount)
    <3>1. ASSUME NEW y \in Slots, Inside(fr[y])
          PROVE  fr[y].c \in Ctxs /\ ctx'[fr[y].c].uuid = ctx[fr[y].c].uuid
      <4>1. fr[y].c \in Ctxs
        BY <1>6, <3>1 DEF StackInv, GoodFrame, FrameOK, Gone, EnteredPcs, Inside
      <4>2. fr[y].c # c
        BY <2>8, <3>1 DEF Inside
      <4> QED BY <2>5, <4>1, <4>2
    <3>2. \A y \in Slots : Locks(fr[y], ctx') <=> Locks(fr[y], ctx)
      BY <3>1 DEF Locks
    <3>3. ~Locks(g, ctx') /\ ~Locks(f, ctx)
      BY <2>2, <2>4 DEF Locks
    <3>4. B(Locks(g, ctx')) = 0 /\ B(Locks(f, ctx)) = 0 /\ siCount \in Nat
      BY <1>6, <3>3 DEF B, LockInv
    <3>5. siCount = siCount + B(Locks(g, ctx')) - B(Locks(f, ctx))
      BY <3>4
    <3>6. siThread \in Threads \cup {NoThread} /\ (siCount = 0 <=> siThread = NoThread)
      BY <1>6 DEF LockInv
    <3> QED BY <1>4, <3>2, <3>3, <3>5, <3>6 DEF LockMoves
  <2>13. f.pc # "unlinkwait"
    BY <1>4
  <2> QED BY <1>3, <1>4, <1>5, <2>1, <2>2, <2>3, <2>4, <2>5, <2>9, <2>10, <2>11, <2>12, <2>13, CtxOnly
<1> QED BY <1>1, <1>7, <1>8, <1>9 DEF ctx_destroy

-----------------------------------------------------------------------------
LEMMA InitTaInv == Init => TaInv
<1> SUFFICES ASSUME Init PROVE TaInv
  OBVIOUS
<1>1. fr = [x \in Slots |-> Gone]
  <2>1. ASSUME NEW x \in Slots PROVE ~(x[2] <= Len(stack[x[1]]))
    <3>1. PICK t \in Threads, n \in Nat \ {0} : x = <<t, n>>
      BY DEF Slots
    <3>2. stack[t] = <<>> /\ Len(stack[t]) = 0
      BY DEF Init
    <3> QED BY <3>1, <3>2
  <2> QED BY <2>1 DEF fr
<1>2. \A x \in Slots : fr[x] = Gone
  BY <1>1
<1>3. /\ ~HasRef(Gone) /\ ~Owns(Gone) /\ ~Gone.held /\ ~Inside(Gone) /\ Gone.pc = "get"
      /\ \A c : ~DropsOf(Gone, c)
  BY DEF HasRef, Owns, Inside, DropsOf, Gone
<1>4. IsFiniteSet({}) /\ Cardinality({}) = 0
  BY FS_EmptySet
<1>5. StackInv(fr)
  <2>1. fr = [x \in Slots |-> fr[x]]
    BY <1>1
  <2>2. \A t \in Threads, n \in Nat \ {0} : <<t, n>> \in Slots
    BY DEF Slots
  <2> QED BY <1>2, <2>1, <2>2 DEF StackInv, GoodFrame
<1>6. /\ FreeSess \in SessRec /\ FreeSess.ref = 0 /\ FreeSess.unlink = FALSE
      /\ FreeSess.ctx = NoCtx /\ FreeSess.list = NoCtx
  BY DEF FreeSess, SessRec
<1>7. sess \in [Sessions -> SessRec] /\ \A s \in Sessions : sess[s] = FreeSess
  BY <1>6 DEF Init
<1>8. SessInv(fr, sess, known)
  <2>1. \A s \in Sessions : UsersOf(fr, s) = {} /\ HoldersOf(fr, s) = {}
    BY <1>2, <1>3 DEF UsersOf, HoldersOf, UserOf, HolderOf
  <2>2. SessRefs(fr, sess)
    BY <1>4, <1>6, <1>7, <2>1 DEF SessRefs
  <2>3. SessLinks(fr, sess)
    BY <1>2, <1>3 DEF SessLinks
  <2>4. SessOwners(fr, sess, known)
    BY <1>2, <1>3, <1>6, <1>7 DEF SessOwners, Init
  <2> QED BY <1>6, <1>7, <2>2, <2>3, <2>4 DEF SessInv
<1>9. /\ FreeCtx \in CtxRec /\ FreeCtx.ref = 0 /\ FreeCtx.linked = FALSE
      /\ FreeCtx.busy = FALSE /\ FreeCtx.uuid = NoUuid
  BY DEF FreeCtx, CtxRec
<1>10. ctx \in [Ctxs -> CtxRec] /\ \A c \in Ctxs : ctx[c] = FreeCtx
  BY <1>9 DEF Init
<1>11. CtxInv(fr, sess, ctx)
  <2>1. \A c \in Ctxs : SessOf(sess, c) = {} /\ DroppersOf(fr, c) = {}
    BY <1>2, <1>3, <1>6, <1>7, NoneAssumption DEF SessOf, DroppersOf
  <2>2. CtxRefs(fr, sess, ctx)
    BY <1>4, <1>9, <1>10, <2>1 DEF CtxRefs
  <2>3. CtxLinks(fr, sess, ctx)
    BY <1>2, <1>3, <1>6, <1>7, <1>9, <1>10, NoneAssumption DEF CtxLinks
  <2> QED BY <1>10, <2>2, <2>3 DEF CtxInv
<1>12. BusyInv(fr, ctx)
  <2>1. \A c \in Ctxs : InsidersOf(fr, c) = {} /\ B(ctx[c].busy) = 0
    BY <1>2, <1>3, <1>9, <1>10 DEF InsidersOf, InsideOf, B
  <2> QED BY <1>4, <2>1 DEF BusyInv
<1>13. LockInv(fr, ctx, siThread, siCount)
  <2>1. LockersOf(fr, ctx) = {}
    BY <1>2, <1>3 DEF LockersOf, Locks
  <2> QED BY <1>4, <2>1 DEF LockInv, Init
<1>14. stack \in [Threads -> Seq(FrameRec)] /\ crashed \in BOOLEAN
  <2>1. <<>> \in Seq(FrameRec)
    OBVIOUS
  <2> QED BY <2>1 DEF Init
<1> QED BY <1>5, <1>8, <1>11, <1>12, <1>13, <1>14 DEF TaInv, AllInv

LEMMA NextTaInv == TaInv /\ [Next]_vars => TaInv'
<1> SUFFICES ASSUME TaInv, [Next]_vars PROVE TaInv'
  OBVIOUS
<1>1. CASE UNCHANGED vars
  <2>1. UNCHANGED <<siThread, siCount, ctx, sess, stack, known, crashed>> /\ crashed \in BOOLEAN
    BY <1>1 DEF vars, TaInv
  <2> QED BY <2>1, StutterStep
<1>2. ASSUME NEW t \in Threads, Call(t) PROVE TaInv'
  BY <1>2, CallStep
<1>3. ASSUME NEW t \in Threads, TaEnds(t) PROVE TaInv'
  BY <1>3, TaEndsStep
<1>4. ASSUME NEW t \in Threads, Run(t) PROVE TaInv'
  <2>1. ASSUME NEW s \in Sessions, init_session_with_context(t, s) PROVE TaInv'
    BY <2>1, InitSessionStep
  <2>2. ASSUME NEW s \in Sessions, NEW c \in Ctxs, init_ta_session(t, s, c) PROVE TaInv'
    BY <2>2, InitTaStep
  <2>3. CASE init_session_fails(t)
    BY <2>3, InitFailsStep
  <2>4. CASE open_entry(t)
    BY <2>4, OpenEntryStep
  <2>5. CASE set_busy_waits(t)
    BY <2>5, BusyWaitsStep
  <2>6. CASE set_busy(t)
    BY <2>6, SetBusyStep
  <2>7. CASE set_busy_fails(t)
    BY <2>7, BusyFailsStep
  <2>8. CASE clear_busy(t)
    BY <2>8, ClearBusyStep
  <2>9. CASE open_checks_panic(t)
    BY <2>9, ChecksPanicStep
  <2>10. CASE put_session(t)
    BY <2>10, PutStep
  <2>11. CASE get_session_fails(t)
    BY <2>11, GetFailsStep
  <2>12. CASE get_session(t)
    BY <2>12, GetStep
  <2>13. CASE get_session_wakes(t)
    BY <2>13, GetWakesStep
  <2>14. CASE check_call(t)
    BY <2>14, CheckCallStep
  <2>15. CASE close_entry(t)
    BY <2>15, CloseEntryStep
  <2>16. CASE unlink_session(t)
    BY <2>16, UnlinkStep
  <2>17. CASE drop_context(t)
    BY <2>17, DropContextStep
  <2>18. CASE ctx_destroy(t)
    BY <2>18, DestroyStep
  <2> QED BY <1>4, <2>1, <2>2, <2>3, <2>4, <2>5, <2>6, <2>7, <2>8, <2>9, <2>10, <2>11, <2>12,
             <2>13, <2>14, <2>15, <2>16, <2>17, <2>18 DEF Run
<1> QED BY <1>1, <1>2, <1>3, <1>4 DEF Next

LEMMA Invariance == Spec => []TaInv
BY InitTaInv, NextTaInv, PTL DEF Spec

-----------------------------------------------------------------------------
(* The calls as the properties of TaManager.tla see them.                  *)
LEMMA FramesAre ==
  ASSUME TaInv
  PROVE  /\ Frames = {x \in Slots : fr[x] # Gone} /\ \A x \in Frames : F(x) = fr[x]
         /\ \A s \in Sessions : Users(s) = UsersOf(fr, s) /\ Holders(s) = HoldersOf(fr, s)
<1>1. stack \in Stacks
  BY DEF TaInv, Stacks
<1>2. ASSUME NEW x \in Slots
      PROVE  /\ x \in Frames <=> fr[x] # Gone
             /\ x \in Frames => F(x) = fr[x]
  <2>1. PICK t \in Threads, n \in Nat \ {0} : x = <<t, n>>
    BY DEF Slots
  <2>2. /\ stack[t] \in Seq(FrameRec) /\ Len(stack[t]) \in Nat
        /\ fr[x] = IF n <= Len(stack[t]) THEN stack[t][n] ELSE Gone
    BY <1>1, <2>1, SlotFacts
  <2>3. DOMAIN stack[t] = 1..Len(stack[t]) /\ \A i \in DOMAIN stack[t] : stack[t][i] \in FrameRec
    BY <2>2
  <2>4. x \in Frames <=> n \in DOMAIN stack[t]
    BY <2>1 DEF Frames
  <2>5. Gone \notin FrameRec
    BY DEF Gone, FrameRec, Ops
  <2>6. F(x) = stack[t][n]
    BY <2>1 DEF F
  <2> QED BY <2>2, <2>3, <2>4, <2>5, <2>6
<1>3. Frames \subseteq Slots
  <2>1. ASSUME NEW x \in Frames PROVE x \in Slots
    <3>1. PICK t \in Threads : \E n \in DOMAIN stack[t] : x = <<t, n>>
      BY DEF Frames
    <3>2. PICK n \in DOMAIN stack[t] : x = <<t, n>>
      BY <3>1
    <3>3. DOMAIN stack[t] = 1..Len(stack[t]) /\ Len(stack[t]) \in Nat
      BY <1>1 DEF Stacks
    <3> QED BY <3>2, <3>3 DEF Slots
  <2> QED BY <2>1
<1>4. Frames = {x \in Slots : fr[x] # Gone} /\ \A x \in Frames : F(x) = fr[x]
  BY <1>2, <1>3
<1>5. ~HasRef(Gone) /\ ~Gone.held
  BY DEF HasRef, Gone
<1>6. ASSUME NEW s \in Sessions PROVE Users(s) = UsersOf(fr, s) /\ Holders(s) = HoldersOf(fr, s)
  BY <1>4, <1>5 DEF Users, Holders, UsersOf, HoldersOf, UserOf, HolderOf
<1> QED BY <1>4, <1>6

(* Types: the reference counts of sessions and contexts and the count of   *)
(* the single-instance lock never go below zero (tee_ta_put_session,       *)
(* tee_ta_close_session, unlock_single_instance), whatever the calls do.   *)
THEOREM TaTypes == Spec => []TypeOK
<1>1. TaInv => TypeOK
  <2> SUFFICES ASSUME TaInv PROVE TypeOK
    OBVIOUS
  <2>1. siThread \in Threads \cup {NoThread} /\ siCount \in Nat
    BY DEF TaInv, AllInv, LockInv
  <2>2. ctx \in [Ctxs -> CtxRec]
    BY DEF TaInv, AllInv, CtxInv
  <2>3. sess \in [Sessions -> SessRec] /\ known \subseteq Sessions
    BY DEF TaInv, AllInv, SessInv, SessOwners
  <2>4. stack \in [Threads -> Seq(FrameRec)] /\ crashed \in BOOLEAN
    BY DEF TaInv
  <2> QED BY <2>1, <2>2, <2>3, <2>4 DEF TypeOK, CtxRec, SessRec, FrameRec
<1> QED BY <1>1, Invariance, PTL

(* A TA instance is entered by one call at a time, and ctx->busy says      *)
(* whether there is one (tee_ta_try_set_busy, tee_ta_clear_busy).          *)
THEOREM InstancesAreEnteredOnce == Spec => []OneCallPerInstance
<1>1. TaInv => OneCallPerInstance
  <2> SUFFICES ASSUME TaInv, NEW c \in Ctxs
               PROVE  Cardinality({x \in Frames : Inside(F(x)) /\ F(x).c = c})
                      = IF ctx[c].busy THEN 1 ELSE 0
    BY DEF OneCallPerInstance
  <2>1. ~Inside(Gone)
    BY DEF Inside, Gone
  <2>2. {x \in Frames : Inside(F(x)) /\ F(x).c = c} = InsidersOf(fr, c)
    BY <2>1, FramesAre DEF InsidersOf, InsideOf
  <2>3. Cardinality(InsidersOf(fr, c)) = B(ctx[c].busy)
    BY DEF TaInv, AllInv, BusyInv
  <2> QED BY <2>2, <2>3 DEF B
<1> QED BY <1>1, Invariance, PTL

(* The single-instance lock is held by the one thread that is inside       *)
(* single-instance TAs, as often as it is inside one                       *)
(* (lock_single_instance, unlock_single_instance).                         *)
THEOREM LockIsCounted == Spec => []SingleInstanceLock
<1>1. TaInv => SingleInstanceLock
  <2> SUFFICES ASSUME TaInv PROVE SingleInstanceLock
    OBVIOUS
  <2> DEFINE S == {x \in Frames : Inside(F(x)) /\ Single(F(x).c)}
  <2>1. ~Inside(Gone)
    BY DEF Inside, Gone
  <2>2. S = LockersOf(fr, ctx)
    BY <2>1, FramesAre DEF LockersOf, Locks, Single
  <2>3. LockInv(fr, ctx, siThread, siCount)
    BY DEF TaInv, AllInv
  <2>4. siCount = Cardinality(S) /\ (\A x \in S : x[1] = siThread)
        /\ (siCount = 0 <=> siThread = NoThread)
    BY <2>2, <2>3 DEF LockInv
  <2> QED BY <2>4 DEF SingleInstanceLock
<1> QED BY <1>1, Invariance, PTL

(* A session is freed when the last call that has it is gone and no        *)
(* earlier: its count is the number of references, and every call with a   *)
(* reference finds the session it looked up (tee_ta_get_session,           *)
(* tee_ta_put_session, tee_ta_unlink_session).                             *)
THEOREM SessionsAreCounted == Spec => []SessionRefs
<1>1. TaInv => SessionRefs
  <2> SUFFICES ASSUME TaInv PROVE SessionRefs
    OBVIOUS
  <2>1. SessInv(fr, sess, known) /\ StackInv(fr)
    BY DEF TaInv, AllInv
  <2>2. \A s \in Sessions : sess[s].ref = Cardinality(Users(s)) + Cardinality(Holders(s))
    BY <2>1, FramesAre DEF SessInv, SessRefs
  <2>3. ASSUME NEW x \in Frames, HasRef(F(x))
        PROVE  /\ Linked(F(x)) /\ sess[F(x).s].ctx # NoCtx
               /\ F(x).c \in {NoCtx, sess[F(x).s].ctx}
    <3>1. x \in Slots /\ fr[x] # Gone /\ F(x) = fr[x]
      BY FramesAre
    <3>2. fr[x] \in FrameRec /\ FrameOK(fr[x])
      BY <2>1, <3>1 DEF StackInv, GoodFrame
    <3>3. fr[x].s \in Sessions /\ fr[x].list # NoCtx
      BY <2>3, <3>1, <3>2, NoneAssumption DEF FrameOK, HasRef, FrameRec
    <3>4. sess[fr[x].s].list = fr[x].list /\ fr[x].c \in {NoCtx, sess[fr[x].s].ctx}
      BY <2>1, <2>3, <3>1 DEF SessInv, SessLinks
    <3>5. sess[fr[x].s].ctx # NoCtx
      BY <2>1, <3>3, <3>4 DEF SessInv
    <3> QED BY <3>1, <3>4, <3>5 DEF Linked
  <2> QED BY <2>2, <2>3 DEF SessionRefs
<1> QED BY <1>1, Invariance, PTL

(* A close finds the session it is for, whatever runs beside it: neither   *)
(* tee_ta_get_session fails for it nor does another close come first.      *)
THEOREM ClosesFind == Spec => []ClosesFindTheirSession
<1>1. TaInv => ClosesFindTheirSession
  <2> SUFFICES ASSUME TaInv, NEW t \in Threads, At(t, "get"), Top(t).op = "close"
               PROVE  Linked(Top(t)) /\ ~sess[Top(t).s].unlink
    BY DEF ClosesFindTheirSession
  <2>1. stack[t] # <<>> /\ Top(t).pc = "get"
    BY DEF At
  <2>2. <<t, Len(stack[t])>> \in Slots /\ fr[<<t, Len(stack[t])>>] = Top(t)
    BY <2>1, TopFacts
  <2>3. PICK x \in Slots : fr[x] = Top(t)
    BY <2>2
  <2>4. Linked(fr[x]) /\ ~sess[fr[x].s].unlink
    BY <2>1, <2>3, CloseFinds
  <2> QED BY <2>3, <2>4
<1> QED BY <1>1, Invariance, PTL

(* A context is freed when its last session is closed and no earlier, and  *)
(* no call and no list of sessions is left in a freed context              *)
(* (tee_ta_init_session, tee_ta_close_session, user_ta_ctx_destroy).       *)
THEOREM ContextsAreCounted == Spec => []ContextRefs
<1>1. TaInv => ContextRefs
  <2> SUFFICES ASSUME TaInv PROVE ContextRefs
    OBVIOUS
  <2>1. SessInv(fr, sess, known) /\ StackInv(fr) /\ CtxInv(fr, sess, ctx)
    BY DEF TaInv, AllInv
  <2>2. ASSUME NEW c \in Ctxs
        PROVE  ctx[c].ref = Cardinality({s \in Sessions : sess[s].ctx = c})
                            + Cardinality({x \in Frames : /\ F(x).op = "close" /\ F(x).c = c
                                                         /\ F(x).pc \in {"clear", "deref"}})
    <3>1. ~DropsOf(Gone, c)
      BY DEF DropsOf, Gone
    <3>2. {x \in Frames : F(x).op = "close" /\ F(x).c = c /\ F(x).pc \in {"clear", "deref"}}
          = DroppersOf(fr, c)
      BY <3>1, FramesAre DEF DroppersOf, DropsOf
    <3>3. {s \in Sessions : sess[s].ctx = c} = SessOf(sess, c)
      BY DEF SessOf
    <3>4. ctx[c].ref = Cardinality(SessOf(sess, c)) + Cardinality(DroppersOf(fr, c))
      BY <2>1 DEF CtxInv, CtxRefs
    <3> QED BY <3>2, <3>3, <3>4
  <2>3. ASSUME NEW x \in Frames, F(x).c # NoCtx PROVE ctx[F(x).c].uuid # NoUuid
    <3>1. x \in Slots /\ fr[x] # Gone /\ F(x) = fr[x]
      BY FramesAre
    <3>2. fr[x].c \in Ctxs
      BY <2>1, <2>3, <3>1 DEF StackInv, GoodFrame, FrameRec
    <3> QED BY <2>1, <3>1, <3>2, NeededCtx
  <2>4. \A s \in Sessions : sess[s].list \in Ctxs => ctx[sess[s].list].uuid # NoUuid
    BY <2>1 DEF CtxInv, CtxLinks
  <2> QED BY <2>2, <2>3, <2>4 DEF ContextRefs
<1> QED BY <1>1, Invariance, PTL

LEMMA AtMostOne ==
  ASSUME NEW S, \A x, y \in S : x = y
  PROVE  Cardinality(S) <= 1
<1>1. CASE S = {}
  BY <1>1, FS_EmptySet
<1>2. CASE S # {}
  <2>1. PICK x \in S : TRUE
    BY <1>2
  <2>2. S = {x}
    BY <2>1
  <2>3. Cardinality({x}) = 1
    BY FS_Singleton
  <2> QED BY <2>2, <2>3
<1> QED BY <1>1, <1>2

(* A single-instance TA is loaded once, and has one session at a time when *)
(* it is not multi-session, whatever opens and closes race for it          *)
(* (tee_ta_init_session_with_context, tee_ta_context_find).                *)
THEOREM InstancesAreSingle == Spec => []Instances
<1>1. TaInv => Instances
  <2> SUFFICES ASSUME TaInv, NEW u \in SingleInstance
               PROVE  /\ Cardinality(Loaded(u)) <= 1
                      /\ u \notin MultiSession =>
                           Cardinality({s \in Sessions : /\ sess[s].ctx # NoCtx
                                                         /\ ctx[sess[s].ctx].uuid = u}) <= 1
    BY DEF Instances
  <2>1. SessInv(fr, sess, known) /\ StackInv(fr) /\ CtxInv(fr, sess, ctx)
    BY DEF TaInv, AllInv
  <2>2. \A c, d \in Ctxs : (/\ ctx[c].linked /\ ctx[d].linked /\ ctx[c].uuid = ctx[d].uuid
                            /\ ctx[c].uuid \in SingleInstance) => c = d
    BY <2>1 DEF CtxInv, CtxLinks
  <2>3. Cardinality(Loaded(u)) <= 1
    <3>1. \A c, d \in Loaded(u) : c = d
      BY <2>2 DEF Loaded
    <3> QED BY <3>1, AtMostOne
  <2>4. ASSUME u \notin MultiSession
        PROVE  Cardinality({s \in Sessions : /\ sess[s].ctx # NoCtx
                                             /\ ctx[sess[s].ctx].uuid = u}) <= 1
    <3> DEFINE S == {s \in Sessions : sess[s].ctx # NoCtx /\ ctx[sess[s].ctx].uuid = u}
    <3>1. ASSUME NEW r \in S, NEW s \in S PROVE r = s
      <4>1. /\ sess[r].ctx \in Ctxs /\ sess[s].ctx \in Ctxs
            /\ ctx[sess[r].ctx].uuid = u /\ ctx[sess[s].ctx].uuid = u
            /\ r \in Sessions /\ s \in Sessions
        BY <2>1 DEF SessInv, SessRec
      <4>2. ctx[sess[r].ctx].linked /\ ctx[sess[s].ctx].linked
        BY <2>1, <4>1, NeededCtx
      <4>3. PICK c \in Ctxs : c = sess[r].ctx
        BY <4>1
      <4>4. sess[s].ctx = c
        BY <2>2, <4>1, <4>2, <4>3
      <4>5. r \in SessOf(sess, c) /\ s \in SessOf(sess, c)
        BY <4>1, <4>3, <4>4 DEF SessOf
      <4>6. /\ IsFiniteSet(SessOf(sess, c)) /\ IsFiniteSet(DroppersOf(fr, c))
            /\ ctx[c].ref = Cardinality(SessOf(sess, c)) + Cardinality(DroppersOf(fr, c))
        BY <2>1 DEF CtxInv, CtxRefs
      <4>7. ctx[c].ref <= 1
        BY <2>1, <2>4, <4>1, <4>3 DEF CtxInv, CtxLinks
      <4>8. Cardinality(SessOf(sess, c)) \in Nat /\ Cardinality(DroppersOf(fr, c)) \in Nat
        BY <4>6, CountFacts
      <4>9. Cardinality(SessOf(sess, c)) # 0
        BY <4>5, <4>6, CountFacts
      <4>10. Cardinality(SessOf(sess, c)) = 1
        BY <4>6, <4>7, <4>8, <4>9
      <4> QED BY <4>5, <4>6, <4>10, CountFacts
    <3> HIDE DEF S
    <3>2. Cardinality(S) <= 1
      BY <3>1, AtMostOne
    <3> QED BY <3>2 DEF S
  <2> QED BY <2>3, <2>4
<1> QED BY <1>1, Invariance, PTL

-----------------------------------------------------------------------------
(* The second half: the exclusive locks of sessions and the queues of the  *)
(* condition variables, on top of TaInv.                                   *)

(* The call has the session for itself (s->lock_thread).                   *)
HasLock(f) == /\ f.op \in {"invoke", "close"}
              /\ f.pc \in {"check", "busy", "closing", "run", "unlink", "unlinkwait", "clear",
                           "put"}
              /\ ~(f.op = "close" /\ f.pc = "clear")

LockedInv(fm, S) ==
  /\ \A x \in Slots : HasLock(fm[x]) => S[fm[x].s].lock = x[1]
  /\ \A s \in Sessions : S[s].lock # NoThread =>
       \E n \in Nat \ {0} : HasLock(fm[<<S[s].lock, n>>]) /\ fm[<<S[s].lock, n>>].s = s
  /\ \A x \in Slots : fm[x].pc = "unlinkwait" => S[fm[x].s].unlink

(* Which condition variable a waiting thread is at, by the call on top.    *)
WaitsFor(r, cv) ==
  /\ stack[r] # <<>>
  /\ \/ Top(r).pc = "busy" /\ Single(Top(r).c) /\ cv = SiCv
     \/ Top(r).pc = "busy" /\ ~Single(Top(r).c) /\ cv = BusyCv(Top(r).c)
     \/ Top(r).pc = "getwait" /\ cv = LockCv(Top(r).s)
     \/ Top(r).pc = "unlinkwait" /\ cv = RefcCv(Top(r).s)

QueueInv ==
  /\ waitq \in [Cvs -> Seq(Threads)]
  /\ \A cv \in Cvs : \A i \in DOMAIN waitq[cv] : WaitsFor(waitq[cv][i], cv)
  /\ \A cv \in Cvs : \A i, j \in DOMAIN waitq[cv] : waitq[cv][i] = waitq[cv][j] => i = j

WaitInv == TaInv /\ LockedInv(fr, sess) /\ QueueInv /\ NoForgottenWaiter

LEMMA CvFacts ==
  /\ SiCv \in Cvs
  /\ \A c \in Ctxs : BusyCv(c) \in Cvs
  /\ \A s \in Sessions : LockCv(s) \in Cvs /\ RefcCv(s) \in Cvs
  /\ \A c : BusyCv(c) # SiCv
  /\ \A s : LockCv(s) # SiCv /\ RefcCv(s) # SiCv
  /\ \A c, s : BusyCv(c) # LockCv(s) /\ BusyCv(c) # RefcCv(s)
  /\ \A r, s : LockCv(r) # RefcCv(s)
  /\ \A c, d : BusyCv(c) = BusyCv(d) => c = d
  /\ \A r, s : LockCv(r) = LockCv(s) => r = s
  /\ \A r, s : RefcCv(r) = RefcCv(s) => r = s
<1>1. SiCv \in Cvs /\ (\A c \in Ctxs : BusyCv(c) \in Cvs)
      /\ \A s \in Sessions : LockCv(s) \in Cvs /\ RefcCv(s) \in Cvs
  BY DEF Cvs
<1>2. /\ \A c : BusyCv(c) # SiCv
      /\ \A s : LockCv(s) # SiCv /\ RefcCv(s) # SiCv
  BY DEF SiCv, BusyCv, LockCv, RefcCv
<1>3. /\ \A c, s : BusyCv(c) # LockCv(s) /\ BusyCv(c) # RefcCv(s)
      /\ \A r, s : LockCv(r) # RefcCv(s)
  BY DEF BusyCv, LockCv, RefcCv
<1>4. /\ \A c, d : BusyCv(c) = BusyCv(d) => c = d
      /\ \A r, s : LockCv(r) = LockCv(s) => r = s
      /\ \A r, s : RefcCv(r) = RefcCv(s) => r = s
  BY DEF BusyCv, LockCv, RefcCv
<1> QED BY <1>1, <1>2, <1>3, <1>4

(* A thread waits for one thing.                                           *)
LEMMA WaitsOnce ==
  ASSUME NEW r \in Threads, NEW cv \in Cvs, NEW dv \in Cvs, WaitsFor(r, cv), WaitsFor(r, dv)
  PROVE  cv = dv
BY DEF WaitsFor

(* A queue is left alone, emptied, loses its head, or gets thread t.       *)
QueueMove(t, cv) ==
  \/ waitq'[cv] = waitq[cv]
  \/ waitq'[cv] = <<>>
  \/ waitq[cv] # <<>> /\ waitq'[cv] = Tail(waitq[cv])
  \/ waitq'[cv] = Append(waitq[cv], t) /\ WaitsFor(t, cv)'

(* Only thread t moves; the contexts of others stay what they are.         *)
OnlyMoves(t) ==
  /\ ~Waiting(t)
  /\ \A r \in Threads \ {t} : stack'[r] = stack[r]
  /\ \A c \in Ctxs : ctx[c].linked => ctx'[c].uuid = ctx[c].uuid

LEMMA StaysAt ==
  ASSUME TaInv, NEW t \in Threads, OnlyMoves(t), NEW r \in Threads \ {t}, stack[r] # <<>>
  PROVE  /\ stack'[r] # <<>> /\ Top(r)' = Top(r)
         /\ Top(r).pc = "busy" => (Single(Top(r).c)' <=> Single(Top(r).c))
         /\ \A cv : WaitsFor(r, cv) <=> WaitsFor(r, cv)'
<1>1. stack'[r] # <<>> /\ Top(r)' = Top(r)
  BY DEF OnlyMoves, Top
<1>2. ASSUME Top(r).pc = "busy" PROVE Single(Top(r).c)' <=> Single(Top(r).c)
  <2>1. Top(r).c \in Ctxs
    BY <1>2, TopFacts DEF FrameOK, EnteredPcs
  <2>2. ctx[Top(r).c].linked
    BY <1>2, <2>1, TopFacts
  <2> QED BY <1>1, <2>1, <2>2 DEF OnlyMoves, Single
<1>3. ASSUME NEW cv PROVE WaitsFor(r, cv) <=> WaitsFor(r, cv)'
  BY <1>1, <1>2 DEF WaitsFor, SiCv, BusyCv, LockCv, RefcCv
<1> QED BY <1>1, <1>2, <1>3

LEMMA TailFacts ==
  ASSUME NEW q \in Seq(Threads), q # <<>>
  PROVE  /\ Tail(q) \in Seq(Threads) /\ Len(q) \in Nat \ {0} /\ Len(Tail(q)) = Len(q) - 1
         /\ \A i \in 1..(Len(q) - 1) : Tail(q)[i] = q[i + 1]
         /\ DOMAIN q = 1..Len(q) /\ DOMAIN Tail(q) = 1..(Len(q) - 1)
         /\ q[1] \in Threads
OBVIOUS

LEMMA AppendFacts ==
  ASSUME NEW q \in Seq(Threads), NEW t \in Threads
  PROVE  /\ Append(q, t) \in Seq(Threads) /\ Len(q) \in Nat
         /\ DOMAIN q = 1..Len(q) /\ DOMAIN Append(q, t) = 1..(Len(q) + 1)
         /\ Append(q, t)[Len(q) + 1] = t
         /\ \A i \in 1..Len(q) : Append(q, t)[i] = q[i]
OBVIOUS

(* Who is in a queue after a step: who was, or t.                          *)
LEMMA QueueMembers ==
  ASSUME QueueInv, NEW t \in Threads, NEW cv \in Cvs, QueueMove(t, cv), ~Waiting(t)
  PROVE  /\ waitq'[cv] \in Seq(Threads)
         /\ \A i \in DOMAIN waitq'[cv] :
              \/ waitq'[cv][i] = t /\ WaitsFor(t, cv)'
              \/ waitq'[cv][i] # t /\ \E j \in DOMAIN waitq[cv] : waitq'[cv][i] = waitq[cv][j]
         /\ \A i, j \in DOMAIN waitq'[cv] : waitq'[cv][i] = waitq'[cv][j] => i = j
         /\ waitq[cv] # <<>> /\ waitq'[cv] = Tail(waitq[cv]) =>
              \A i \in DOMAIN waitq'[cv] : waitq'[cv][i] # waitq[cv][1]
<1> DEFINE q == waitq[cv]
           p == waitq'[cv]
<1>1. /\ q \in Seq(Threads) /\ (\A i, j \in DOMAIN q : q[i] = q[j] => i = j)
      /\ \A i \in DOMAIN q : q[i] # t
  BY DEF QueueInv, Waiting
<1>2. /\ \/ p = q \/ p = <<>> \/ (q # <<>> /\ p = Tail(q))
         \/ (p = Append(q, t) /\ WaitsFor(t, cv)')
  BY DEF QueueMove
<1> SUFFICES /\ p \in Seq(Threads)
             /\ \A i \in DOMAIN p : \/ p[i] = t /\ WaitsFor(t, cv)'
                                    \/ p[i] # t /\ \E j \in DOMAIN q : p[i] = q[j]
             /\ \A i, j \in DOMAIN p : p[i] = p[j] => i = j
             /\ q # <<>> /\ p = Tail(q) => \A i \in DOMAIN p : p[i] # q[1]
  OBVIOUS
<1> HIDE DEF p, q
<1>3. ASSUME q # <<>>, p = Tail(q)
      PROVE  /\ p \in Seq(Threads)
             /\ \A i \in DOMAIN p : p[i] # t /\ \E j \in DOMAIN q : p[i] = q[j]
             /\ \A i, j \in DOMAIN p : p[i] = p[j] => i = j
             /\ \A i \in DOMAIN p : p[i] # q[1]
  <2>1. /\ p \in Seq(Threads) /\ Len(q) \in Nat \ {0} /\ DOMAIN q = 1..Len(q)
        /\ DOMAIN p = 1..(Len(q) - 1) /\ \A i \in 1..(Len(q) - 1) : p[i] = q[i + 1]
    BY <1>1, <1>3, TailFacts
  <2>2. ASSUME NEW i \in DOMAIN p PROVE i + 1 \in DOMAIN q /\ p[i] = q[i + 1] /\ i + 1 # 1
    BY <2>1
  <2>3. 1 \in DOMAIN q
    BY <2>1
  <2>4. ASSUME NEW i \in DOMAIN p, NEW j \in DOMAIN p, p[i] = p[j] PROVE i = j
    <3>1. i + 1 = j + 1
      BY <1>1, <2>2, <2>4
    <3> QED BY <2>1, <3>1
  <2> QED BY <1>1, <2>1, <2>2, <2>3, <2>4
<1>4. CASE p = q
  <2>1. ASSUME q # <<>>, p = Tail(q) PROVE FALSE
    <3>1. Len(q) \in Nat \ {0} /\ Len(Tail(q)) = Len(q) - 1
      BY <1>1, <2>1, TailFacts
    <3> QED BY <1>4, <2>1, <3>1
  <2> QED BY <1>1, <1>4, <2>1
<1>5. CASE p = <<>>
  BY <1>5
<1>6. CASE p = Append(q, t) /\ WaitsFor(t, cv)'
  <2>1. /\ p \in Seq(Threads) /\ Len(q) \in Nat /\ DOMAIN q = 1..Len(q)
        /\ DOMAIN p = 1..(Len(q) + 1) /\ p[Len(q) + 1] = t
        /\ \A i \in 1..Len(q) : p[i] = q[i]
    BY <1>1, <1>6, AppendFacts
  <2>2. ASSUME NEW i \in DOMAIN p
        PROVE  (i \in DOMAIN q /\ p[i] = q[i]) \/ (i = Len(q) + 1 /\ p[i] = t)
    BY <2>1
  <2>3. ASSUME q # <<>>, p = Tail(q) PROVE FALSE
    <3>1. DOMAIN Tail(q) = 1..(Len(q) - 1)
      BY <1>1, <2>3, TailFacts
    <3>2. Len(q) + 1 \in 1..(Len(q) + 1) /\ Len(q) + 1 \notin 1..(Len(q) - 1)
      BY <2>1
    <3> QED BY <2>1, <2>3, <3>1, <3>2
  <2>4. ASSUME NEW i \in DOMAIN p
        PROVE  \/ p[i] = t /\ WaitsFor(t, cv)'
               \/ p[i] # t /\ \E j \in DOMAIN q : p[i] = q[j]
    BY <1>1, <1>6, <2>2
  <2>5. ASSUME NEW i \in DOMAIN p, NEW j \in DOMAIN p, p[i] = p[j] PROVE i = j
    BY <1>1, <2>2, <2>5
  <2> QED BY <2>1, <2>3, <2>4, <2>5
<1> QED BY <1>2, <1>3, <1>4, <1>5, <1>6

(* The queues stay in order; who did not wait does not begin to, but for t,*)
(* and the head of a queue that loses it goes on.                          *)
LEMMA QueueStep ==
  ASSUME TaInv, QueueInv, NEW t \in Threads, OnlyMoves(t), \A cv \in Cvs : QueueMove(t, cv),
         waitq' = [cv \in Cvs |-> waitq'[cv]]
  PROVE  /\ QueueInv'
         /\ \A r \in Threads \ {t} : ~Waiting(r) => ~Waiting(r)'
         /\ \A cv \in Cvs : waitq[cv] # <<>> /\ waitq'[cv] = Tail(waitq[cv]) =>
              \E r \in Threads \ {t} : WaitsFor(r, cv) /\ ~Waiting(r)'
<1>1. ~Waiting(t)
  BY DEF OnlyMoves
<1>2. ASSUME NEW cv \in Cvs, NEW j \in DOMAIN waitq[cv], NEW r, r = waitq[cv][j]
      PROVE  r \in Threads \ {t} /\ WaitsFor(r, cv) /\ WaitsFor(r, cv)'
  <2>1. r \in Threads \ {t} /\ WaitsFor(r, cv)
    BY <1>1, <1>2 DEF QueueInv, Waiting
  <2>2. stack[r] # <<>>
    BY <2>1 DEF WaitsFor
  <2>3. WaitsFor(r, cv)'
    BY <2>1, <2>2, StaysAt
  <2> QED BY <2>1, <2>3
<1>3. ASSUME NEW cv \in Cvs, NEW i \in DOMAIN waitq'[cv], NEW r, r = waitq'[cv][i]
      PROVE  WaitsFor(r, cv)'
  <2>1. \/ r = t /\ WaitsFor(t, cv)'
        \/ \E j \in DOMAIN waitq[cv] : r = waitq[cv][j]
    BY <1>1, <1>3, QueueMembers
  <2> QED BY <1>2, <2>1
<1>4. QueueInv'
  <2>1. waitq' \in [Cvs -> Seq(Threads)]
    BY <1>1, QueueMembers
  <2>2. \A cv \in Cvs : \A i, j \in DOMAIN waitq'[cv] : waitq'[cv][i] = waitq'[cv][j] => i = j
    BY <1>1, QueueMembers
  <2>3. (\A cv \in Cvs : \A i \in DOMAIN waitq[cv] : WaitsFor(waitq[cv][i], cv))'
    <3>1. ASSUME NEW cv \in Cvs, NEW i \in DOMAIN waitq'[cv]
          PROVE  WaitsFor(waitq[cv][i], cv)'
      <4>1. PICK r : r = waitq'[cv][i]
        OBVIOUS
      <4>2. WaitsFor(r, cv)'
        BY <1>3, <4>1
      <4> QED BY <4>1, <4>2 DEF WaitsFor, Top
    <3> QED BY <3>1
  <2> QED BY <2>1, <2>2, <2>3 DEF QueueInv
<1>5. ASSUME NEW r \in Threads \ {t}, ~Waiting(r), Waiting(r)' PROVE FALSE
  <2>1. PICK cv \in Cvs : \E i \in DOMAIN waitq'[cv] : waitq'[cv][i] = r
    BY <1>5 DEF Waiting
  <2>2. PICK i \in DOMAIN waitq'[cv] : waitq'[cv][i] = r
    BY <2>1
  <2>3. \E j \in DOMAIN waitq[cv] : waitq'[cv][i] = waitq[cv][j]
    BY <1>1, <2>2, QueueMembers
  <2> QED BY <1>5, <2>2, <2>3 DEF Waiting
<1>6. ASSUME NEW cv \in Cvs, waitq[cv] # <<>>, waitq'[cv] = Tail(waitq[cv])
      PROVE  \E r \in Threads \ {t} : WaitsFor(r, cv) /\ ~Waiting(r)'
  <2>1. 1 \in DOMAIN waitq[cv]
    BY <1>6, TailFacts DEF QueueInv
  <2>2. PICK r \in Threads \ {t} : r = waitq[cv][1] /\ WaitsFor(r, cv)
    BY <1>2, <2>1
  <2>3. ASSUME NEW dv \in Cvs, NEW i \in DOMAIN waitq'[dv], waitq'[dv][i] = r PROVE FALSE
    <3>1. dv # cv
      BY <1>1, <1>6, <2>2, <2>3, QueueMembers
    <3>2. PICK j \in DOMAIN waitq[dv] : waitq[dv][j] = r
      BY <1>1, <2>3, QueueMembers
    <3>3. WaitsFor(r, dv)
      BY <1>2, <3>2
    <3> QED BY <2>2, <3>1, <3>3, WaitsOnce
  <2>4. ~Waiting(r)'
    BY <2>3 DEF Waiting
  <2> QED BY <2>2, <2>4
<1> QED BY <1>4, <1>5, <1>6

-----------------------------------------------------------------------------
(* The waiters of one condition variable after a step of t.                *)
Popped(cv) == IF waitq[cv] = <<>> THEN waitq'[cv] = <<>> ELSE waitq'[cv] = Tail(waitq[cv])

Moves(t) == /\ OnlyMoves(t) /\ (\A cv \in Cvs : QueueMove(t, cv))
            /\ waitq' = [cv \in Cvs |-> waitq'[cv]] /\ ~crashed'

LEMMA WokenStays ==
  ASSUME TaInv, QueueInv, NEW t \in Threads, Moves(t), NEW r \in Threads \ {t}, NEW pc, At(r, pc)
  PROVE  /\ At(r, pc)' /\ r \in Woken(pc)' /\ Top(r)' = Top(r)
         /\ pc = "busy" => (Single(Top(r).c)' <=> Single(Top(r).c))
<1>1. stack[r] # <<>> /\ ~Waiting(r) /\ Top(r).pc = pc
  BY DEF At
<1>2. OnlyMoves(t) /\ ~crashed'
  BY DEF Moves
<1>3. stack'[r] # <<>> /\ Top(r)' = Top(r)
      /\ (Top(r).pc = "busy" => (Single(Top(r).c)' <=> Single(Top(r).c)))
  BY <1>1, <1>2, StaysAt
<1>4. ~Waiting(r)'
  BY <1>1, QueueStep DEF Moves
<1> QED BY <1>1, <1>2, <1>3, <1>4 DEF At, Woken

LEMMA HeadWoken ==
  ASSUME TaInv, QueueInv, NEW t \in Threads, Moves(t), NEW cv \in Cvs, waitq[cv] # <<>>, Popped(cv)
  PROVE  \E r \in Threads \ {t} : WaitsFor(r, cv)' /\ At(r, Top(r).pc)'
<1>1. OnlyMoves(t) /\ ~crashed' /\ waitq'[cv] = Tail(waitq[cv])
  BY DEF Moves, Popped
<1>2. PICK r \in Threads \ {t} : WaitsFor(r, cv) /\ ~Waiting(r)'
  BY <1>1, QueueStep DEF Moves
<1>3. stack[r] # <<>>
  BY <1>2 DEF WaitsFor
<1>4. stack'[r] # <<>> /\ WaitsFor(r, cv)'
  BY <1>1, <1>2, <1>3, StaysAt
<1> QED BY <1>1, <1>2, <1>4 DEF At

LEMMA SiToldStep ==
  ASSUME TaInv, QueueInv, NEW t \in Threads, Moves(t), SiTold,
         \/ siThread' # NoThread
         \/ Popped(SiCv)
         \/ /\ siThread' = siThread /\ waitq'[SiCv] = waitq[SiCv]
            /\ ~(At(t, "busy") /\ Single(Top(t).c))
  PROVE  SiTold'
<1>1. SiCv' = SiCv
  BY DEF SiCv
<1> SUFFICES ASSUME waitq'[SiCv] # <<>>, siThread' = NoThread
             PROVE  \E r \in Threads : At(r, "busy")' /\ Single(Top(r).c)'
  BY <1>1 DEF SiTold, Woken
<1>2. CASE Popped(SiCv)
  <2>1. waitq[SiCv] # <<>>
    BY <1>2 DEF Popped
  <2>2. PICK r \in Threads \ {t} : WaitsFor(r, SiCv)' /\ At(r, Top(r).pc)'
    BY <1>2, <2>1, HeadWoken, CvFacts
  <2>3. Top(r)'.pc = "busy" /\ Single(Top(r).c)'
    BY <1>1, <2>2, CvFacts DEF WaitsFor
  <2> QED BY <2>2, <2>3 DEF At
<1>3. CASE /\ siThread' = siThread /\ waitq'[SiCv] = waitq[SiCv]
           /\ ~(At(t, "busy") /\ Single(Top(t).c))
  <2>1. PICK r \in Threads : At(r, "busy") /\ Single(Top(r).c)
    BY <1>3 DEF SiTold, Woken
  <2>2. r # t
    BY <1>3, <2>1
  <2> QED BY <2>1, <2>2, WokenStays
<1> QED BY <1>2, <1>3

LEMMA BusyToldStep ==
  ASSUME TaInv, QueueInv, NEW t \in Threads, Moves(t), NEW c \in Ctxs, BusyTold(c),
         \/ ctx'[c].busy
         \/ Popped(BusyCv(c))
         \/ /\ ctx[c].linked => ctx'[c].busy = ctx[c].busy
            /\ waitq'[BusyCv(c)] = waitq[BusyCv(c)]
            /\ ~(At(t, "busy") /\ Top(t).c = c)
  PROVE  BusyTold(c)'
<1>1. BusyCv(c)' = BusyCv(c) /\ BusyCv(c) \in Cvs
  BY CvFacts DEF BusyCv
<1> SUFFICES ASSUME waitq'[BusyCv(c)] # <<>>, ~ctx'[c].busy
             PROVE  \E r \in Threads : At(r, "busy")' /\ Top(r)'.c = c
  BY <1>1 DEF BusyTold, Woken
<1>2. CASE Popped(BusyCv(c))
  <2>1. waitq[BusyCv(c)] # <<>>
    BY <1>2 DEF Popped
  <2>2. PICK r \in Threads \ {t} : WaitsFor(r, BusyCv(c))' /\ At(r, Top(r).pc)'
    BY <1>1, <1>2, <2>1, HeadWoken
  <2>3. Top(r)'.pc = "busy" /\ Top(r)'.c = c
    BY <1>1, <2>2, CvFacts DEF WaitsFor
  <2> QED BY <2>2, <2>3 DEF At
<1>3. CASE /\ ctx[c].linked => ctx'[c].busy = ctx[c].busy
           /\ waitq'[BusyCv(c)] = waitq[BusyCv(c)]
           /\ ~(At(t, "busy") /\ Top(t).c = c)
  <2>1. waitq[BusyCv(c)] \in Seq(Threads) /\ waitq[BusyCv(c)] # <<>>
    BY <1>1, <1>3 DEF QueueInv
  <2>2. 1 \in DOMAIN waitq[BusyCv(c)]
    BY <2>1, TailFacts
  <2>3. PICK w \in Threads : WaitsFor(w, BusyCv(c))
    BY <1>1, <2>1, <2>2, TailFacts DEF QueueInv
  <2>4. stack[w] # <<>> /\ Top(w).pc = "busy" /\ Top(w).c = c
    BY <2>3, CvFacts DEF WaitsFor
  <2>5. ctx[c].linked
    BY <2>4, TopFacts
  <2>6. PICK r \in Threads : At(r, "busy") /\ Top(r).c = c
    BY <1>3, <2>1, <2>5 DEF BusyTold, Woken
  <2>7. r # t
    BY <1>3, <2>6
  <2> QED BY <2>6, <2>7, WokenStays
<1> QED BY <1>2, <1>3

LEMMA LockToldStep ==
  ASSUME TaInv, QueueInv, NEW t \in Threads, Moves(t), NEW s \in Sessions, LockTold(s),
         \/ ~sess'[s].unlink
         \/ waitq'[LockCv(s)] = <<>>
         \/ /\ sess'[s].unlink = sess[s].unlink
            /\ Popped(LockCv(s)) \/ waitq'[LockCv(s)] = waitq[LockCv(s)],
         \/ sess'[s].lock # NoThread
         \/ waitq'[LockCv(s)] = <<>>
         \/ Popped(LockCv(s))
         \/ /\ sess'[s].lock = sess[s].lock /\ waitq'[LockCv(s)] = waitq[LockCv(s)]
            /\ ~(At(t, "getwait") /\ Top(t).s = s)
  PROVE  LockTold(s)'
<1>1. LockCv(s)' = LockCv(s) /\ LockCv(s) \in Cvs
  BY CvFacts DEF LockCv
<1> SUFFICES ASSUME waitq'[LockCv(s)] # <<>>
             PROVE  /\ ~sess'[s].unlink
                    /\ \/ sess'[s].lock # NoThread
                       \/ \E r \in Threads : At(r, "getwait")' /\ Top(r)'.s = s
  BY <1>1 DEF LockTold, Woken
<1>2. ~sess'[s].unlink
  BY DEF Popped, LockTold
<1>3. CASE Popped(LockCv(s))
  <2>1. waitq[LockCv(s)] # <<>>
    BY <1>3 DEF Popped
  <2>2. PICK r \in Threads \ {t} : WaitsFor(r, LockCv(s))' /\ At(r, Top(r).pc)'
    BY <1>1, <1>3, <2>1, HeadWoken
  <2>3. Top(r)'.pc = "getwait" /\ Top(r)'.s = s
    BY <1>1, <2>2, CvFacts DEF WaitsFor
  <2> QED BY <1>2, <2>2, <2>3 DEF At
<1>4. CASE /\ sess'[s].lock = sess[s].lock /\ waitq'[LockCv(s)] = waitq[LockCv(s)]
           /\ ~(At(t, "getwait") /\ Top(t).s = s)
  <2>1. CASE sess[s].lock # NoThread
    BY <1>2, <1>4, <2>1
  <2>2. CASE sess[s].lock = NoThread
    <3>1. PICK r \in Threads : At(r, "getwait") /\ Top(r).s = s
      BY <1>4, <2>2 DEF LockTold, Woken
    <3>2. r # t
      BY <1>4, <3>1
    <3> QED BY <1>2, <3>1, <3>2, WokenStays
  <2> QED BY <2>1, <2>2
<1> QED BY <1>2, <1>3, <1>4

(* The close that waits for the last reference is alone.                   *)
LEMMA RefcAlone ==
  ASSUME TaInv, QueueInv, NEW s \in Sessions
  PROVE  /\ \A i, j \in DOMAIN waitq[RefcCv(s)] : i = j
         /\ Popped(RefcCv(s)) => waitq'[RefcCv(s)] = <<>>
         /\ waitq[RefcCv(s)] # <<>> =>
              \E x \in Slots : fr[x].pc = "unlinkwait" /\ fr[x].s = s
<1> DEFINE cv == RefcCv(s)
<1>1. StackInv(fr) /\ SessInv(fr, sess, known)
  BY DEF TaInv, AllInv
<1>2. cv \in Cvs /\ waitq[cv] \in Seq(Threads)
  BY CvFacts DEF QueueInv
<1>3. ASSUME NEW i \in DOMAIN waitq[cv]
      PROVE  /\ waitq[cv][i] \in Threads
             /\ \E n \in Nat \ {0} : /\ <<waitq[cv][i], n>> \in Slots
                                     /\ fr[<<waitq[cv][i], n>>].pc = "unlinkwait"
                                     /\ fr[<<waitq[cv][i], n>>].s = s
                                     /\ Owns(fr[<<waitq[cv][i], n>>])
  <2>1. PICK r \in Threads : r = waitq[cv][i] /\ WaitsFor(r, cv)
    BY <1>2, <1>3 DEF QueueInv
  <2>2. stack[r] # <<>> /\ Top(r).pc = "unlinkwait" /\ Top(r).s = s
    BY <2>1, CvFacts DEF WaitsFor
  <2>3. /\ Len(stack[r]) \in Nat \ {0} /\ <<r, Len(stack[r])>> \in Slots
        /\ fr[<<r, Len(stack[r])>>] = Top(r) /\ FrameOK(Top(r)) /\ Top(r) \in FrameRec
    BY <2>2, TopFacts
  <2>4. Owns(Top(r))
    BY <2>2, <2>3 DEF Owns, FrameOK, FrameRec, Ops, OpenPcs, InvokePcs, CancelPcs
  <2> QED BY <2>1, <2>2, <2>3, <2>4
<1>4. ASSUME NEW i \in DOMAIN waitq[cv], NEW j \in DOMAIN waitq[cv] PROVE i = j
  <2>1. PICK n \in Nat \ {0} : /\ <<waitq[cv][i], n>> \in Slots
                               /\ fr[<<waitq[cv][i], n>>].s = s
                               /\ Owns(fr[<<waitq[cv][i], n>>])
    BY <1>3
  <2>2. PICK m \in Nat \ {0} : /\ <<waitq[cv][j], m>> \in Slots
                               /\ fr[<<waitq[cv][j], m>>].s = s
                               /\ Owns(fr[<<waitq[cv][j], m>>])
    BY <1>3
  <2>3. PICK x \in Slots, y \in Slots : x = <<waitq[cv][i], n>> /\ y = <<waitq[cv][j], m>>
    BY <2>1, <2>2
  <2>4. x = y
    BY <1>1, <2>1, <2>2, <2>3 DEF SessInv, SessOwners
  <2>5. waitq[cv][i] = waitq[cv][j]
    BY <2>3, <2>4
  <2> QED BY <1>2, <2>5 DEF QueueInv
<1>5. Popped(cv) => waitq'[cv] = <<>>
  <2>1. ASSUME waitq[cv] # <<>>, waitq'[cv] = Tail(waitq[cv]) PROVE waitq'[cv] = <<>>
    <3>1. /\ Tail(waitq[cv]) \in Seq(Threads) /\ Len(waitq[cv]) \in Nat \ {0}
          /\ Len(Tail(waitq[cv])) = Len(waitq[cv]) - 1 /\ DOMAIN waitq[cv] = 1..Len(waitq[cv])
      BY <1>2, <2>1, TailFacts
    <3>2. Len(waitq[cv]) = 1
      <4>1. 1 \in DOMAIN waitq[cv] /\ Len(waitq[cv]) \in DOMAIN waitq[cv]
        BY <3>1
      <4> QED BY <1>4, <4>1
    <3>3. Len(Tail(waitq[cv])) = 0
      BY <3>1, <3>2
    <3> HIDE DEF cv
    <3>4. PICK q \in Seq(Threads) : q = Tail(waitq[cv])
      BY <3>1
    <3>5. q = <<>>
      BY <3>3, <3>4
    <3> QED BY <2>1, <3>4, <3>5
  <2> QED BY <2>1 DEF Popped
<1>6. ASSUME waitq[cv] # <<>> PROVE \E x \in Slots : fr[x].pc = "unlinkwait" /\ fr[x].s = s
  <2>1. 1 \in DOMAIN waitq[cv]
    BY <1>2, <1>6, TailFacts
  <2> QED BY <1>3, <2>1
<1> QED BY <1>4, <1>5, <1>6

(* The calls of one thread work on different lists of sessions.            *)
LEMMA ListsDiffer ==
  ASSUME TaInv, NEW x \in Slots, NEW y \in Slots, x[1] = y[1], fr[x] # Gone, fr[y] # Gone,
         fr[x].list = fr[y].list
  PROVE  x = y
<1>1. StackInv(fr) /\ SessInv(fr, sess, known) /\ CtxInv(fr, sess, ctx) /\ BusyInv(fr, ctx)
  BY DEF TaInv, AllInv
<1>2. PICK t \in Threads, n \in Nat \ {0}, m \in Nat \ {0} : x = <<t, n>> /\ y = <<t, m>>
  BY DEF Slots
<1>3. CalledFrom(fr, t, n, fr[x].list) /\ CalledFrom(fr, t, m, fr[y].list)
  BY <1>1, <1>2 DEF StackInv
<1>4. ASSUME NEW k \in Nat \ {0}, k > 1, fr[<<t, k - 1>>].pc \in {"run", "destroy"},
             fr[<<t, k - 1>>] # Gone
      PROVE  k - 1 \in Nat \ {0} /\ <<t, k - 1>> \in Slots /\ fr[<<t, k - 1>>].c \in Ctxs
  <2>1. k - 1 \in Nat \ {0} /\ <<t, k - 1>> \in Slots
    BY <1>4 DEF Slots
  <2>2. PICK z \in Slots : z = <<t, k - 1>>
    BY <2>1
  <2>3. FrameOK(fr[z])
    BY <1>1, <1>4, <2>2 DEF StackInv, GoodFrame
  <2> QED BY <1>4, <2>1, <2>2, <2>3 DEF FrameOK, EnteredPcs
<1>5. CASE fr[x].list = Nsec
  <2>1. n = 1 /\ m = 1
    BY <1>3, <1>4, <1>5, NoneAssumption DEF CalledFrom
  <2> QED BY <1>2, <2>1
<1>6. CASE fr[x].list # Nsec
  <2>1. /\ n > 1 /\ fr[<<t, n - 1>>].pc \in {"run", "destroy"} /\ fr[<<t, n - 1>>] # Gone
        /\ fr[x].list = fr[<<t, n - 1>>].c
    BY <1>3, <1>6 DEF CalledFrom
  <2>2. n - 1 \in Nat \ {0} /\ fr[<<t, n - 1>>].c \in Ctxs
    BY <1>4, <2>1
  <2>3. PICK k \in Nat \ {0} : k = n - 1
    BY <2>2
  <2>4. fr[<<t, k>>].pc \in {"run", "destroy"} /\ fr[<<t, k>>].c \in Ctxs
        /\ fr[y].list = fr[<<t, k>>].c /\ fr[x].list = fr[<<t, k>>].c
    BY <2>1, <2>2, <2>3
  <2>5. x = <<t, k + 1>>
    BY <1>1, <2>4, SoleList
  <2>6. y = <<t, k + 1>>
    BY <1>1, <2>4, SoleList
  <2> QED BY <2>5, <2>6
<1> QED BY <1>5, <1>6

(* The calls that have a session in their list: one per thread.            *)
LEMMA RefsDiffer ==
  ASSUME TaInv, NEW x \in Slots, NEW y \in Slots, x[1] = y[1], HasRef(fr[x]), fr[y] # Gone,
         fr[y].s = fr[x].s, sess[fr[y].s].list = fr[y].list
  PROVE  x = y
<1>1. fr[x] # Gone
  BY DEF HasRef, Gone
<1>2. sess[fr[x].s].list = fr[x].list
  BY DEF TaInv, AllInv, SessInv, SessLinks
<1> QED BY <1>1, <1>2, ListsDiffer

LEMMA LockHasRef ==
  ASSUME NEW f, HasLock(f)
  PROVE  HasRef(f) /\ f # Gone
BY DEF HasLock, HasRef, Gone

LEMMA LockedStep ==
  ASSUME NEW fm, NEW x \in Slots, NEW g, NEW gm, Changes(fm, x, g, gm), NEW S, NEW T,
         LockedInv(fm, S), \A y \in Slots : HasLock(fm[y]) => fm[y].s \in Sessions,
         HasLock(g) => T[g.s].lock = x[1],
         \A s \in Sessions :
           \/ /\ T[s].lock = S[s].lock
              /\ HasLock(fm[x]) /\ fm[x].s = s => HasLock(g) /\ g.s = s
           \/ /\ T[s].lock = NoThread
              /\ \A y \in Slots \ {x} : HasLock(fm[y]) => fm[y].s # s
           \/ T[s].lock = x[1] /\ HasLock(g) /\ g.s = s /\ S[s].lock = NoThread,
         g.pc = "unlinkwait" => T[g.s].unlink,
         \A y \in Slots \ {x} : fm[y].pc = "unlinkwait" => T[fm[y].s].unlink
  PROVE  LockedInv(gm, T)
<1>1. /\ gm[x] = g /\ \A y \in Slots \ {x} : gm[y] = fm[y]
  BY DEF Changes
<1>2. PICK t \in Threads, n \in Nat \ {0} : x = <<t, n>>
  BY DEF Slots
<1>3. ASSUME NEW y \in Slots, HasLock(gm[y]) PROVE T[gm[y].s].lock = y[1]
  <2>1. CASE y = x
    BY <1>1, <1>3, <2>1
  <2>2. CASE y # x
    <3>1. PICK s \in Sessions : s = fm[y].s
      BY <1>1, <1>3, <2>2
    <3>2. gm[y] = fm[y] /\ HasLock(fm[y]) /\ S[s].lock = y[1]
      BY <1>1, <1>3, <2>2, <3>1 DEF LockedInv
    <3>3. y[1] \in Threads
      BY DEF Slots
    <3>4. S[s].lock # NoThread
      BY <3>2, <3>3, NoneAssumption
    <3>5. T[s].lock = S[s].lock
      BY <2>2, <3>1, <3>2, <3>4
    <3> QED BY <3>1, <3>2, <3>5
  <2> QED BY <2>1, <2>2
<1>4. ASSUME NEW s \in Sessions, T[s].lock # NoThread
      PROVE  \E m \in Nat \ {0} : HasLock(gm[<<T[s].lock, m>>]) /\ gm[<<T[s].lock, m>>].s = s
  <2>1. CASE T[s].lock = x[1] /\ HasLock(g) /\ g.s = s
    <3>1. gm[<<T[s].lock, n>>] = g
      BY <1>1, <1>2, <2>1
    <3> QED BY <1>2, <2>1, <3>1
  <2>2. CASE /\ T[s].lock = S[s].lock
             /\ HasLock(fm[x]) /\ fm[x].s = s => HasLock(g) /\ g.s = s
    <3>1. PICK m \in Nat \ {0} : HasLock(fm[<<S[s].lock, m>>]) /\ fm[<<S[s].lock, m>>].s = s
      BY <1>4, <2>2 DEF LockedInv
    <3>2. PICK y : y = <<S[s].lock, m>>
      OBVIOUS
    <3>3. HasLock(gm[y]) /\ gm[y].s = s
      <4>1. CASE y = x
        BY <1>1, <2>2, <3>1, <3>2, <4>1
      <4>2. CASE y # x
        <5>1. gm[y] = fm[y]
          BY <4>2 DEF Changes
        <5> QED BY <3>1, <3>2, <5>1
      <4> QED BY <4>1, <4>2
    <3> QED BY <2>2, <3>2, <3>3
  <2> QED BY <1>4, <2>1, <2>2
<1>5. ASSUME NEW y \in Slots, gm[y].pc = "unlinkwait" PROVE T[gm[y].s].unlink
  BY <1>1, <1>5
<1> QED BY <1>3, <1>4, <1>5 DEF LockedInv

(* Thread t replaces call f by g.                                          *)
Takes(t, f, g) == /\ \E n \in Nat \ {0} : Shifts(t, n, g) /\ fr[<<t, n>>] = f
                  /\ \A r \in Threads \ {t} : stack'[r] = stack[r]

LEMMA TakesLemma ==
  ASSUME TaInv, NEW t \in Threads, NEW g
  PROVE  /\ stack[t] # <<>> /\ Become(t, g) /\ g \in FrameRec => Takes(t, Top(t), g)
         /\ stack[t] # <<>> /\ Return(t) => Takes(t, Top(t), Gone)
         /\ Push(t, g) /\ g \in FrameRec => Takes(t, Gone, g)
<1>1. stack \in Stacks
  BY DEF TaInv, Stacks
<1>2. ASSUME stack[t] # <<>>, Become(t, g), g \in FrameRec PROVE Takes(t, Top(t), g)
  <2>1. Shifts(t, Len(stack[t]), g)
    BY <1>1, <1>2, BecomeLemma
  <2>2. Len(stack[t]) \in Nat \ {0} /\ fr[<<t, Len(stack[t])>>] = Top(t)
    BY <1>2, TopFacts
  <2>3. \A r \in Threads \ {t} : stack'[r] = stack[r]
    BY <1>1, <1>2 DEF Become, Stacks
  <2> QED BY <2>1, <2>2, <2>3 DEF Takes
<1>3. ASSUME stack[t] # <<>>, Return(t) PROVE Takes(t, Top(t), Gone)
  <2>1. Shifts(t, Len(stack[t]), Gone)
    BY <1>1, <1>3, ReturnLemma
  <2>2. Len(stack[t]) \in Nat \ {0} /\ fr[<<t, Len(stack[t])>>] = Top(t)
    BY <1>3, TopFacts
  <2>3. \A r \in Threads \ {t} : stack'[r] = stack[r]
    BY <1>1, <1>3 DEF Return, Stacks
  <2> QED BY <2>1, <2>2, <2>3 DEF Takes
<1>4. ASSUME Push(t, g), g \in FrameRec PROVE Takes(t, Gone, g)
  <2>1. Shifts(t, Len(stack[t]) + 1, g) /\ fr[<<t, Len(stack[t]) + 1>>] = Gone
    BY <1>1, <1>4, PushLemma
  <2>2. Len(stack[t]) + 1 \in Nat \ {0}
    BY <1>1 DEF Stacks
  <2>3. \A r \in Threads \ {t} : stack'[r] = stack[r]
    BY <1>1, <1>4 DEF Push, Stacks
  <2> QED BY <2>1, <2>2, <2>3 DEF Takes
<1> QED BY <1>2, <1>3, <1>4

(* The locks of sessions after a step that neither takes nor frees one.    *)
SameLock(f, g) ==
  /\ HasLock(g) <=> HasLock(f)
  /\ HasLock(f) => g.s = f.s
  /\ g.pc = "unlinkwait" => f.pc = "unlinkwait" /\ g.s = f.s

LEMMA LockedStays ==
  ASSUME TaInv, LockedInv(fr, sess), NEW t \in Threads, NEW f, NEW g, Takes(t, f, g),
         SameLock(f, g),
         \A s \in Sessions : sess'[s].lock = sess[s].lock /\ sess'[s].unlink = sess[s].unlink
  PROVE  LockedInv(fr', sess')
<1>1. PICK n \in Nat \ {0} : Shifts(t, n, g) /\ fr[<<t, n>>] = f
  BY DEF Takes
<1>2. PICK x \in Slots : x = <<t, n>>
  BY <1>1 DEF Shifts
<1>3. Changes(fr, x, g, fr') /\ fr[x] = f
  BY <1>1, <1>2 DEF Shifts
<1>4. StackInv(fr)
  BY DEF TaInv, AllInv
<1>5. ASSUME NEW y \in Slots, HasLock(fr[y]) \/ fr[y].pc = "unlinkwait" PROVE fr[y].s \in Sessions
  <2>1. fr[y] # Gone
    BY <1>5 DEF HasLock, Gone
  <2> QED BY <1>4, <1>5, <2>1 DEF StackInv, GoodFrame, FrameOK, HasLock
<1>6. HasLock(g) => sess'[g.s].lock = x[1]
  BY <1>3, <1>5 DEF SameLock, LockedInv
<1>7. g.pc = "unlinkwait" => sess'[g.s].unlink
  BY <1>3, <1>5 DEF SameLock, LockedInv
<1>8. \A y \in Slots \ {x} : fr[y].pc = "unlinkwait" => sess'[fr[y].s].unlink
  BY <1>5 DEF LockedInv
<1>9. \A s \in Sessions : /\ sess'[s].lock = sess[s].lock
                          /\ HasLock(fr[x]) /\ fr[x].s = s => HasLock(g) /\ g.s = s
  BY <1>3 DEF SameLock
<1> QED BY <1>3, <1>5, <1>6, <1>7, <1>8, <1>9, LockedStep

(* A step that neither waits nor wakes anybody, and after which those who  *)
(* wait have what they wait for no more than before.                       *)
SessCalm == \A s \in Sessions : /\ sess'[s].lock = sess[s].lock
                                /\ sess'[s].unlink = sess[s].unlink
                                /\ sess'[s].ref = sess[s].ref \/ waitq[RefcCv(s)] = <<>>
CtxCalm == \A c \in Ctxs : ctx[c].linked => /\ ctx'[c].uuid = ctx[c].uuid
                                            /\ ctx'[c].busy = ctx[c].busy

LEMMA CalmStep ==
  ASSUME WaitInv, TaInv', NEW t \in Threads, NEW f, NEW g, Takes(t, f, g), SameLock(f, g),
         ~crashed, ~Waiting(t), stack[t] = <<>> \/ Top(t).pc \notin {"busy", "getwait"},
         UNCHANGED <<waitq, siThread, crashed>>, CtxCalm, SessCalm
  PROVE  WaitInv'
<1> USE DEF SessCalm, CtxCalm
<1>1. TaInv /\ LockedInv(fr, sess) /\ QueueInv /\ NoForgottenWaiter
  BY DEF WaitInv
<1>2. OnlyMoves(t)
  BY DEF OnlyMoves, Takes
<1>3. /\ Moves(t) /\ (\A cv \in Cvs : QueueMove(t, cv)) /\ waitq' = [cv \in Cvs |-> waitq'[cv]]
  BY <1>1, <1>2 DEF Moves, QueueMove, QueueInv
<1>4. QueueInv'
  BY <1>1, <1>2, <1>3, QueueStep
<1>5. LockedInv(fr, sess)'
  BY <1>1, LockedStays
<1>6. ~At(t, "busy") /\ ~At(t, "getwait")
  BY DEF At
<1>7. SiTold'
  BY <1>1, <1>3, <1>6, SiToldStep DEF NoForgottenWaiter
<1>8. ASSUME NEW c \in Ctxs PROVE BusyTold(c)'
  <2>1. ctx[c].linked => ctx'[c].busy = ctx[c].busy
    OBVIOUS
  <2> QED BY <1>1, <1>3, <1>6, <2>1, BusyToldStep DEF NoForgottenWaiter
<1>9. ASSUME NEW s \in Sessions PROVE LockTold(s)' /\ RefcTold(s)'
  <2>1. LockTold(s) /\ RefcTold(s)
    BY <1>1 DEF NoForgottenWaiter
  <2>2. LockTold(s)'
    BY <1>1, <1>3, <1>6, <2>1, LockToldStep
  <2>3. RefcTold(s)'
    BY <2>1 DEF RefcTold, RefcCv
  <2> QED BY <2>2, <2>3
<1> QED BY <1>4, <1>5, <1>7, <1>8, <1>9 DEF WaitInv, NoForgottenWaiter

-----------------------------------------------------------------------------
(* The actions again, for the locks and the queues: the calm ones first.   *)
LEMMA IdleIsAwake ==
  ASSUME QueueInv, NEW t \in Threads, stack[t] = <<>>
  PROVE  ~Waiting(t)
<1>1. ASSUME NEW cv \in Cvs, NEW i \in DOMAIN waitq[cv], waitq[cv][i] = t PROVE FALSE
  <2>1. WaitsFor(t, cv)
    BY <1>1 DEF QueueInv
  <2> QED BY <2>1 DEF WaitsFor
<1> QED BY <1>1 DEF Waiting

LEMMA GoneHasNoLock ==
  ~HasLock(Gone) /\ Gone.pc = "get" /\ Gone.op = "none"
BY DEF HasLock, Gone

LEMMA CallWaits ==
  ASSUME WaitInv, TaInv', NEW t \in Threads, Call(t)
  PROVE  WaitInv'
<1>1. TaInv /\ QueueInv
  BY DEF WaitInv
<1>2. PICK list : list = Caller(t)
  OBVIOUS
<1>3. /\ \/ stack[t] = <<>> /\ list = Nsec
         \/ stack[t] # <<>> /\ At(t, "run") /\ Top(t).pc \in {"run", "destroy"} /\ list = Top(t).c
      /\ ~crashed /\ UNCHANGED <<siThread, siCount, ctx, sess, waitq, crashed>>
  BY <1>2 DEF Call, open_session, invoke_command, close_session, entry_cancel, CanCall, At,
              Caller, unchangedCore
<1>4. list \in Ctxs \cup {Nsec}
  BY <1>1, <1>3, CallerFacts
<1>5. ~Waiting(t) /\ (stack[t] = <<>> \/ Top(t).pc \notin {"busy", "getwait"})
  BY <1>1, <1>3, IdleIsAwake DEF At
<1>6. PICK op \in {"open", "invoke", "close", "cancel"}, pc \in {"init", "get"},
           u \in Uuids \cup {NoUuid}, s \in Sessions \cup {NoSess} :
        Push(t, Frame(op, pc, u, s, list, FALSE))
  <2>1. ASSUME NEW u \in Uuids, open_session(t, u)
        PROVE  Push(t, Frame("open", "init", u, NoSess, list, FALSE))
    BY <1>2, <2>1 DEF open_session
  <2>2. ASSUME NEW s \in Sessions, invoke_command(t, s)
        PROVE  Push(t, Frame("invoke", "get", NoUuid, s, list, FALSE))
    BY <1>2, <2>2 DEF invoke_command
  <2>3. ASSUME NEW s \in Sessions, close_session(t, s)
        PROVE  Push(t, Frame("close", "get", NoUuid, s, list, FALSE))
    BY <1>2, <2>3 DEF close_session
  <2>4. ASSUME NEW s \in Sessions, entry_cancel(t, s)
        PROVE  Push(t, Frame("cancel", "get", NoUuid, s, list, FALSE))
    BY <1>2, <2>4 DEF entry_cancel, Caller
  <2> QED BY <2>1, <2>2, <2>3, <2>4 DEF Call
<1>7. PICK g : g = Frame(op, pc, u, s, list, FALSE)
  OBVIOUS
<1>8. g \in FrameRec /\ g.pc \in {"init", "get"}
  BY <1>4, <1>7 DEF Frame, FrameRec, Ops, PCs
<1>9. Takes(t, Gone, g)
  BY <1>1, <1>6, <1>7, <1>8, TakesLemma
<1>10. SameLock(Gone, g)
  BY <1>8, GoneHasNoLock DEF SameLock, HasLock
<1>11. SessCalm /\ CtxCalm
  BY <1>3 DEF SessCalm, CtxCalm
<1> QED BY <1>3, <1>5, <1>9, <1>10, <1>11, CalmStep

(* A step of the call on top that is calm.                                 *)
TopBecomes(t, g) == (Become(t, g) /\ g \in FrameRec) \/ (Return(t) /\ g = Gone)

LEMMA CalmTop ==
  ASSUME WaitInv, TaInv', NEW t \in Threads, NEW pc, At(t, pc), pc \notin {"busy", "getwait"},
         NEW g, TopBecomes(t, g), SameLock(Top(t), g), UNCHANGED <<waitq, siThread, crashed>>,
         CtxCalm, SessCalm
  PROVE  WaitInv'
<1>1. TaInv
  BY DEF WaitInv
<1>2. stack[t] # <<>> /\ ~Waiting(t) /\ ~crashed /\ Top(t).pc \notin {"busy", "getwait"}
  BY DEF At
<1>3. Takes(t, Top(t), g)
  BY <1>1, <1>2, TakesLemma DEF TopBecomes
<1>4. PICK f : f = Top(t)
  OBVIOUS
<1>5. Takes(t, f, g) /\ SameLock(f, g)
  BY <1>3, <1>4
<1> QED BY <1>2, <1>5, CalmStep

LEMMA TopFrame ==
  ASSUME WaitInv, NEW t \in Threads, NEW pc, At(t, pc)
  PROVE  /\ TaInv /\ LockedInv(fr, sess) /\ QueueInv /\ NoForgottenWaiter
         /\ Top(t).pc = pc /\ Top(t) \in FrameRec /\ FrameOK(Top(t)) /\ stack[t] # <<>>
         /\ ~Waiting(t) /\ ~crashed /\ sess \in [Sessions -> SessRec] /\ ctx \in [Ctxs -> CtxRec]
<1>1. TaInv /\ LockedInv(fr, sess) /\ QueueInv /\ NoForgottenWaiter
  BY DEF WaitInv
<1>2. Top(t).pc = pc /\ stack[t] # <<>> /\ ~Waiting(t) /\ ~crashed
  BY DEF At
<1>3. Top(t) \in FrameRec /\ FrameOK(Top(t))
  BY <1>1, <1>2, TopFacts
<1>4. sess \in [Sessions -> SessRec] /\ ctx \in [Ctxs -> CtxRec]
  BY <1>1 DEF TaInv, AllInv, SessInv, CtxInv
<1> QED BY <1>1, <1>2, <1>3, <1>4

LEMMA TaEndsWaits ==
  ASSUME WaitInv, TaInv', NEW t \in Threads, TaEnds(t)
  PROVE  WaitInv'
<1>1. PICK f : f = Top(t)
  OBVIOUS
<1>2. At(t, "run") /\ UNCHANGED <<waitq, siThread, crashed>>
  BY DEF TaEnds, ta_returns, ta_panics
<1>3. /\ f.pc = "run" /\ f \in FrameRec /\ FrameOK(f) /\ f.s \in Sessions /\ f.c \in Ctxs
      /\ sess \in [Sessions -> SessRec] /\ ctx \in [Ctxs -> CtxRec]
  BY <1>1, <1>2, TopFrame DEF FrameOK, EnteredPcs
<1>4. PICK ok \in BOOLEAN : Become(t, AfterRun(f, ok))
  BY <1>1, Zenon DEF TaEnds, ta_returns, ta_panics
<1>5. sess' = [sess EXCEPT ![f.s].cancel = FALSE]
      /\ (ctx' = ctx \/ ctx' = [ctx EXCEPT ![f.c].panicked = TRUE])
  BY <1>1 DEF TaEnds, ta_returns, ta_panics
<1>6. PICK g : g = AfterRun(f, ok)
  OBVIOUS
<1>7. /\ g \in FrameRec /\ g.op = f.op /\ g.s = f.s
      /\ g.pc = IF f.op = "close" THEN "unlink" ELSE "clear"
  BY <1>3, <1>6 DEF AfterRun, FrameRec, PCs
<1>8. SameLock(f, g)
  BY <1>3, <1>7 DEF SameLock, HasLock
<1>9. SessCalm
  BY <1>3, <1>5 DEF SessRec, SessCalm
<1>10. CtxCalm
  BY <1>3, <1>5 DEF CtxRec, CtxCalm
<1>11. TopBecomes(t, g) /\ SameLock(Top(t), g)
  BY <1>1, <1>4, <1>6, <1>7, <1>8 DEF TopBecomes
<1> QED BY <1>2, <1>7, <1>9, <1>10, <1>11, CalmTop

LEMMA NewSessionWaits ==
  ASSUME WaitInv, TaInv', NEW t \in Threads, At(t, "init"), NEW s \in Sessions, NEW c \in Ctxs,
         NewSession(t, s, c), NEW d, ctx' = [ctx EXCEPT ![c] = d], d.busy = ctx[c].busy,
         ctx[c].linked => d.uuid = ctx[c].uuid
  PROVE  WaitInv'
<1>1. PICK f : f = Top(t)
  OBVIOUS
<1>2. /\ f.pc = "init" /\ f \in FrameRec /\ FrameOK(f) /\ TaInv /\ QueueInv
      /\ sess \in [Sessions -> SessRec] /\ ctx \in [Ctxs -> CtxRec]
  BY <1>1, TopFrame
<1>3. PICK g : g = [f EXCEPT !.pc = "entry", !.s = s, !.c = c]
  OBVIOUS
<1>4. /\ TopBecomes(t, g) /\ g.pc = "entry"
  BY <1>1, <1>2, <1>3 DEF NewSession, FrameRec, PCs, TopBecomes
<1>5. SameLock(Top(t), g)
  BY <1>1, <1>2, <1>4 DEF SameLock, HasLock
<1>6. CtxCalm
  BY <1>2 DEF CtxCalm
<1>7. UNCHANGED <<waitq, siThread, crashed>>
  BY DEF NewSession
<1>8. \A r \in Sessions : sess'[r].lock = sess[r].lock /\ sess'[r].unlink = sess[r].unlink
                          /\ (r # s => sess'[r] = sess[r])
  BY <1>2 DEF NewSession, FreeSess
<1>9. waitq[RefcCv(s)] = <<>>
  <2>1. ASSUME waitq[RefcCv(s)] # <<>> PROVE FALSE
    <3>1. PICK x \in Slots : fr[x].pc = "unlinkwait" /\ fr[x].s = s
      BY <1>2, <2>1, RefcAlone
    <3>2. HasRef(fr[x])
      BY <3>1 DEF HasRef
    <3>3. sess[s].ref # 0
      BY <1>2, <3>1, <3>2, RefPositive DEF TaInv, AllInv
    <3> QED BY <3>3 DEF NewSession, FreeSess
  <2> QED BY <2>1
<1>10. SessCalm
  BY <1>8, <1>9 DEF SessCalm
<1> QED BY <1>4, <1>5, <1>6, <1>7, <1>10, CalmTop

LEMMA InitWaits ==
  ASSUME WaitInv, TaInv', NEW t \in Threads, NEW s \in Sessions,
         \/ init_session_with_context(t, s)
         \/ \E c \in Ctxs : init_ta_session(t, s, c)
  PROVE  WaitInv'
<1>1. ctx \in [Ctxs -> CtxRec]
  BY DEF WaitInv, TaInv, AllInv, CtxInv
<1>2. CASE init_session_with_context(t, s)
  <2>1. PICK c \in Ctxs : ctx' = [ctx EXCEPT ![c].ref = @ + 1] /\ NewSession(t, s, c)
    BY <1>2 DEF init_session_with_context, Loaded
  <2>2. At(t, "init")
    BY <1>2 DEF init_session_with_context
  <2>3. PICK d : d = [ctx[c] EXCEPT !.ref = @ + 1]
    OBVIOUS
  <2>4. ctx' = [ctx EXCEPT ![c] = d] /\ d.busy = ctx[c].busy /\ d.uuid = ctx[c].uuid
    BY <1>1, <2>1, <2>3 DEF CtxRec
  <2> QED BY <2>1, <2>2, <2>4, NewSessionWaits
<1>3. ASSUME NEW c \in Ctxs, init_ta_session(t, s, c) PROVE WaitInv'
  <2>1. PICK d : d = NewContext(Top(t).u)
    OBVIOUS
  <2>2. /\ At(t, "init") /\ NewSession(t, s, c) /\ ctx[c] = FreeCtx
        /\ ctx' = [ctx EXCEPT ![c] = d]
    BY <1>3, <2>1 DEF init_ta_session
  <2>3. d.busy = ctx[c].busy /\ ~ctx[c].linked
    BY <2>1, <2>2 DEF NewContext, FreeCtx
  <2> QED BY <2>2, <2>3, NewSessionWaits
<1> QED BY <1>2, <1>3

LEMMA CalmCore ==
  ASSUME UNCHANGED <<ctx, sess>>
  PROVE  SessCalm /\ CtxCalm
BY DEF SessCalm, CtxCalm

LEMMA FailsWaits ==
  ASSUME WaitInv, TaInv', NEW t \in Threads, init_session_fails(t) \/ get_session_fails(t)
  PROVE  WaitInv'
<1>1. PICK pc \in {"init", "get"} : At(t, pc)
  BY DEF init_session_fails, get_session_fails
<1>2. Return(t) /\ UNCHANGED <<siThread, ctx, sess, waitq, crashed>>
  BY DEF init_session_fails, get_session_fails, unchangedCore
<1>3. SessCalm /\ CtxCalm
  BY <1>2, CalmCore
<1>4. TopBecomes(t, Gone)
  BY <1>2 DEF TopBecomes
<1>5. SameLock(Top(t), Gone)
  BY <1>1, GoneHasNoLock DEF SameLock, At, HasLock
<1>6. PICK g : g = Gone
  OBVIOUS
<1> QED BY <1>1, <1>2, <1>3, <1>4, <1>5, <1>6, CalmTop

LEMMA OpenEntryWaits ==
  ASSUME WaitInv, TaInv', NEW t \in Threads, open_entry(t)
  PROVE  WaitInv'
<1>1. PICK f : f = Top(t)
  OBVIOUS
<1>2. /\ f.pc = "entry" /\ f \in FrameRec /\ FrameOK(f) /\ f.s \in Sessions
      /\ sess \in [Sessions -> SessRec] /\ At(t, "entry")
      /\ UNCHANGED <<siThread, ctx, waitq, crashed>>
  BY <1>1, TopFrame DEF FrameOK, open_entry
<1>3. f.list \in Ctxs \cup {Nsec}
  BY <1>2 DEF FrameRec
<1>4. CtxCalm /\ SessCalm
  <2>1. sess' = sess \/ sess' = [sess EXCEPT ![f.s].clnt = ClientOf(f.list)]
    BY <1>1 DEF open_entry
  <2> QED BY <1>2, <2>1 DEF CtxCalm, SessCalm, SessRec
<1>5. PICK g : g = IF ctx[f.c].panicked THEN [CloseKern(f.s, f.list) EXCEPT !.held = TRUE]
                   ELSE [f EXCEPT !.pc = "busy"]
  OBVIOUS
<1>6. Become(t, g)
  BY <1>1, <1>5 DEF open_entry, Goto
<1>7. g \in FrameRec /\ g.pc \in {"get", "busy"} /\ (g.pc = "busy" => g.op = f.op)
  <2>1. PICK k : k = CloseKern(f.s, f.list)
    OBVIOUS
  <2>2. k \in FrameRec /\ k.pc = "get"
    BY <1>2, <1>3, <2>1, CloseKernFacts
  <2>3. \/ g = [k EXCEPT !.held = TRUE]
        \/ g = [f EXCEPT !.pc = "busy"]
    BY <1>5, <2>1
  <2> QED BY <1>2, <2>2, <2>3 DEF FrameRec, PCs
<1>8. f.op = "open"
  BY <1>2 DEF FrameOK, FrameRec, Ops, InvokePcs, ClosePcs, CancelPcs
<1>9. SameLock(Top(t), g) /\ TopBecomes(t, g)
  BY <1>1, <1>6, <1>7, <1>8 DEF SameLock, HasLock, TopBecomes
<1> QED BY <1>2, <1>4, <1>9, CalmTop

LEMMA ChecksWaits ==
  ASSUME WaitInv, TaInv', NEW t \in Threads, open_checks_panic(t) \/ close_entry(t)
  PROVE  WaitInv'
<1>1. PICK f : f = Top(t)
  OBVIOUS
<1>2. PICK pc \in {"opened", "closing"} : At(t, pc)
  BY DEF open_checks_panic, close_entry
<1>3. /\ f.pc = pc /\ f \in FrameRec /\ FrameOK(f) /\ UNCHANGED <<siThread, ctx, sess, waitq, crashed>>
  BY <1>1, <1>2, TopFrame DEF open_checks_panic, close_entry, unchangedCore
<1>4. CtxCalm /\ SessCalm
  BY <1>3, CalmCore
<1>5. CASE open_checks_panic(t)
  <2>1. PICK g : g = [f EXCEPT !.pc = "put", !.bad = f.bad \/ ctx[f.c].panicked]
    OBVIOUS
  <2>2. Become(t, g) /\ f.pc = "opened"
    BY <1>1, <1>5, <2>1 DEF open_checks_panic, At
  <2>3. g \in FrameRec /\ g.pc = "put" /\ g.op = f.op
    BY <1>3, <2>1 DEF FrameRec, PCs
  <2>4. f.op = "open"
    BY <1>3, <2>2 DEF FrameOK, FrameRec, Ops, InvokePcs, ClosePcs, CancelPcs
  <2>5. SameLock(Top(t), g) /\ TopBecomes(t, g)
    BY <1>1, <2>2, <2>3, <2>4 DEF SameLock, HasLock, TopBecomes
  <2> QED BY <1>2, <1>3, <1>4, <2>5, CalmTop
<1>6. CASE close_entry(t)
  <2>1. PICK g : g = [f EXCEPT !.pc = IF ctx[f.c].panicked THEN "unlink" ELSE "run"]
    OBVIOUS
  <2>2. Become(t, g) /\ f.pc = "closing"
    BY <1>1, <1>6, <2>1 DEF close_entry, At, Goto
  <2>3. g \in FrameRec /\ g.pc \in {"unlink", "run"} /\ g.op = f.op /\ g.s = f.s
    BY <1>3, <2>1 DEF FrameRec, PCs
  <2>4. SameLock(Top(t), g) /\ TopBecomes(t, g)
    BY <1>1, <2>2, <2>3 DEF SameLock, HasLock, TopBecomes
  <2> QED BY <1>2, <1>3, <1>4, <2>4, CalmTop
<1> QED BY <1>5, <1>6

LEMMA CheckCallWaits ==
  ASSUME WaitInv, TaInv', NEW t \in Threads, check_call(t)
  PROVE  WaitInv'
<1>1. PICK f : f = Top(t)
  OBVIOUS
<1>2. /\ f.pc = "check" /\ f \in FrameRec /\ FrameOK(f) /\ f.s \in Sessions
      /\ sess \in [Sessions -> SessRec] /\ At(t, "check") /\ TaInv
      /\ UNCHANGED <<siThread, ctx, waitq, crashed>>
  BY <1>1, TopFrame DEF FrameOK, check_call
<1>3. sess[f.s].ctx \in Ctxs
  BY <1>1, <1>2, TopFacts DEF HasRef, At
<1>4. CtxCalm /\ SessCalm
  <2>1. sess' = sess \/ sess' = [sess EXCEPT ![f.s].cancel = sess[f.s].cancel \/ check_client(f)]
    BY <1>1 DEF check_call
  <2> QED BY <1>2, <2>1 DEF CtxCalm, SessCalm, SessRec
<1>5. PICK g : /\ Become(t, g)
               /\ \/ g = [f EXCEPT !.pc = "busy", !.c = sess[f.s].ctx] /\ f.op # "cancel"
                  \/ g = [f EXCEPT !.pc = "put"]
  BY <1>1 DEF check_call, Goto
<1>6. /\ g \in FrameRec /\ g.op = f.op /\ g.s = f.s /\ g.pc \in {"busy", "put"}
  BY <1>2, <1>3, <1>5 DEF FrameRec, PCs
<1>7. SameLock(Top(t), g) /\ TopBecomes(t, g)
  BY <1>1, <1>2, <1>5, <1>6 DEF SameLock, HasLock, TopBecomes
<1> QED BY <1>2, <1>4, <1>7, CalmTop

LEMMA DropWaits ==
  ASSUME WaitInv, TaInv', NEW t \in Threads, drop_context(t)
  PROVE  WaitInv'
<1>1. PICK f : f = Top(t)
  OBVIOUS
<1>2. /\ f.pc = "deref" /\ f \in FrameRec /\ FrameOK(f) /\ f.c \in Ctxs
      /\ ctx \in [Ctxs -> CtxRec] /\ At(t, "deref")
      /\ UNCHANGED <<siThread, sess, waitq, crashed>>
  BY <1>1, TopFrame DEF FrameOK, drop_context, EnteredPcs
<1>3. CtxCalm /\ SessCalm
  <2>1. ctx' = [ctx EXCEPT ![f.c].ref = ctx[f.c].ref - 1,
                           ![f.c].linked = ctx[f.c].linked /\ ~(ctx[f.c].ref = 1 /\ ~Kept(f.c))]
    BY <1>1 DEF drop_context
  <2> QED BY <1>2, <2>1 DEF CtxCalm, SessCalm, CtxRec
<1>4. PICK g : /\ TopBecomes(t, g)
               /\ g = [f EXCEPT !.pc = "destroy"] \/ g = Gone
  <2>1. [f EXCEPT !.pc = "destroy"] \in FrameRec
    BY <1>2 DEF FrameRec, PCs
  <2> QED BY <1>1, <2>1 DEF drop_context, Goto, TopBecomes
<1>5. SameLock(Top(t), g)
  BY <1>1, <1>2, <1>4, GoneHasNoLock DEF SameLock, HasLock, FrameRec
<1> QED BY <1>2, <1>3, <1>4, <1>5, CalmTop

LEMMA DestroyWaits ==
  ASSUME WaitInv, TaInv', NEW t \in Threads, ctx_destroy(t)
  PROVE  WaitInv'
<1>1. PICK f : f = Top(t)
  OBVIOUS
<1>2. /\ f.pc = "destroy" /\ f \in FrameRec /\ FrameOK(f) /\ f.c \in Ctxs /\ TaInv
      /\ ctx \in [Ctxs -> CtxRec] /\ At(t, "destroy") /\ stack[t] # <<>>
      /\ UNCHANGED <<siThread, sess, waitq, crashed>>
  BY <1>1, TopFrame DEF FrameOK, ctx_destroy, EnteredPcs
<1>3. ASSUME NEW s \in Sessions, Push(t, CloseKern(s, f.c)), UNCHANGED ctx PROVE WaitInv'
  <2>1. PICK g : g = CloseKern(s, f.c)
    OBVIOUS
  <2>2. g \in FrameRec /\ g.pc = "get"
    BY <1>2, <2>1, CloseKernFacts
  <2>3. Takes(t, Gone, g)
    BY <1>2, <1>3, <2>1, <2>2, TakesLemma
  <2>4. SameLock(Gone, g)
    BY <2>2, GoneHasNoLock DEF SameLock, HasLock
  <2>5. CtxCalm /\ SessCalm
    BY <1>2, <1>3, CalmCore
  <2>6. ~crashed /\ ~Waiting(t) /\ Top(t).pc \notin {"busy", "getwait"}
    BY <1>2 DEF At
  <2> QED BY <1>2, <2>3, <2>4, <2>5, <2>6, CalmStep
<1>4. ASSUME Return(t), ctx' = [ctx EXCEPT ![f.c] = FreeCtx] PROVE WaitInv'
  <2>1. ~ctx[f.c].linked
    <3>1. <<t, Len(stack[t])>> \in Slots /\ fr[<<t, Len(stack[t])>>] = f
      BY <1>1, <1>2, TopFacts
    <3>2. PICK x \in Slots : x = <<t, Len(stack[t])>>
      BY <3>1
    <3>3. CtxLinks(fr, sess, ctx)
      BY <1>2 DEF TaInv, AllInv, CtxInv
    <3> QED BY <1>2, <3>1, <3>2, <3>3 DEF CtxLinks
  <2>2. CtxCalm /\ SessCalm
    BY <1>2, <1>4, <2>1 DEF CtxCalm, SessCalm
  <2>3. PICK g : g = Gone
    OBVIOUS
  <2>4. TopBecomes(t, g) /\ SameLock(Top(t), g)
    BY <1>1, <1>2, <1>4, <2>3, GoneHasNoLock DEF TopBecomes, SameLock, HasLock
  <2> QED BY <1>2, <2>2, <2>4, CalmTop
<1> QED BY <1>1, <1>3, <1>4 DEF ctx_destroy

-----------------------------------------------------------------------------
(* Steps that wait or wake: first the busy flags and the instance lock.    *)
LEMMA SignalFacts ==
  ASSUME NEW q \in [Cvs -> Seq(Threads)], NEW cv \in Cvs
  PROVE  /\ Signal(q, cv) \in [Cvs -> Seq(Threads)]
         /\ Signal(q, cv)[cv] = IF q[cv] = <<>> THEN <<>> ELSE Tail(q[cv])
         /\ \A dv \in Cvs \ {cv} : Signal(q, cv)[dv] = q[dv]
<1>1. q[cv] \in Seq(Threads)
  OBVIOUS
<1>2. (IF q[cv] = <<>> THEN q[cv] ELSE Tail(q[cv])) \in Seq(Threads)
  BY <1>1, TailFacts
<1>3. PICK r \in Seq(Threads) : r = IF q[cv] = <<>> THEN q[cv] ELSE Tail(q[cv])
  BY <1>2
<1>4. PICK p : p = Signal(q, cv)
  OBVIOUS
<1>5. p = [q EXCEPT ![cv] = r]
  BY <1>3, <1>4 DEF Signal
<1>6. p \in [Cvs -> Seq(Threads)] /\ p[cv] = r /\ \A dv \in Cvs \ {cv} : p[dv] = q[dv]
  BY <1>5
<1> QED BY <1>3, <1>4, <1>6

(* The session is not touched, and no call waits for one.                  *)
LEMMA SessUntouched ==
  ASSUME WaitInv, TaInv', NEW t \in Threads, Moves(t), UNCHANGED sess, ~At(t, "getwait"),
         ~crashed, \A s \in Sessions : /\ waitq'[LockCv(s)] = waitq[LockCv(s)]
                                       /\ waitq'[RefcCv(s)] = waitq[RefcCv(s)],
         LockedInv(fr', sess'), SiTold', \A c \in Ctxs : BusyTold(c)'
  PROVE  WaitInv'
<1>1. TaInv /\ QueueInv /\ NoForgottenWaiter
  BY DEF WaitInv
<1>2. QueueInv'
  BY <1>1, QueueStep DEF Moves
<1>3. ASSUME NEW s \in Sessions PROVE LockTold(s)' /\ RefcTold(s)'
  <2>1. LockTold(s) /\ RefcTold(s)
    BY <1>1 DEF NoForgottenWaiter
  <2>2. LockTold(s)'
    BY <1>1, <2>1, LockToldStep
  <2>3. RefcTold(s)'
    BY <2>1 DEF RefcTold, RefcCv
  <2> QED BY <2>2, <2>3
<1> QED BY <1>2, <1>3 DEF WaitInv, NoForgottenWaiter

LEMMA FrStays ==
  ASSUME UNCHANGED <<stack, sess>>, LockedInv(fr, sess)
  PROVE  LockedInv(fr', sess')
<1>1. fr' = fr
  BY DEF fr
<1> QED BY <1>1

(* Who waits for the busy flag does not need the single-instance lock.     *)
LEMMA BusyWaiters ==
  ASSUME TaInv, QueueInv, NEW c \in Ctxs, waitq[BusyCv(c)] # <<>>
  PROVE  ~Single(c) /\ ctx[c].linked
<1>1. BusyCv(c) \in Cvs /\ waitq[BusyCv(c)] \in Seq(Threads)
  BY CvFacts DEF QueueInv
<1>2. 1 \in DOMAIN waitq[BusyCv(c)]
  BY <1>1, TailFacts
<1>3. PICK w \in Threads : WaitsFor(w, BusyCv(c))
  BY <1>1, <1>2, TailFacts DEF QueueInv
<1>4. stack[w] # <<>> /\ Top(w).pc = "busy" /\ Top(w).c = c /\ ~Single(c)
  BY <1>3, CvFacts DEF WaitsFor
<1> QED BY <1>4, TopFacts

LEMMA BusyWaitsWaits ==
  ASSUME WaitInv, TaInv', NEW t \in Threads, set_busy_waits(t)
  PROVE  WaitInv'
<1>1. PICK c : c = Top(t).c
  OBVIOUS
<1>2. /\ At(t, "busy") /\ Top(t).pc = "busy" /\ c \in Ctxs /\ stack[t] # <<>> /\ ~crashed
      /\ TaInv /\ LockedInv(fr, sess) /\ QueueInv /\ NoForgottenWaiter /\ ~Waiting(t)
      /\ UNCHANGED <<siThread, ctx, sess, stack, crashed>>
  BY <1>1, TopFrame DEF FrameOK, set_busy_waits, EnteredPcs
<1>3. LockedInv(fr', sess')
  BY <1>2, FrStays
<1>4. waitq \in [Cvs -> Seq(Threads)]
  BY <1>2 DEF QueueInv
<1>5. OnlyMoves(t)
  BY <1>2 DEF OnlyMoves
<1>6. ~At(t, "getwait")
  BY <1>2 DEF At
<1>7. ASSUME NEW cv \in Cvs, WaitsFor(t, cv), Wait(t, cv)
      PROVE  Moves(t) /\ \A dv \in Cvs \ {cv} : waitq'[dv] = waitq[dv]
  <2>1. WaitsFor(t, cv)'
    BY <1>2, <1>7 DEF WaitsFor, Top, Single, SiCv, BusyCv, LockCv, RefcCv
  <2>2. /\ waitq' = [dv \in Cvs |-> waitq'[dv]] /\ waitq'[cv] = Append(waitq[cv], t)
        /\ \A dv \in Cvs \ {cv} : waitq'[dv] = waitq[dv]
    BY <1>4, <1>7 DEF Wait
  <2> QED BY <1>2, <1>5, <2>1, <2>2 DEF Moves, QueueMove
<1>8. CASE SiLocked(t, c) /\ Wait(t, SiCv)
  <2>1. WaitsFor(t, SiCv) /\ SiCv \in Cvs
    BY <1>1, <1>2, <1>8, CvFacts DEF WaitsFor, SiLocked
  <2>2. Moves(t) /\ \A dv \in Cvs \ {SiCv} : waitq'[dv] = waitq[dv]
    BY <1>7, <1>8, <2>1
  <2>3. siThread' # NoThread
    BY <1>2, <1>8 DEF SiLocked
  <2>4. SiTold'
    BY <1>2, <2>2, <2>3, SiToldStep DEF NoForgottenWaiter
  <2>5. ASSUME NEW d \in Ctxs PROVE BusyTold(d)'
    <3>1. waitq'[BusyCv(d)] = waitq[BusyCv(d)]
      BY <2>2, CvFacts
    <3>2. BusyTold(d)
      BY <1>2 DEF NoForgottenWaiter
    <3>3. CASE d = c
      <4>1. waitq[BusyCv(d)] = <<>>
        BY <1>2, <1>8, <3>3, BusyWaiters DEF SiLocked
      <4> QED BY <3>1, <4>1 DEF BusyTold, BusyCv
    <3>4. CASE d # c
      <4>1. ~(At(t, "busy") /\ Top(t).c = d)
        BY <1>1, <3>4
      <4> QED BY <1>2, <2>2, <3>1, <3>2, <4>1, BusyToldStep
    <3> QED BY <3>3, <3>4
  <2>6. \A s \in Sessions : /\ waitq'[LockCv(s)] = waitq[LockCv(s)]
                            /\ waitq'[RefcCv(s)] = waitq[RefcCv(s)]
    BY <2>2, CvFacts
  <2> QED BY <1>2, <1>3, <1>6, <2>2, <2>4, <2>5, <2>6, SessUntouched
<1>9. CASE ~HasSi(t, c) /\ ctx[c].busy /\ Wait(t, BusyCv(c))
  <2>1. WaitsFor(t, BusyCv(c)) /\ BusyCv(c) \in Cvs /\ ~Single(c)
    BY <1>1, <1>2, <1>9, CvFacts DEF WaitsFor, HasSi
  <2>2. Moves(t) /\ \A dv \in Cvs \ {BusyCv(c)} : waitq'[dv] = waitq[dv]
    BY <1>7, <1>9, <2>1
  <2>3. waitq'[SiCv] = waitq[SiCv] /\ ~(At(t, "busy") /\ Single(Top(t).c))
    BY <1>1, <2>1, <2>2, CvFacts
  <2>4. SiTold'
    BY <1>2, <2>2, <2>3, SiToldStep DEF NoForgottenWaiter
  <2>5. ASSUME NEW d \in Ctxs PROVE BusyTold(d)'
    <3>2. BusyTold(d)
      BY <1>2 DEF NoForgottenWaiter
    <3>3. CASE d = c
      <4>1. ctx'[d].busy
        BY <1>2, <1>9, <3>3
      <4> QED BY <1>2, <2>2, <3>2, <4>1, BusyToldStep
    <3>4. CASE d # c
      <4>1. ~(At(t, "busy") /\ Top(t).c = d) /\ waitq'[BusyCv(d)] = waitq[BusyCv(d)]
        BY <1>1, <2>2, <3>4, CvFacts
      <4> QED BY <1>2, <2>2, <3>2, <4>1, BusyToldStep
    <3> QED BY <3>3, <3>4
  <2>6. \A s \in Sessions : /\ waitq'[LockCv(s)] = waitq[LockCv(s)]
                            /\ waitq'[RefcCv(s)] = waitq[RefcCv(s)]
    BY <2>2, CvFacts
  <2> QED BY <1>2, <1>3, <1>6, <2>2, <2>4, <2>5, <2>6, SessUntouched
<1> QED BY <1>1, <1>8, <1>9 DEF set_busy_waits

LEMMA SetBusyWaits ==
  ASSUME WaitInv, TaInv', NEW t \in Threads, set_busy(t)
  PROVE  WaitInv'
<1>1. PICK f : f = Top(t)
  OBVIOUS
<1>2. /\ At(t, "busy") /\ f.pc = "busy" /\ f.c \in Ctxs /\ stack[t] # <<>> /\ ~crashed
      /\ TaInv /\ LockedInv(fr, sess) /\ QueueInv /\ NoForgottenWaiter /\ ~Waiting(t)
      /\ f \in FrameRec /\ ctx \in [Ctxs -> CtxRec] /\ UNCHANGED <<sess, waitq, crashed>>
  BY <1>1, TopFrame DEF FrameOK, set_busy, EnteredPcs
<1>3. ctx' = [ctx EXCEPT ![f.c].busy = TRUE]
      /\ IF Single(f.c) THEN siThread' = t ELSE siThread' = siThread
  BY <1>1 DEF set_busy
<1>4. PICK g : g = [f EXCEPT !.pc = IF f.op = "close" THEN "closing" ELSE "run"]
  OBVIOUS
<1>5. /\ Become(t, g) /\ g \in FrameRec /\ g.op = f.op /\ g.s = f.s /\ g.pc \in {"closing", "run"}
  BY <1>1, <1>2, <1>4 DEF set_busy, Goto, FrameRec, PCs
<1>6. Takes(t, f, g) /\ SameLock(f, g)
  BY <1>1, <1>2, <1>5, TakesLemma DEF SameLock, HasLock
<1>7. LockedInv(fr', sess')
  BY <1>2, <1>6, LockedStays
<1>8. \A d \in Ctxs : /\ ctx'[d].uuid = ctx[d].uuid
                      /\ IF d = f.c THEN ctx'[d].busy ELSE ctx'[d].busy = ctx[d].busy
  BY <1>2, <1>3 DEF CtxRec
<1>9. Moves(t)
  BY <1>2, <1>6, <1>8 DEF Moves, OnlyMoves, QueueMove, Takes, QueueInv
<1>10. SiTold'
  <2>1. CASE Single(f.c)
    <3>1. siThread' # NoThread
      BY <1>3, <2>1, NoneAssumption
    <3> QED BY <1>2, <1>9, <3>1, SiToldStep DEF NoForgottenWaiter
  <2>2. CASE ~Single(f.c)
    <3>1. siThread' = siThread /\ waitq'[SiCv] = waitq[SiCv] /\ ~(At(t, "busy") /\ Single(Top(t).c))
      BY <1>1, <1>2, <1>3, <2>2
    <3> QED BY <1>2, <1>9, <3>1, SiToldStep DEF NoForgottenWaiter
  <2> QED BY <2>1, <2>2
<1>11. ASSUME NEW d \in Ctxs PROVE BusyTold(d)'
  <2>1. BusyTold(d)
    BY <1>2 DEF NoForgottenWaiter
  <2>2. CASE d = f.c
    <3>1. ctx'[d].busy
      BY <1>8, <2>2
    <3> QED BY <1>2, <1>9, <2>1, <3>1, BusyToldStep
  <2>3. CASE d # f.c
    <3>1. /\ ctx'[d].busy = ctx[d].busy /\ waitq'[BusyCv(d)] = waitq[BusyCv(d)]
          /\ ~(At(t, "busy") /\ Top(t).c = d)
      BY <1>1, <1>2, <1>8, <2>3
    <3> QED BY <1>2, <1>9, <2>1, <3>1, BusyToldStep
  <2> QED BY <2>2, <2>3
<1>12. ~At(t, "getwait")
  BY <1>2 DEF At
<1> QED BY <1>2, <1>7, <1>9, <1>10, <1>11, <1>12, SessUntouched

LEMMA PoppedMoves ==
  ASSUME NEW t \in Threads, NEW cv \in Cvs, Popped(cv)
  PROVE  QueueMove(t, cv)
BY DEF Popped, QueueMove

LEMMA BusyFailsWaits ==
  ASSUME WaitInv, TaInv', NEW t \in Threads, set_busy_fails(t)
  PROVE  WaitInv'
<1>1. PICK f : f = Top(t)
  OBVIOUS
<1>2. /\ At(t, "busy") /\ f.pc = "busy" /\ f.c \in Ctxs /\ stack[t] # <<>> /\ ~crashed
      /\ TaInv /\ LockedInv(fr, sess) /\ QueueInv /\ NoForgottenWaiter /\ ~Waiting(t)
      /\ f \in FrameRec /\ UNCHANGED <<siThread, ctx, sess>>
  BY <1>1, TopFrame DEF FrameOK, set_busy_fails, EnteredPcs
<1>3. ctx[f.c].busy /\ waitq' = IF siThread = NoThread THEN Signal(waitq, SiCv) ELSE waitq
  BY <1>1 DEF set_busy_fails
<1>4. waitq \in [Cvs -> Seq(Threads)] /\ SiCv \in Cvs
  BY <1>2, CvFacts DEF QueueInv
<1>5. /\ waitq' = [dv \in Cvs |-> waitq'[dv]] /\ (\A dv \in Cvs \ {SiCv} : waitq'[dv] = waitq[dv])
      /\ siThread' # NoThread \/ Popped(SiCv)
      /\ waitq'[SiCv] = waitq[SiCv] \/ Popped(SiCv)
  <2>1. CASE siThread = NoThread
    <3>1. /\ waitq' \in [Cvs -> Seq(Threads)] /\ (\A dv \in Cvs \ {SiCv} : waitq'[dv] = waitq[dv])
          /\ waitq'[SiCv] = IF waitq[SiCv] = <<>> THEN <<>> ELSE Tail(waitq[SiCv])
      <4>1. waitq' = Signal(waitq, SiCv)
        BY <1>3, <2>1
      <4>2. PICK cv \in Cvs : cv = SiCv
        BY <1>4
      <4>3. waitq' = Signal(waitq, cv)
        BY <4>1, <4>2
      <4>4. /\ waitq' \in [Cvs -> Seq(Threads)] /\ (\A dv \in Cvs \ {cv} : waitq'[dv] = waitq[dv])
            /\ waitq'[cv] = IF waitq[cv] = <<>> THEN <<>> ELSE Tail(waitq[cv])
        BY <1>4, <4>3, SignalFacts
      <4> QED BY <4>2, <4>4
    <3>2. waitq' = [dv \in Cvs |-> waitq'[dv]]
      BY <3>1
    <3>3. Popped(SiCv)
      BY <3>1 DEF Popped
    <3> QED BY <3>1, <3>2, <3>3
  <2>2. CASE siThread # NoThread
    <3>1. waitq' = waitq /\ siThread' = siThread
      BY <1>2, <1>3, <2>2
    <3> QED BY <1>4, <2>2, <3>1
  <2> QED BY <2>1, <2>2
<1>6. \A cv \in Cvs : QueueMove(t, cv)
  BY <1>5, PoppedMoves DEF QueueMove
<1>7. CASE f.op = "open"
  <2>1. PICK g : g = [f EXCEPT !.pc = "opened", !.bad = TRUE]
    OBVIOUS
  <2>2. /\ Become(t, g) /\ g \in FrameRec /\ g.op = f.op /\ g.pc = "opened" /\ UNCHANGED crashed
    BY <1>1, <1>2, <1>7, <2>1 DEF set_busy_fails, FrameRec, PCs
  <2>3. Takes(t, f, g) /\ SameLock(f, g)
    BY <1>1, <1>2, <1>7, <2>2, TakesLemma DEF SameLock, HasLock
  <2>4. LockedInv(fr', sess')
    BY <1>2, <2>3, LockedStays
  <2>5. Moves(t)
    BY <1>2, <1>5, <1>6, <2>2, <2>3 DEF Moves, OnlyMoves, Takes
  <2>6. SiTold'
    BY <1>2, <1>5, <2>5, SiToldStep DEF NoForgottenWaiter
  <2>7. ASSUME NEW d \in Ctxs PROVE BusyTold(d)'
    <3>1. BusyTold(d)
      BY <1>2 DEF NoForgottenWaiter
    <3>2. CASE d = f.c
      <4>1. ctx'[d].busy
        BY <1>2, <1>3, <3>2
      <4> QED BY <1>2, <2>5, <3>1, <4>1, BusyToldStep
    <3>3. CASE d # f.c
      <4>1. /\ ctx'[d].busy = ctx[d].busy /\ waitq'[BusyCv(d)] = waitq[BusyCv(d)]
            /\ ~(At(t, "busy") /\ Top(t).c = d)
        BY <1>1, <1>2, <1>5, <3>3, CvFacts
      <4> QED BY <1>2, <2>5, <3>1, <4>1, BusyToldStep
    <3> QED BY <3>2, <3>3
  <2>8. ~At(t, "getwait")
    BY <1>2 DEF At
  <2>9. \A s \in Sessions : /\ waitq'[LockCv(s)] = waitq[LockCv(s)]
                            /\ waitq'[RefcCv(s)] = waitq[RefcCv(s)]
    BY <1>5, CvFacts
  <2> QED BY <1>2, <2>4, <2>5, <2>6, <2>7, <2>8, <2>9, SessUntouched
<1>8. CASE f.op # "open"
  <2>1. crashed' = TRUE /\ UNCHANGED stack
    BY <1>1, <1>8 DEF set_busy_fails
  <2>2. OnlyMoves(t)
    BY <1>2, <2>1 DEF OnlyMoves
  <2>3. QueueInv'
    BY <1>2, <1>5, <1>6, <2>2, QueueStep
  <2>4. LockedInv(fr', sess')
    BY <1>2, <2>1, FrStays
  <2> QED BY <2>1, <2>3, <2>4 DEF WaitInv, NoForgottenWaiter
<1> QED BY <1>7, <1>8

LEMMA ClearBusyWaits ==
  ASSUME WaitInv, TaInv', NEW t \in Threads, clear_busy(t)
  PROVE  WaitInv'
<1>1. PICK f : f = Top(t)
  OBVIOUS
<1>2. /\ At(t, "clear") /\ f.pc = "clear" /\ f.c \in Ctxs /\ stack[t] # <<>> /\ ~crashed
      /\ TaInv /\ LockedInv(fr, sess) /\ QueueInv /\ NoForgottenWaiter /\ ~Waiting(t)
      /\ f \in FrameRec /\ FrameOK(f) /\ ctx \in [Ctxs -> CtxRec] /\ UNCHANGED <<sess, crashed>>
  BY <1>1, TopFrame DEF FrameOK, clear_busy, EnteredPcs
<1>3. PICK q : q = Signal(waitq, BusyCv(f.c))
  OBVIOUS
<1>4. /\ ctx' = [ctx EXCEPT ![f.c].busy = FALSE]
      /\ IF Single(f.c)
         THEN /\ siThread' = IF siCount = 1 THEN NoThread ELSE siThread
              /\ waitq' = IF siCount = 1 THEN Signal(q, SiCv) ELSE q
         ELSE waitq' = q /\ siThread' = siThread
  BY <1>1, <1>3 DEF clear_busy
<1>5. /\ waitq \in [Cvs -> Seq(Threads)] /\ SiCv \in Cvs /\ BusyCv(f.c) \in Cvs
      /\ BusyCv(f.c) # SiCv
  BY <1>2, CvFacts DEF QueueInv
<1>6. /\ q \in [Cvs -> Seq(Threads)] /\ (\A dv \in Cvs \ {BusyCv(f.c)} : q[dv] = waitq[dv])
      /\ q[BusyCv(f.c)] = IF waitq[BusyCv(f.c)] = <<>> THEN <<>> ELSE Tail(waitq[BusyCv(f.c)])
  BY <1>3, <1>5, SignalFacts
<1>7. /\ waitq' = [dv \in Cvs |-> waitq'[dv]]
      /\ \A dv \in Cvs \ {SiCv, BusyCv(f.c)} : waitq'[dv] = waitq[dv]
      /\ Popped(BusyCv(f.c))
      /\ Popped(SiCv) \/ (waitq'[SiCv] = waitq[SiCv] /\ siThread' = siThread)
  <2>1. CASE waitq' = Signal(q, SiCv)
    <3>1. /\ waitq' \in [Cvs -> Seq(Threads)] /\ (\A dv \in Cvs \ {SiCv} : waitq'[dv] = q[dv])
          /\ waitq'[SiCv] = IF q[SiCv] = <<>> THEN <<>> ELSE Tail(q[SiCv])
      BY <1>5, <1>6, <2>1, SignalFacts
    <3> QED BY <1>5, <1>6, <3>1 DEF Popped
  <2>2. CASE waitq' = q /\ siThread' = siThread
    BY <1>5, <1>6, <2>2 DEF Popped
  <2> QED BY <1>4, <2>1, <2>2
<1>8. \A cv \in Cvs : QueueMove(t, cv)
  BY <1>7, PoppedMoves DEF QueueMove
<1>9. PICK g : g = [f EXCEPT !.pc = CASE f.op = "open" -> "opened" [] f.op = "invoke" -> "put"
                                      [] f.op = "close" -> "deref"]
  OBVIOUS
<1>10. Become(t, g)
  BY <1>1, <1>9 DEF clear_busy, Goto
<1>11. f.op \in {"open", "invoke", "close"}
  BY <1>2 DEF FrameOK, FrameRec, Ops, CancelPcs
<1>12. /\ g \in FrameRec /\ g.op = f.op /\ g.s = f.s
       /\ f.op = "open" => g.pc = "opened"
       /\ f.op = "invoke" => g.pc = "put"
       /\ f.op = "close" => g.pc = "deref"
  BY <1>2, <1>9, <1>11 DEF FrameRec, PCs
<1>13. SameLock(f, g)
  BY <1>2, <1>11, <1>12 DEF SameLock, HasLock
<1>14. Takes(t, f, g)
  BY <1>1, <1>2, <1>10, <1>12, TakesLemma
<1>15. LockedInv(fr', sess')
  BY <1>2, <1>13, <1>14, LockedStays
<1>16. \A d \in Ctxs : /\ ctx'[d].uuid = ctx[d].uuid
                       /\ d # f.c => ctx'[d].busy = ctx[d].busy
  BY <1>2, <1>4 DEF CtxRec
<1>17. Moves(t)
  BY <1>2, <1>7, <1>8, <1>14, <1>16 DEF Moves, OnlyMoves, Takes
<1>18. ~At(t, "getwait") /\ ~At(t, "busy")
  BY <1>2 DEF At
<1>19. SiTold'
  BY <1>2, <1>7, <1>17, <1>18, SiToldStep DEF NoForgottenWaiter
<1>20. ASSUME NEW d \in Ctxs PROVE BusyTold(d)'
  <2>1. BusyTold(d)
    BY <1>2 DEF NoForgottenWaiter
  <2>2. CASE d = f.c
    <3>1. Popped(BusyCv(d))
      BY <1>7, <2>2
    <3> QED BY <1>2, <1>17, <2>1, <3>1, BusyToldStep
  <2>3. CASE d # f.c
    <3>1. ctx'[d].busy = ctx[d].busy /\ waitq'[BusyCv(d)] = waitq[BusyCv(d)]
      BY <1>7, <1>16, <2>3, CvFacts
    <3> QED BY <1>2, <1>17, <1>18, <2>1, <3>1, BusyToldStep
  <2> QED BY <2>2, <2>3
<1>21. \A s \in Sessions : /\ waitq'[LockCv(s)] = waitq[LockCv(s)]
                           /\ waitq'[RefcCv(s)] = waitq[RefcCv(s)]
  BY <1>7, CvFacts
<1> QED BY <1>2, <1>15, <1>17, <1>18, <1>19, <1>20, <1>21, SessUntouched

-----------------------------------------------------------------------------
(* Steps on the reference count and the lock of session s.                 *)
QueuesOf(s) == \A cv \in Cvs \ {LockCv(s), RefcCv(s)} : waitq'[cv] = waitq[cv]
SessOnly(s) == \A r \in Sessions \ {s} : sess'[r] = sess[r]

LEMMA SessTouched ==
  ASSUME WaitInv, TaInv', NEW t \in Threads, Moves(t), UNCHANGED <<siThread, ctx>>,
         ~crashed, ~At(t, "busy"), NEW s \in Sessions, Top(t).s = s, SessOnly(s), QueuesOf(s),
         LockedInv(fr', sess'), LockTold(s)', RefcTold(s)'
  PROVE  WaitInv'
<1>1. TaInv /\ QueueInv /\ NoForgottenWaiter
  BY DEF WaitInv
<1>2. QueueInv'
  BY <1>1, QueueStep DEF Moves
<1>3. SiTold'
  <2>1. waitq'[SiCv] = waitq[SiCv]
    BY CvFacts DEF QueuesOf
  <2> QED BY <1>1, <2>1, SiToldStep DEF NoForgottenWaiter
<1>4. ASSUME NEW c \in Ctxs PROVE BusyTold(c)'
  <2>1. waitq'[BusyCv(c)] = waitq[BusyCv(c)] /\ ctx'[c].busy = ctx[c].busy
    BY CvFacts DEF QueuesOf
  <2>2. BusyTold(c)
    BY <1>1 DEF NoForgottenWaiter
  <2> QED BY <1>1, <2>1, <2>2, BusyToldStep
<1>5. ASSUME NEW r \in Sessions \ {s} PROVE LockTold(r)' /\ RefcTold(r)'
  <2>1. LockTold(r) /\ RefcTold(r)
    BY <1>1 DEF NoForgottenWaiter
  <2>2. waitq'[LockCv(r)] = waitq[LockCv(r)] /\ waitq'[RefcCv(r)] = waitq[RefcCv(r)]
    <3>1. LockCv(r) \in Cvs \ {LockCv(s), RefcCv(s)} /\ RefcCv(r) \in Cvs \ {LockCv(s), RefcCv(s)}
      BY CvFacts
    <3> QED BY <3>1 DEF QueuesOf
  <2>3. sess'[r] = sess[r] /\ ~(At(t, "getwait") /\ Top(t).s = r)
    BY DEF SessOnly
  <2>4. LockTold(r)'
    BY <1>1, <2>1, <2>2, <2>3, LockToldStep
  <2>5. RefcTold(r)'
    BY <2>1, <2>2, <2>3 DEF RefcTold, RefcCv
  <2> QED BY <2>4, <2>5
<1> QED BY <1>2, <1>3, <1>4, <1>5 DEF WaitInv, NoForgottenWaiter

LEMMA TopAfter ==
  ASSUME TaInv, NEW t \in Threads, stack[t] # <<>>, NEW g \in FrameRec, Become(t, g)
  PROVE  stack'[t] # <<>> /\ Top(t)' = g
<1>1. stack[t] \in Seq(FrameRec) /\ stack \in Stacks
  BY DEF TaInv, Stacks
<1>2. PICK n \in Nat \ {0} : n = Len(stack[t])
  BY <1>1, SlotFacts
<1>3. PICK q \in Seq(FrameRec) : q = SubSeq(stack[t], 1, n - 1)
  <2>1. PICK p \in Seq(FrameRec) : p = stack[t]
    BY <1>1
  <2>2. SubSeq(p, 1, n - 1) \in Seq(FrameRec)
    BY <1>2, <2>1
  <2> QED BY <2>1, <2>2
<1>4. stack'[t] = Append(q, g)
  BY <1>1, <1>2, <1>3 DEF Become, Front, Stacks
<1>5. Append(q, g) # <<>> /\ Last(Append(q, g)) = g
  BY DEF Last
<1> QED BY <1>4, <1>5 DEF Top

(* Only the thread that has the lock of a session has a call with it, and  *)
(* one call only.                                                          *)
LEMMA OneLock ==
  ASSUME TaInv, LockedInv(fr, sess), NEW x \in Slots, HasRef(fr[x]), sess[fr[x].s].lock = x[1]
  PROVE  \A y \in Slots \ {x} : HasLock(fr[y]) => fr[y].s # fr[x].s
<1> SUFFICES ASSUME NEW y \in Slots, HasLock(fr[y]), fr[y].s = fr[x].s PROVE y = x
  OBVIOUS
<1>1. sess[fr[y].s].lock = y[1]
  BY DEF LockedInv
<1>2. y[1] = x[1]
  BY <1>1
<1>3. HasRef(fr[y]) /\ fr[x] # Gone
  BY LockHasRef DEF HasRef, Gone
<1>4. sess[fr[x].s].list = fr[x].list
  BY DEF TaInv, AllInv, SessInv, SessLinks
<1> QED BY <1>2, <1>3, <1>4, RefsDiffer

(* The queues after dec_session_ref_count.                                 *)
LEMMA DecQueues ==
  ASSUME NEW q \in [Cvs -> Seq(Threads)], NEW s \in Sessions, NEW p, p = AfterDec(q, s)
  PROVE  /\ p \in [Cvs -> Seq(Threads)]
         /\ sess[s].ref # 2 => p[RefcCv(s)] = q[RefcCv(s)]
         /\ sess[s].ref = 2 => p[RefcCv(s)] = IF q[RefcCv(s)] = <<>> THEN <<>>
                                              ELSE Tail(q[RefcCv(s)])
         /\ \A dv \in Cvs \ {RefcCv(s)} : p[dv] = q[dv]
<1>1. PICK cv \in Cvs : cv = RefcCv(s)
  BY CvFacts
<1>2. CASE sess[s].ref = 2
  <2>1. p = Signal(q, cv)
    BY <1>1, <1>2 DEF AfterDec
  <2>2. /\ p \in [Cvs -> Seq(Threads)]
        /\ p[cv] = IF q[cv] = <<>> THEN <<>> ELSE Tail(q[cv])
        /\ \A dv \in Cvs \ {cv} : p[dv] = q[dv]
    BY <2>1, SignalFacts
  <2> QED BY <1>1, <1>2, <2>2
<1>3. CASE sess[s].ref # 2
  BY <1>3 DEF AfterDec
<1> QED BY <1>2, <1>3

(* Who waits for the last reference is told when there is one left.        *)
LEMMA DecTold ==
  ASSUME TaInv, QueueInv, NEW s \in Sessions, RefcTold(s), sess[s].ref \in Nat,
         sess'[s].ref = sess[s].ref - 1,
         sess[s].ref = 2 => Popped(RefcCv(s)),
         sess[s].ref # 2 => waitq'[RefcCv(s)] = waitq[RefcCv(s)]
  PROVE  RefcTold(s)'
<1>1. RefcCv(s)' = RefcCv(s)
  BY DEF RefcCv
<1>2. CASE sess[s].ref = 2
  <2>1. waitq'[RefcCv(s)] = <<>>
    BY <1>2, RefcAlone
  <2> QED BY <1>1, <2>1 DEF RefcTold
<1>3. CASE sess[s].ref # 2
  <2>1. sess'[s].ref # 1
    BY <1>3
  <2> QED BY <1>1, <2>1 DEF RefcTold
<1> QED BY <1>2, <1>3

LEMMA PutWaits ==
  ASSUME WaitInv, TaInv', NEW t \in Threads, put_session(t)
  PROVE  WaitInv'
<1>1. PICK f : f = Top(t)
  OBVIOUS
<1>2. PICK s : s = f.s
  OBVIOUS
<1>3. /\ At(t, "put") /\ f.pc = "put" /\ s \in Sessions /\ stack[t] # <<>> /\ ~crashed
      /\ TaInv /\ LockedInv(fr, sess) /\ QueueInv /\ NoForgottenWaiter /\ ~Waiting(t)
      /\ f \in FrameRec /\ FrameOK(f) /\ sess \in [Sessions -> SessRec]
      /\ UNCHANGED <<siThread, ctx, crashed>>
  BY <1>1, <1>2, TopFrame DEF FrameOK, put_session
<1>4. PICK n \in Nat \ {0} : n = Len(stack[t]) /\ <<t, n>> \in Slots /\ fr[<<t, n>>] = f
  BY <1>1, <1>3, TopFacts
<1>5. PICK x \in Slots : x = <<t, n>>
  BY <1>4
<1>6. fr[x] = f /\ x[1] = t /\ HasRef(f) /\ sess[s].ref \in Nat \ {0}
  <2>1. fr[x] = f /\ x[1] = t /\ HasRef(f)
    BY <1>3, <1>4, <1>5 DEF HasRef
  <2>2. SessInv(fr, sess, known)
    BY <1>3 DEF TaInv, AllInv
  <2> QED BY <1>2, <1>3, <2>1, <2>2, RefPositive
<1> DEFINE mine == sess[s].lock = t
<1>7. /\ sess' = DecRef([sess EXCEPT ![s].lock = IF mine THEN NoThread ELSE sess[s].lock], s)
      /\ waitq' = AfterDec(IF mine THEN Signal(waitq, LockCv(s)) ELSE waitq, s)
  BY <1>1, <1>2 DEF put_session
<1>8. /\ sess'[s].ref = sess[s].ref - 1 /\ sess'[s].unlink = sess[s].unlink
      /\ sess'[s].lock = IF mine THEN NoThread ELSE sess[s].lock
      /\ SessOnly(s)
  BY <1>3, <1>7 DEF DecRef, SessRec, SessOnly
<1>9. PICK q \in [Cvs -> Seq(Threads)] :
        /\ waitq' = AfterDec(q, s) /\ (\A dv \in Cvs \ {LockCv(s)} : q[dv] = waitq[dv])
        /\ mine => q[LockCv(s)] = IF waitq[LockCv(s)] = <<>> THEN <<>> ELSE Tail(waitq[LockCv(s)])
        /\ ~mine => q[LockCv(s)] = waitq[LockCv(s)]
  <2>1. waitq \in [Cvs -> Seq(Threads)]
    BY <1>3 DEF QueueInv
  <2>2. CASE ~mine
    BY <1>7, <2>1, <2>2
  <2>3. CASE mine
    <3>1. PICK cv \in Cvs : cv = LockCv(s)
      BY <1>3, CvFacts
    <3>2. PICK q : q = Signal(waitq, cv)
      OBVIOUS
    <3>3. /\ q \in [Cvs -> Seq(Threads)]
          /\ q[cv] = IF waitq[cv] = <<>> THEN <<>> ELSE Tail(waitq[cv])
          /\ \A dv \in Cvs \ {cv} : q[dv] = waitq[dv]
      BY <2>1, <3>2, SignalFacts
    <3>4. waitq' = AfterDec(q, s)
      BY <1>7, <2>3, <3>1, <3>2
    <3> QED BY <2>3, <3>1, <3>3, <3>4
  <2> QED BY <2>2, <2>3
<1>10. /\ waitq' \in [Cvs -> Seq(Threads)] /\ QueuesOf(s)
       /\ mine => Popped(LockCv(s))
       /\ ~mine => waitq'[LockCv(s)] = waitq[LockCv(s)]
       /\ sess[s].ref = 2 => Popped(RefcCv(s))
       /\ sess[s].ref # 2 => waitq'[RefcCv(s)] = waitq[RefcCv(s)]
  <2>1. /\ waitq' \in [Cvs -> Seq(Threads)]
        /\ sess[s].ref # 2 => waitq'[RefcCv(s)] = q[RefcCv(s)]
        /\ sess[s].ref = 2 => waitq'[RefcCv(s)] = IF q[RefcCv(s)] = <<>> THEN <<>>
                                                  ELSE Tail(q[RefcCv(s)])
        /\ \A dv \in Cvs \ {RefcCv(s)} : waitq'[dv] = q[dv]
    BY <1>3, <1>9, DecQueues
  <2>2. LockCv(s) \in Cvs \ {RefcCv(s)} /\ RefcCv(s) \in Cvs \ {LockCv(s)}
    BY <1>3, CvFacts
  <2>3. q[RefcCv(s)] = waitq[RefcCv(s)] /\ waitq'[LockCv(s)] = q[LockCv(s)]
    BY <1>9, <2>1, <2>2
  <2> HIDE DEF mine
  <2>4. QueuesOf(s)
    BY <1>9, <2>1 DEF QueuesOf
  <2>5. mine => Popped(LockCv(s))
    BY <1>9, <2>3 DEF Popped
  <2>6. sess[s].ref = 2 => Popped(RefcCv(s))
    BY <2>1, <2>3 DEF Popped
  <2> QED BY <1>9, <2>1, <2>3, <2>4, <2>5, <2>6
<1>11. PICK g : /\ TopBecomes(t, g)
                /\ g = CloseKern(s, f.list) \/ g = Gone
  <2>1. f.list \in Ctxs \cup {Nsec}
    BY <1>3 DEF FrameRec
  <2>2. CloseKern(s, f.list) \in FrameRec
    BY <1>3, <2>1, CloseKernFacts
  <2> QED BY <1>1, <1>2, <2>2 DEF put_session, TopBecomes
<1>12. ~HasLock(g) /\ g.pc = "get"
  BY <1>11, GoneHasNoLock DEF CloseKern, Frame, HasLock
<1>13. Takes(t, f, g) /\ Changes(fr, x, g, fr')
  <2>1. Shifts(t, Len(stack[t]), g)
    BY <1>3, <1>11, BecomeLemma, ReturnLemma DEF TopBecomes, TaInv, Stacks
  <2>2. Takes(t, f, g)
    BY <1>1, <1>3, <1>11, TakesLemma DEF TopBecomes
  <2> QED BY <1>4, <1>5, <2>1, <2>2 DEF Shifts
<1>14. LockedInv(fr', sess')
  <2>1. ASSUME NEW y \in Slots, HasLock(fr[y]) \/ fr[y].pc = "unlinkwait" PROVE fr[y].s \in Sessions
    <3>1. fr[y] # Gone
      BY <2>1 DEF HasLock, Gone
    <3>2. StackInv(fr)
      BY <1>3 DEF TaInv, AllInv
    <3> QED BY <2>1, <3>1, <3>2 DEF StackInv, GoodFrame, FrameOK, HasLock
  <2>2. mine => \A y \in Slots \ {x} : HasLock(fr[y]) => fr[y].s # s
    BY <1>2, <1>3, <1>6, OneLock
  <2>3. ~mine => ~HasLock(f)
    BY <1>2, <1>6, <1>3 DEF LockedInv
  <2>4. ASSUME NEW r \in Sessions
        PROVE  \/ /\ sess'[r].lock = sess[r].lock
                  /\ HasLock(fr[x]) /\ fr[x].s = r => HasLock(g) /\ g.s = r
               \/ /\ sess'[r].lock = NoThread
                  /\ \A y \in Slots \ {x} : HasLock(fr[y]) => fr[y].s # r
               \/ sess'[r].lock = x[1] /\ HasLock(g) /\ g.s = r /\ sess[r].lock = NoThread
    <3>1. CASE r # s
      BY <1>2, <1>6, <1>8, <3>1 DEF SessOnly
    <3>2. CASE r = s /\ mine
      BY <1>8, <2>2, <3>2
    <3>3. CASE r = s /\ ~mine
      BY <1>6, <1>8, <2>3, <3>3
    <3> QED BY <3>1, <3>2, <3>3
  <2>5. \A y \in Slots \ {x} : fr[y].pc = "unlinkwait" => sess'[fr[y].s].unlink
    BY <1>3, <1>8, <2>1 DEF LockedInv, SessOnly
  <2>6. HasLock(g) => sess'[g.s].lock = x[1]
    BY <1>12
  <2>7. g.pc = "unlinkwait" => sess'[g.s].unlink
    BY <1>12
  <2>8. \A y \in Slots : HasLock(fr[y]) => fr[y].s \in Sessions
    BY <2>1
  <2> QED BY <1>3, <1>13, <2>4, <2>5, <2>6, <2>7, <2>8, LockedStep
<1>15. Moves(t)
  <2>1. OnlyMoves(t)
    BY <1>3, <1>13 DEF OnlyMoves, Takes
  <2>2. \A cv \in Cvs : QueueMove(t, cv)
    BY <1>10, PoppedMoves DEF QueueMove, QueuesOf
  <2>3. waitq' = [cv \in Cvs |-> waitq'[cv]] /\ ~crashed'
    BY <1>3, <1>10
  <2> QED BY <2>1, <2>2, <2>3 DEF Moves
<1>16. ~At(t, "busy") /\ ~At(t, "getwait")
  BY <1>3 DEF At
<1>17. LockTold(s) /\ RefcTold(s)
  BY <1>3 DEF NoForgottenWaiter
<1>18. LockTold(s)'
  <2>1. sess'[s].unlink = sess[s].unlink /\ (Popped(LockCv(s)) \/ waitq'[LockCv(s)] = waitq[LockCv(s)])
    BY <1>8, <1>10
  <2>2. \/ Popped(LockCv(s))
        \/ /\ sess'[s].lock = sess[s].lock /\ waitq'[LockCv(s)] = waitq[LockCv(s)]
           /\ ~(At(t, "getwait") /\ Top(t).s = s)
    BY <1>8, <1>10, <1>16
  <2> QED BY <1>3, <1>15, <1>17, <2>1, <2>2, LockToldStep
<1>19. RefcTold(s)'
  BY <1>3, <1>6, <1>8, <1>10, <1>17, DecTold
<1> QED BY <1>1, <1>2, <1>3, <1>8, <1>10, <1>14, <1>15, <1>16, <1>18, <1>19, SessTouched

(* The call on top of thread t, with its session.                          *)
OnTop(t, x, f, s) ==
  /\ x \in Slots /\ x = <<t, Len(stack[t])>> /\ x[1] = t /\ fr[x] = f /\ f = Top(t) /\ f.s = s
  /\ s \in Sessions /\ f \in FrameRec /\ FrameOK(f)

LEMMA OnTopFacts ==
  ASSUME WaitInv, NEW t \in Threads, NEW pc, At(t, pc), pc # "init"
  PROVE  \E x \in Slots : OnTop(t, x, Top(t), Top(t).s)
<1>1. /\ Top(t).pc = pc /\ Top(t) \in FrameRec /\ FrameOK(Top(t)) /\ stack[t] # <<>> /\ TaInv
  BY TopFrame
<1>2. <<t, Len(stack[t])>> \in Slots /\ fr[<<t, Len(stack[t])>>] = Top(t)
  BY <1>1, TopFacts
<1>3. PICK x \in Slots : x = <<t, Len(stack[t])>>
  BY <1>2
<1>4. x[1] = t /\ fr[x] = Top(t) /\ Top(t).s \in Sessions
  BY <1>1, <1>2, <1>3 DEF FrameOK
<1> QED BY <1>1, <1>3, <1>4 DEF OnTop

LEMMA TopChanges ==
  ASSUME TaInv, NEW t \in Threads, stack[t] # <<>>, NEW x, NEW f, NEW s, OnTop(t, x, f, s), NEW g,
         TopBecomes(t, g)
  PROVE  Takes(t, f, g) /\ Changes(fr, x, g, fr')
<1>1. stack \in Stacks
  BY DEF TaInv, Stacks
<1>2. Shifts(t, Len(stack[t]), g)
  BY <1>1, BecomeLemma, ReturnLemma DEF TopBecomes
<1>3. Takes(t, f, g)
  BY TakesLemma DEF TopBecomes, OnTop
<1> QED BY <1>2, <1>3 DEF Shifts, OnTop

LEMMA LockedSess ==
  ASSUME TaInv
  PROVE  \A y \in Slots : HasLock(fr[y]) \/ fr[y].pc = "unlinkwait" => fr[y].s \in Sessions
<1>1. StackInv(fr)
  BY DEF TaInv, AllInv
<1> SUFFICES ASSUME NEW y \in Slots, HasLock(fr[y]) \/ fr[y].pc = "unlinkwait"
             PROVE  fr[y].s \in Sessions
  OBVIOUS
<1>2. fr[y] # Gone
  BY DEF HasLock, Gone
<1> QED BY <1>1, <1>2 DEF StackInv, GoodFrame, FrameOK, HasLock

(* The lock of session s is taken by the call on top.                      *)
LEMMA LockTaken ==
  ASSUME TaInv, LockedInv(fr, sess), NEW t \in Threads, stack[t] # <<>>, NEW x, NEW f, NEW s,
         OnTop(t, x, f, s), f.pc \in {"get", "getwait"}, NEW g, Become(t, g), g \in FrameRec,
         g.s = s, g.pc = "check", g.op \in {"invoke", "close"}, sess[s].lock = NoThread,
         sess'[s].lock = t, sess'[s].unlink = sess[s].unlink, SessOnly(s)
  PROVE  LockedInv(fr', sess')
<1>1. TopBecomes(t, g)
  BY DEF TopBecomes
<1>2. Changes(fr, x, g, fr')
  BY <1>1, TopChanges
<1>3. HasLock(g) /\ ~HasLock(f)
  BY DEF HasLock
<1>4. x \in Slots /\ x[1] = t /\ fr[x] = f /\ s \in Sessions
  BY DEF OnTop
<1>5. \A r \in Sessions :
        \/ /\ sess'[r].lock = sess[r].lock
           /\ HasLock(fr[x]) /\ fr[x].s = r => HasLock(g) /\ g.s = r
        \/ sess'[r].lock = x[1] /\ HasLock(g) /\ g.s = r /\ sess[r].lock = NoThread
  BY <1>3, <1>4 DEF SessOnly
<1>6. \A y \in Slots \ {x} : fr[y].pc = "unlinkwait" => sess'[fr[y].s].unlink
  BY LockedSess DEF LockedInv, SessOnly
<1>7. HasLock(g) => sess'[g.s].lock = x[1]
  BY <1>4
<1>8. \A y \in Slots : HasLock(fr[y]) => fr[y].s \in Sessions
  BY LockedSess
<1> QED BY <1>2, <1>4, <1>5, <1>6, <1>7, <1>8, LockedStep

LEMMA NoRefcWaiter ==
  ASSUME TaInv, LockedInv(fr, sess), QueueInv, NEW s \in Sessions, ~sess[s].unlink
  PROVE  waitq[RefcCv(s)] = <<>>
<1>1. ASSUME waitq[RefcCv(s)] # <<>> PROVE FALSE
  <2>1. PICK x \in Slots : fr[x].pc = "unlinkwait" /\ fr[x].s = s
    BY <1>1, RefcAlone
  <2> QED BY <2>1 DEF LockedInv
<1> QED BY <1>1

LEMMA WaitFacts ==
  ASSUME NEW t \in Threads, QueueInv, NEW cv \in Cvs, Wait(t, cv)
  PROVE  /\ waitq' = [dv \in Cvs |-> waitq'[dv]] /\ waitq'[cv] = Append(waitq[cv], t)
         /\ \A dv \in Cvs \ {cv} : waitq'[dv] = waitq[dv]
<1>1. waitq \in [Cvs -> Seq(Threads)]
  BY DEF QueueInv
<1> QED BY <1>1 DEF Wait

LEMMA GetWaits ==
  ASSUME WaitInv, TaInv', NEW t \in Threads, get_session(t)
  PROVE  WaitInv'
<1>1. At(t, "get") /\ UNCHANGED <<siThread, ctx, crashed>>
  BY DEF get_session
<1>2. PICK x, f, s : OnTop(t, x, f, s)
  BY <1>1, OnTopFacts
<1>3. /\ f.pc = "get" /\ stack[t] # <<>> /\ ~crashed /\ s \in Sessions /\ f = Top(t) /\ f.s = s
      /\ TaInv /\ LockedInv(fr, sess) /\ QueueInv /\ NoForgottenWaiter /\ ~Waiting(t)
      /\ f \in FrameRec /\ FrameOK(f) /\ sess \in [Sessions -> SessRec]
  BY <1>1, <1>2, TopFrame DEF OnTop
<1>4. f.op \in {"invoke", "close", "cancel"} /\ ~sess[s].unlink
  BY <1>3 DEF FrameOK, FrameRec, Ops, OpenPcs, get_session
<1>5. sess' = [sess EXCEPT ![s].ref = sess[s].ref + 1,
                 ![s].lock = IF f.op # "cancel" /\ sess[s].lock = NoThread THEN t ELSE sess[s].lock]
  BY <1>3 DEF get_session
<1>6. /\ sess'[s].unlink = sess[s].unlink /\ SessOnly(s)
      /\ sess'[s].lock = IF f.op # "cancel" /\ sess[s].lock = NoThread THEN t ELSE sess[s].lock
  BY <1>3, <1>5 DEF SessRec, SessOnly
<1>7. waitq[RefcCv(s)] = <<>>
  BY <1>3, <1>4, NoRefcWaiter
<1>8. LockTold(s) /\ ~At(t, "busy") /\ ~At(t, "getwait") /\ Top(t).s = s
  BY <1>1, <1>3 DEF NoForgottenWaiter, At
<1>9. \A r \in Sessions : sess'[r].unlink = sess[r].unlink
  BY <1>6 DEF SessOnly
<1>10. CASE f.op # "cancel" /\ sess[s].lock # NoThread
  <2>1. PICK g : g = [f EXCEPT !.pc = "getwait"]
    OBVIOUS
  <2>2. Become(t, g) /\ Wait(t, LockCv(s))
    BY <1>3, <1>10, <2>1 DEF get_session, Goto
  <2>3. g \in FrameRec /\ g.pc = "getwait" /\ g.s = s
    BY <1>3, <2>1 DEF FrameRec, PCs
  <2>4. Takes(t, f, g) /\ SameLock(f, g)
    BY <1>3, <2>2, <2>3, TakesLemma DEF SameLock, HasLock
  <2>5. \A r \in Sessions : sess'[r].lock = sess[r].lock
    BY <1>6, <1>10 DEF SessOnly
  <2>6. LockedInv(fr', sess')
    BY <1>3, <1>9, <2>4, <2>5, LockedStays
  <2>7. stack'[t] # <<>> /\ Top(t)' = g
    BY <1>3, <2>2, <2>3, TopAfter
  <2>8. WaitsFor(t, LockCv(s))'
    BY <2>3, <2>7 DEF WaitsFor, LockCv
  <2>9. LockCv(s) \in Cvs /\ RefcCv(s) \in Cvs \ {LockCv(s)}
    BY <1>3, CvFacts
  <2>10. /\ waitq' = [dv \in Cvs |-> waitq'[dv]] /\ waitq'[LockCv(s)] = Append(waitq[LockCv(s)], t)
         /\ \A dv \in Cvs \ {LockCv(s)} : waitq'[dv] = waitq[dv]
    BY <1>3, <2>2, <2>9, WaitFacts
  <2>11. Moves(t) /\ QueuesOf(s)
    BY <1>1, <1>3, <2>4, <2>8, <2>10 DEF Moves, OnlyMoves, QueueMove, Takes, QueuesOf
  <2>12. sess'[s].lock # NoThread /\ ~sess'[s].unlink
    BY <1>4, <1>6, <1>10
  <2>13. LockTold(s)'
    BY <1>3, <1>8, <2>11, <2>12, LockToldStep
  <2>14. RefcTold(s)'
    BY <1>7, <2>9, <2>10 DEF RefcTold, RefcCv
  <2> QED BY <1>1, <1>3, <1>6, <1>8, <2>6, <2>11, <2>13, <2>14, SessTouched
<1>11. CASE f.op = "cancel" \/ sess[s].lock = NoThread
  <2>1. PICK g : g = [f EXCEPT !.pc = "check"]
    OBVIOUS
  <2>2. Become(t, g) /\ waitq' = waitq
    BY <1>3, <1>11, <2>1 DEF get_session, Goto
  <2>3. g \in FrameRec /\ g.pc = "check" /\ g.s = s /\ g.op = f.op
    BY <1>3, <2>1 DEF FrameRec, PCs
  <2>4. Takes(t, f, g)
    BY <1>3, <2>2, <2>3, TakesLemma
  <2>5. LockedInv(fr', sess')
    <3>1. CASE f.op = "cancel"
      <4>1. \A r \in Sessions : sess'[r].lock = sess[r].lock
        BY <1>6, <3>1 DEF SessOnly
      <4>2. SameLock(f, g)
        BY <1>3, <2>3, <3>1 DEF SameLock, HasLock
      <4> QED BY <1>3, <1>9, <2>4, <4>1, <4>2, LockedStays
    <3>2. CASE f.op # "cancel"
      <4>1. /\ sess[s].lock = NoThread /\ sess'[s].lock = t /\ g.op \in {"invoke", "close"}
            /\ f.pc \in {"get", "getwait"}
        BY <1>3, <1>4, <1>6, <1>11, <2>3, <3>2
      <4> QED BY <1>2, <1>3, <1>6, <2>2, <2>3, <4>1, LockTaken
    <3> QED BY <3>1, <3>2
  <2>6. Moves(t) /\ QueuesOf(s)
    BY <1>1, <1>3, <2>2, <2>4 DEF Moves, OnlyMoves, QueueMove, Takes, QueuesOf, QueueInv
  <2>7. \/ sess'[s].lock # NoThread
        \/ /\ sess'[s].lock = sess[s].lock /\ waitq'[LockCv(s)] = waitq[LockCv(s)]
           /\ ~(At(t, "getwait") /\ Top(t).s = s)
    BY <1>6, <1>8, <2>2
  <2>8. ~sess'[s].unlink
    BY <1>4, <1>6
  <2>9. LockTold(s)'
    BY <1>3, <1>8, <2>6, <2>7, <2>8, LockToldStep
  <2>10. RefcTold(s)'
    BY <1>7, <2>2 DEF RefcTold, RefcCv
  <2> QED BY <1>1, <1>3, <1>6, <1>8, <2>5, <2>6, <2>9, <2>10, SessTouched
<1> QED BY <1>10, <1>11

LEMMA WakesWaits ==
  ASSUME WaitInv, TaInv', NEW t \in Threads, get_session_wakes(t)
  PROVE  WaitInv'
<1>1. At(t, "getwait") /\ UNCHANGED <<siThread, ctx, crashed>>
  BY DEF get_session_wakes
<1>2. PICK x, f, s : OnTop(t, x, f, s)
  BY <1>1, OnTopFacts
<1>3. /\ f.pc = "getwait" /\ stack[t] # <<>> /\ ~crashed /\ s \in Sessions /\ f = Top(t) /\ f.s = s
      /\ TaInv /\ LockedInv(fr, sess) /\ QueueInv /\ NoForgottenWaiter /\ ~Waiting(t)
      /\ f \in FrameRec /\ FrameOK(f) /\ sess \in [Sessions -> SessRec]
  BY <1>1, <1>2, TopFrame DEF OnTop
<1>4. LockTold(s) /\ RefcTold(s) /\ ~At(t, "busy") /\ Top(t).s = s
  BY <1>1, <1>3 DEF NoForgottenWaiter, At
<1>5. LockCv(s) \in Cvs /\ RefcCv(s) \in Cvs \ {LockCv(s)} /\ LockCv(s) # RefcCv(s)
  BY <1>3, CvFacts
<1>6. CASE sess[s].lock # NoThread /\ ~sess[s].unlink /\ Wait(t, LockCv(s)) /\ UNCHANGED <<sess, stack>>
  <2>1. LockedInv(fr', sess')
    BY <1>3, <1>6, FrStays
  <2>2. WaitsFor(t, LockCv(s))'
    BY <1>3, <1>6 DEF WaitsFor, LockCv, Top
  <2>3. /\ waitq' = [dv \in Cvs |-> waitq'[dv]] /\ waitq'[LockCv(s)] = Append(waitq[LockCv(s)], t)
        /\ \A dv \in Cvs \ {LockCv(s)} : waitq'[dv] = waitq[dv]
    BY <1>3, <1>5, <1>6, WaitFacts
  <2>4. Moves(t) /\ QueuesOf(s) /\ SessOnly(s)
    BY <1>1, <1>3, <1>6, <2>2, <2>3 DEF Moves, OnlyMoves, QueueMove, QueuesOf, SessOnly
  <2>5. sess'[s].lock # NoThread /\ ~sess'[s].unlink
    BY <1>6
  <2>6. LockTold(s)'
    BY <1>3, <1>4, <2>4, <2>5, LockToldStep
  <2>7. RefcTold(s)'
    BY <1>4, <1>5, <1>6, <2>3 DEF RefcTold, RefcCv
  <2> QED BY <1>1, <1>3, <1>4, <2>1, <2>4, <2>6, <2>7, SessTouched
<1>7. CASE sess[s].unlink /\ sess' = DecRef(sess, s) /\ waitq' = AfterDec(waitq, s) /\ Return(t)
  <2>1. PICK g : g = Gone
    OBVIOUS
  <2>2. Takes(t, f, g) /\ SameLock(f, g)
    BY <1>3, <1>7, <2>1, TakesLemma, GoneHasNoLock DEF SameLock, HasLock
  <2>3. /\ sess'[s].ref = sess[s].ref - 1 /\ SessOnly(s)
        /\ \A r \in Sessions : sess'[r].lock = sess[r].lock /\ sess'[r].unlink = sess[r].unlink
    BY <1>3, <1>7 DEF DecRef, SessRec, SessOnly
  <2>4. LockedInv(fr', sess')
    BY <1>3, <2>2, <2>3, LockedStays
  <2>5. waitq \in [Cvs -> Seq(Threads)]
    BY <1>3 DEF QueueInv
  <2>6. /\ waitq' \in [Cvs -> Seq(Threads)]
        /\ sess[s].ref # 2 => waitq'[RefcCv(s)] = waitq[RefcCv(s)]
        /\ sess[s].ref = 2 => waitq'[RefcCv(s)] = IF waitq[RefcCv(s)] = <<>> THEN <<>>
                                                  ELSE Tail(waitq[RefcCv(s)])
        /\ \A dv \in Cvs \ {RefcCv(s)} : waitq'[dv] = waitq[dv]
    BY <1>3, <1>7, <2>5, DecQueues
  <2>7. sess[s].ref = 2 => Popped(RefcCv(s))
    BY <2>6 DEF Popped
  <2>8. QueuesOf(s) /\ waitq'[LockCv(s)] = waitq[LockCv(s)]
    BY <1>5, <2>6 DEF QueuesOf
  <2>9. OnlyMoves(t)
    BY <1>1, <1>3, <2>2 DEF OnlyMoves, Takes
  <2>10. \A cv \in Cvs : QueueMove(t, cv)
    BY <2>6, <2>7, PoppedMoves DEF QueueMove
  <2>11. Moves(t)
    BY <1>1, <1>3, <2>6, <2>9, <2>10 DEF Moves
  <2>12. waitq'[LockCv(s)] = <<>>
    BY <1>4, <1>7, <2>8 DEF LockTold
  <2>13. LockTold(s)'
    BY <2>12 DEF LockTold, LockCv
  <2>14. sess[s].ref \in Nat
    BY <1>3 DEF SessRec
  <2>15. RefcTold(s)'
    BY <1>3, <1>4, <2>3, <2>6, <2>7, <2>14, DecTold
  <2> QED BY <1>1, <1>3, <1>4, <2>3, <2>4, <2>8, <2>11, <2>13, <2>15, SessTouched
<1>8. CASE /\ sess[s].lock = NoThread /\ ~sess[s].unlink /\ sess' = [sess EXCEPT ![s].lock = t]
           /\ Goto(t, "check") /\ UNCHANGED waitq
  <2>1. PICK g : g = [f EXCEPT !.pc = "check"]
    OBVIOUS
  <2>2. Become(t, g)
    BY <1>3, <1>8, <2>1 DEF Goto
  <2>3. g \in FrameRec /\ g.pc = "check" /\ g.s = s /\ g.op = f.op
    BY <1>3, <2>1 DEF FrameRec, PCs
  <2>4. g.op \in {"invoke", "close"} /\ f.pc \in {"get", "getwait"}
    BY <1>3, <2>3 DEF FrameOK, FrameRec, Ops, OpenPcs, CancelPcs
  <2>5. /\ sess'[s].lock = t /\ sess'[s].unlink = sess[s].unlink /\ sess'[s].ref = sess[s].ref
        /\ SessOnly(s)
    BY <1>3, <1>8 DEF SessRec, SessOnly
  <2>6. LockedInv(fr', sess')
    BY <1>2, <1>3, <1>8, <2>2, <2>3, <2>4, <2>5, LockTaken
  <2>7. Takes(t, f, g)
    BY <1>3, <2>2, <2>3, TakesLemma
  <2>8. Moves(t) /\ QueuesOf(s)
    BY <1>1, <1>3, <1>8, <2>7 DEF Moves, OnlyMoves, QueueMove, Takes, QueuesOf, QueueInv
  <2>9. sess'[s].lock # NoThread /\ ~sess'[s].unlink
    BY <1>8, <2>5, NoneAssumption
  <2>10. LockTold(s)'
    BY <1>3, <1>4, <2>8, <2>9, LockToldStep
  <2>11. RefcTold(s)'
    BY <1>4, <1>8, <2>5 DEF RefcTold, RefcCv
  <2> QED BY <1>1, <1>3, <1>4, <2>5, <2>6, <2>8, <2>10, <2>11, SessTouched
<1> QED BY <1>3, <1>6, <1>7, <1>8 DEF get_session_wakes

LEMMA UnlinkWaits ==
  ASSUME WaitInv, TaInv', NEW t \in Threads, unlink_session(t)
  PROVE  WaitInv'
<1>1. PICK pc \in {"unlink", "unlinkwait"} : At(t, pc)
  BY DEF unlink_session
<1>2. PICK x, f, s : OnTop(t, x, f, s)
  BY <1>1, OnTopFacts
<1>3. /\ f.pc = pc /\ stack[t] # <<>> /\ ~crashed /\ s \in Sessions /\ f = Top(t) /\ f.s = s
      /\ TaInv /\ LockedInv(fr, sess) /\ QueueInv /\ NoForgottenWaiter /\ ~Waiting(t)
      /\ f \in FrameRec /\ FrameOK(f) /\ sess \in [Sessions -> SessRec]
      /\ UNCHANGED <<siThread, ctx, crashed>>
  BY <1>1, <1>2, TopFrame DEF OnTop, unlink_session
<1>4. f.op = "close" /\ HasRef(f) /\ HasLock(f)
  BY <1>1, <1>3 DEF FrameOK, FrameRec, Ops, OpenPcs, InvokePcs, CancelPcs, HasRef, HasLock
<1>5. x \in Slots /\ x[1] = t /\ fr[x] = f
  BY <1>2 DEF OnTop
<1>6. sess[s].lock = t
  BY <1>3, <1>4, <1>5 DEF LockedInv
<1>7. LockTold(s) /\ RefcTold(s) /\ ~At(t, "busy") /\ ~At(t, "getwait") /\ Top(t).s = s
  BY <1>1, <1>3 DEF NoForgottenWaiter, At
<1>8. LockCv(s) \in Cvs /\ RefcCv(s) \in Cvs \ {LockCv(s)} /\ LockCv(s) # RefcCv(s)
  BY <1>3, CvFacts
<1>9. waitq \in [Cvs -> Seq(Threads)]
  BY <1>3 DEF QueueInv
<1>10. PICK q : q = IF At(t, "unlink") THEN Broadcast(waitq, LockCv(s)) ELSE waitq
  OBVIOUS
<1>11. /\ q \in [Cvs -> Seq(Threads)] /\ q[LockCv(s)] = <<>>
       /\ \A dv \in Cvs \ {LockCv(s)} : q[dv] = waitq[dv]
  <2>1. CASE At(t, "unlink")
    <3>1. q = [waitq EXCEPT ![LockCv(s)] = <<>>]
      BY <1>10, <2>1 DEF Broadcast
    <3> QED BY <1>8, <1>9, <3>1
  <2>2. CASE ~At(t, "unlink")
    <3>1. q = waitq
      BY <1>10, <2>2
    <3>2. f.pc = "unlinkwait"
      BY <1>1, <1>3, <2>2
    <3>3. sess[s].unlink
      BY <1>3, <1>5, <3>2 DEF LockedInv
    <3>4. waitq[LockCv(s)] = <<>>
      BY <1>7, <3>3 DEF LockTold
    <3> QED BY <1>9, <3>1, <3>4
  <2> QED BY <2>1, <2>2
<1>12. /\ sess' = [sess EXCEPT ![s] = IF sess[s].ref = 1 THEN FreeSess
                                      ELSE [sess[s] EXCEPT !.unlink = TRUE]]
       /\ waitq' = IF sess[s].ref = 1 THEN q ELSE [q EXCEPT ![RefcCv(s)] = Append(q[RefcCv(s)], t)]
       /\ Goto(t, IF sess[s].ref = 1 THEN "clear" ELSE "unlinkwait")
  BY <1>3, <1>10 DEF unlink_session
<1>13. SessOnly(s)
  BY <1>3, <1>12 DEF SessOnly
<1>14. PICK g : g = [f EXCEPT !.pc = IF sess[s].ref = 1 THEN "clear" ELSE "unlinkwait"]
  OBVIOUS
<1>15. /\ Become(t, g) /\ g \in FrameRec /\ g.op = "close" /\ g.s = s
       /\ g.pc = IF sess[s].ref = 1 THEN "clear" ELSE "unlinkwait"
  BY <1>3, <1>4, <1>12, <1>14 DEF Goto, FrameRec, PCs
<1>16. Takes(t, f, g) /\ Changes(fr, x, g, fr')
  BY <1>2, <1>3, <1>15, TopChanges DEF TopBecomes
<1>17. OnlyMoves(t)
  BY <1>3, <1>16 DEF OnlyMoves, Takes
<1>18. CASE sess[s].ref = 1
  <2>1. sess'[s] = FreeSess /\ waitq' = q /\ ~HasLock(g) /\ g.pc = "clear"
    BY <1>3, <1>12, <1>15, <1>18 DEF HasLock
  <2>2. sess'[s].lock = NoThread /\ ~sess'[s].unlink /\ sess'[s].ref # 1
    BY <2>1 DEF FreeSess
  <2>3. LockedInv(fr', sess')
    <3>1. \A y \in Slots \ {x} : HasLock(fr[y]) => fr[y].s # s
      BY <1>3, <1>4, <1>5, <1>6, OneLock
    <3>2. \A r \in Sessions :
            \/ /\ sess'[r].lock = sess[r].lock
               /\ HasLock(fr[x]) /\ fr[x].s = r => HasLock(g) /\ g.s = r
            \/ /\ sess'[r].lock = NoThread
               /\ \A y \in Slots \ {x} : HasLock(fr[y]) => fr[y].s # r
      BY <1>3, <1>5, <1>13, <2>2, <3>1 DEF SessOnly
    <3>3. ASSUME NEW y \in Slots \ {x}, fr[y].pc = "unlinkwait" PROVE sess'[fr[y].s].unlink
      <4>1. SessInv(fr, sess, known)
        BY <1>3 DEF TaInv, AllInv
      <4>2. HasRef(fr[y])
        BY <3>3 DEF HasRef
      <4>3. fr[y].s # s
        BY <1>3, <1>4, <1>5, <1>18, <4>1, <4>2, LastUser
      <4>4. fr[y].s \in Sessions /\ sess[fr[y].s].unlink
        BY <1>3, <3>3, LockedSess DEF LockedInv
      <4> QED BY <1>13, <4>3, <4>4 DEF SessOnly
    <3>4. HasLock(g) => sess'[g.s].lock = x[1]
      BY <2>1
    <3>5. g.pc = "unlinkwait" => sess'[g.s].unlink
      BY <2>1
    <3>6. \A y \in Slots : HasLock(fr[y]) => fr[y].s \in Sessions
      BY <1>3, LockedSess
    <3>7. \A y \in Slots \ {x} : fr[y].pc = "unlinkwait" => sess'[fr[y].s].unlink
      BY <3>3
    <3> QED BY <1>3, <1>5, <1>16, <3>2, <3>4, <3>5, <3>6, <3>7, LockedStep
  <2>4. QueuesOf(s) /\ waitq'[LockCv(s)] = <<>> /\ waitq' = [dv \in Cvs |-> waitq'[dv]]
    BY <1>11, <2>1 DEF QueuesOf
  <2>5. \A cv \in Cvs : QueueMove(t, cv)
    BY <1>11, <2>1 DEF QueueMove
  <2>6. Moves(t)
    BY <1>3, <1>17, <2>4, <2>5 DEF Moves
  <2>7. LockTold(s)'
    BY <2>4 DEF LockTold, LockCv
  <2>8. RefcTold(s)'
    BY <2>2 DEF RefcTold
  <2> QED BY <1>3, <1>7, <1>13, <2>3, <2>4, <2>6, <2>7, <2>8, SessTouched
<1>19. CASE sess[s].ref # 1
  <2>1. sess'[s] = [sess[s] EXCEPT !.unlink = TRUE] /\ g.pc = "unlinkwait" /\ HasLock(g)
    BY <1>3, <1>12, <1>15, <1>19 DEF HasLock
  <2>2. sess'[s].lock = sess[s].lock /\ sess'[s].unlink /\ sess'[s].ref # 1
    BY <1>3, <1>19, <2>1 DEF SessRec
  <2>3. LockedInv(fr', sess')
    <3>1. \A r \in Sessions : /\ sess'[r].lock = sess[r].lock
                              /\ HasLock(fr[x]) /\ fr[x].s = r => HasLock(g) /\ g.s = r
      BY <1>3, <1>5, <1>13, <1>15, <2>1, <2>2 DEF SessOnly
    <3>2. \A y \in Slots \ {x} : fr[y].pc = "unlinkwait" => sess'[fr[y].s].unlink
      BY <1>3, <1>13, <2>2, LockedSess DEF LockedInv, SessOnly
    <3>3. HasLock(g) => sess'[g.s].lock = x[1]
      BY <1>5, <1>6, <1>15, <2>2
    <3>4. g.pc = "unlinkwait" => sess'[g.s].unlink
      BY <1>15, <2>2
    <3>5. \A y \in Slots : HasLock(fr[y]) => fr[y].s \in Sessions
      BY <1>3, LockedSess
    <3> QED BY <1>3, <1>5, <1>16, <3>1, <3>2, <3>3, <3>4, <3>5, LockedStep
  <2>4. waitq' = [q EXCEPT ![RefcCv(s)] = Append(q[RefcCv(s)], t)]
    BY <1>12, <1>19
  <2>5. /\ waitq'[LockCv(s)] = <<>> /\ waitq' = [dv \in Cvs |-> waitq'[dv]] /\ QueuesOf(s)
        /\ waitq'[RefcCv(s)] = Append(waitq[RefcCv(s)], t)
    BY <1>8, <1>11, <2>4 DEF QueuesOf
  <2>6. stack'[t] # <<>> /\ Top(t)' = g
    BY <1>3, <1>15, TopAfter
  <2>7. WaitsFor(t, RefcCv(s))'
    BY <1>15, <2>1, <2>6 DEF WaitsFor, RefcCv
  <2>8. \A cv \in Cvs : QueueMove(t, cv)
    BY <2>5, <2>7 DEF QueueMove, QueuesOf
  <2>9. Moves(t)
    BY <1>3, <1>17, <2>5, <2>8 DEF Moves
  <2>10. LockTold(s)'
    BY <2>5 DEF LockTold, LockCv
  <2>11. RefcTold(s)'
    BY <2>2 DEF RefcTold
  <2> QED BY <1>3, <1>7, <1>13, <2>3, <2>5, <2>9, <2>10, <2>11, SessTouched
<1> QED BY <1>18, <1>19

-----------------------------------------------------------------------------
LEMMA InitWaitInv == Init => WaitInv
<1> SUFFICES ASSUME Init PROVE WaitInv
  OBVIOUS
<1>1. TaInv
  BY InitTaInv
<1>2. ASSUME NEW x \in Slots PROVE fr[x] = Gone
  <2>1. PICK t \in Threads, n \in Nat \ {0} : x = <<t, n>>
    BY DEF Slots
  <2>2. stack[t] = <<>> /\ Len(stack[t]) = 0
    BY DEF Init
  <2>3. ~(x[2] <= Len(stack[x[1]]))
    BY <2>1, <2>2
  <2> QED BY <2>3 DEF fr
<1>3. LockedInv(fr, sess)
  <2>1. \A s \in Sessions : sess[s].lock = NoThread
    BY DEF Init, FreeSess
  <2> QED BY <1>2, <2>1, GoneHasNoLock DEF LockedInv
<1>4. waitq = [cv \in Cvs |-> <<>>]
  BY DEF Init
<1>5. QueueInv
  BY <1>4 DEF QueueInv
<1>6. NoForgottenWaiter
  BY <1>4, CvFacts DEF NoForgottenWaiter, SiTold, BusyTold, LockTold, RefcTold
<1> QED BY <1>1, <1>3, <1>5, <1>6 DEF WaitInv

LEMMA NextWaitInv == WaitInv /\ [Next]_vars => WaitInv'
<1> SUFFICES ASSUME WaitInv, [Next]_vars PROVE WaitInv'
  OBVIOUS
<1>1. TaInv'
  BY NextTaInv DEF WaitInv
<1>2. CASE UNCHANGED vars
  <2>1. UNCHANGED <<siThread, siCount, ctx, sess, stack, waitq, crashed>>
    BY <1>2 DEF vars
  <2>2. LockedInv(fr', sess')
    BY <2>1, FrStays DEF WaitInv
  <2>3. \A r, cv : WaitsFor(r, cv)' <=> WaitsFor(r, cv)
    BY <2>1 DEF WaitsFor, Top, Single, SiCv, BusyCv, LockCv, RefcCv
  <2>4. QueueInv'
    BY <2>1, <2>3 DEF WaitInv, QueueInv, Cvs, SiCv, BusyCv, LockCv, RefcCv
  <2>5. NoForgottenWaiter'
    BY <2>1 DEF WaitInv, NoForgottenWaiter, SiTold, BusyTold, LockTold, RefcTold, Woken, At,
                Waiting, Top, Single, SiCv, BusyCv, LockCv, RefcCv, Cvs
  <2> QED BY <1>1, <2>2, <2>4, <2>5 DEF WaitInv
<1>3. ASSUME NEW t \in Threads, Call(t) PROVE WaitInv'
  BY <1>1, <1>3, CallWaits
<1>4. ASSUME NEW t \in Threads, TaEnds(t) PROVE WaitInv'
  BY <1>1, <1>4, TaEndsWaits
<1>5. ASSUME NEW t \in Threads, Run(t) PROVE WaitInv'
  <2>1. ASSUME NEW s \in Sessions, init_session_with_context(t, s) PROVE WaitInv'
    BY <1>1, <2>1, InitWaits
  <2>2. ASSUME NEW s \in Sessions, NEW c \in Ctxs, init_ta_session(t, s, c) PROVE WaitInv'
    BY <1>1, <2>2, InitWaits
  <2>3. CASE init_session_fails(t) \/ get_session_fails(t)
    BY <1>1, <2>3, FailsWaits
  <2>4. CASE open_entry(t)
    BY <1>1, <2>4, OpenEntryWaits
  <2>5. CASE set_busy_waits(t)
    BY <1>1, <2>5, BusyWaitsWaits
  <2>6. CASE set_busy(t)
    BY <1>1, <2>6, SetBusyWaits
  <2>7. CASE set_busy_fails(t)
    BY <1>1, <2>7, BusyFailsWaits
  <2>8. CASE clear_busy(t)
    BY <1>1, <2>8, ClearBusyWaits
  <2>9. CASE open_checks_panic(t) \/ close_entry(t)
    BY <1>1, <2>9, ChecksWaits
  <2>10. CASE put_session(t)
    BY <1>1, <2>10, PutWaits
  <2>11. CASE get_session(t)
    BY <1>1, <2>11, GetWaits
  <2>12. CASE get_session_wakes(t)
    BY <1>1, <2>12, WakesWaits
  <2>13. CASE check_call(t)
    BY <1>1, <2>13, CheckCallWaits
  <2>14. CASE unlink_session(t)
    BY <1>1, <2>14, UnlinkWaits
  <2>15. CASE drop_context(t)
    BY <1>1, <2>15, DropWaits
  <2>16. CASE ctx_destroy(t)
    BY <1>1, <2>16, DestroyWaits
  <2> QED BY <1>5, <2>1, <2>2, <2>3, <2>4, <2>5, <2>6, <2>7, <2>8, <2>9, <2>10, <2>11, <2>12,
             <2>13, <2>14, <2>15, <2>16 DEF Run
<1> QED BY <1>2, <1>3, <1>4, <1>5 DEF Next

LEMMA WaitInvariance == Spec => []WaitInv
BY InitWaitInv, NextWaitInv, PTL DEF Spec

(* No thread sleeps on a condition variable of tee_ta_manager.c for        *)
(* something that has come about, unless one that was woken has yet to     *)
(* look: no wakeup is lost, for any number of threads, sessions and TAs.   *)
THEOREM WaitersAreTold == Spec => []NoForgottenWaiter
<1>1. WaitInv => NoForgottenWaiter
  BY DEF WaitInv
<1> QED BY <1>1, WaitInvariance, PTL

(* No assert() on a count, a flag or a lock in tee_ta_manager.c fails, and *)
(* no condvar_destroy finds a thread waiting, whatever the flags of the    *)
(* TAs and whoever calls whom.                                             *)
THEOREM AssertionsHold == Spec => []Assertions
<1>1. ASSUME WaitInv, NEW t \in Threads, At(t, "busy"), siThread = NoThread PROVE siCount = 0
  BY <1>1 DEF WaitInv, TaInv, AllInv, LockInv
<1>2. ASSUME WaitInv, NEW t \in Threads, NEW f, f = Top(t), At(t, "clear")
      PROVE  ctx[f.c].busy /\ (Single(f.c) => siThread = t /\ siCount > 0)
  <2>1. PICK x \in Slots : OnTop(t, x, f, f.s)
    BY <1>2, OnTopFacts
  <2>2. /\ x[1] = t /\ fr[x] = f /\ f.pc = "clear" /\ f.c \in Ctxs
        /\ BusyInv(fr, ctx) /\ LockInv(fr, ctx, siThread, siCount)
    BY <1>2, <2>1 DEF OnTop, FrameOK, EnteredPcs, At, WaitInv, TaInv, AllInv
  <2>3. Inside(f)
    BY <2>2 DEF Inside
  <2>4. ctx[f.c].busy
    <3>1. x \in InsidersOf(fr, f.c)
      BY <2>2, <2>3 DEF InsidersOf, InsideOf
    <3>2. IsFiniteSet(InsidersOf(fr, f.c)) /\ Cardinality(InsidersOf(fr, f.c)) = B(ctx[f.c].busy)
      BY <2>2 DEF BusyInv
    <3>3. Cardinality(InsidersOf(fr, f.c)) # 0
      BY <3>1, <3>2, CountFacts
    <3> QED BY <3>2, <3>3 DEF B
  <2>5. ASSUME Single(f.c) PROVE siThread = t /\ siCount > 0
    <3>1. x \in LockersOf(fr, ctx)
      BY <2>2, <2>3, <2>5 DEF LockersOf, Locks, Single
    <3>2. siThread = t /\ siCount \in Nat /\ (siCount = 0 <=> siThread = NoThread)
      BY <2>2, <3>1 DEF LockInv
    <3> QED BY <3>2, NoneAssumption
  <2> QED BY <2>4, <2>5
<1>3. ASSUME WaitInv, NEW t \in Threads, NEW f, f = Top(t),
             At(t, "put") \/ At(t, "getwait") \/ At(t, "unlink")
      PROVE  sess[f.s].ref \in Nat /\ sess[f.s].ref > 0 /\ sess[f.s].ref >= 1
  <2>1. PICK x \in Slots : OnTop(t, x, f, f.s)
    BY <1>3, OnTopFacts
  <2>2. fr[x] = f /\ f.s \in Sessions /\ HasRef(f) /\ SessInv(fr, sess, known)
    BY <1>3, <2>1 DEF OnTop, At, HasRef, WaitInv, TaInv, AllInv
  <2>3. sess[f.s].ref \in Nat \ {0}
    BY <2>2, RefPositive
  <2> QED BY <2>3
<1>4. ASSUME WaitInv, NEW t \in Threads, NEW f, f = Top(t), At(t, "get"), Linked(f)
      PROVE  sess[f.s].lock # t
  <2>1. PICK x \in Slots : OnTop(t, x, f, f.s)
    BY <1>4, OnTopFacts
  <2>2. /\ x[1] = t /\ fr[x] = f /\ f.s \in Sessions /\ f.pc = "get" /\ f \in FrameRec
        /\ TaInv /\ LockedInv(fr, sess) /\ sess[f.s].list = f.list
    BY <1>4, <2>1 DEF OnTop, At, Linked, WaitInv
  <2>3. fr[x] # Gone
    BY <2>2 DEF FrameRec, Gone, Ops
  <2>4. ASSUME sess[f.s].lock = t PROVE FALSE
    <3>1. PICK n \in Nat \ {0} : HasLock(fr[<<t, n>>]) /\ fr[<<t, n>>].s = f.s
      BY <2>2, <2>4, NoneAssumption DEF LockedInv
    <3>2. PICK y \in Slots : y = <<t, n>>
      BY DEF Slots
    <3>3. y[1] = t /\ HasRef(fr[y]) /\ fr[y].s = f.s
      BY <3>1, <3>2, LockHasRef
    <3>4. y = x
      BY <2>2, <2>3, <3>3, RefsDiffer
    <3> QED BY <2>2, <3>3, <3>4 DEF HasRef
  <2> QED BY <2>4
<1>5. ASSUME WaitInv, NEW t \in Threads, NEW f, f = Top(t), At(t, "unlink")
      PROVE  sess[f.s].lock = t /\ ~sess[f.s].unlink
  <2>1. PICK x \in Slots : OnTop(t, x, f, f.s)
    BY <1>5, OnTopFacts
  <2>2. /\ x[1] = t /\ fr[x] = f /\ f.s \in Sessions /\ f.pc = "unlink" /\ f \in FrameRec
        /\ FrameOK(f) /\ TaInv /\ LockedInv(fr, sess)
    BY <1>5, <2>1 DEF OnTop, At, WaitInv
  <2>3. f.op = "close" /\ HasLock(f) /\ Owns(f)
    BY <2>2 DEF FrameOK, FrameRec, Ops, OpenPcs, InvokePcs, CancelPcs, HasLock, Owns
  <2>4. sess[f.s].lock = t
    BY <2>2, <2>3 DEF LockedInv
  <2>5. ASSUME sess[f.s].unlink PROVE FALSE
    <3>1. StackInv(fr) /\ SessOwners(fr, sess, known)
      BY <2>2 DEF TaInv, AllInv, SessInv
    <3>2. PICK y \in Slots : fr[y].s = f.s /\ fr[y].pc = "unlinkwait"
      BY <2>2, <2>5, <3>1 DEF SessOwners
    <3>3. fr[y] # Gone
      BY <3>2 DEF Gone
    <3>4. Owns(fr[y])
      BY <3>1, <3>2, <3>3 DEF StackInv, GoodFrame, FrameOK, FrameRec, Ops, OpenPcs, InvokePcs,
                              CancelPcs, Owns
    <3>5. x = y
      BY <2>2, <2>3, <3>1, <3>2, <3>4 DEF SessOwners
    <3> QED BY <2>2, <3>2, <3>5
  <2> QED BY <2>4, <2>5
<1>6. ASSUME WaitInv, NEW t \in Threads, NEW f, f = Top(t), At(t, "deref") PROVE ctx[f.c].ref > 0
  <2>1. f.pc = "deref" /\ FrameOK(f) /\ stack[t] # <<>> /\ TaInv /\ ctx \in [Ctxs -> CtxRec]
    BY <1>6, TopFrame
  <2>2. f.c \in Ctxs /\ ctx[f.c].ref \in Nat
    BY <2>1 DEF FrameOK, EnteredPcs, CtxRec
  <2>3. ctx[f.c].ref >= 1
    BY <1>6, <2>1, <2>2, TopFacts
  <2> QED BY <2>2, <2>3
<1>7. ASSUME WaitInv, NEW t \in Threads, NEW f, f = Top(t), At(t, "destroy")
      PROVE  waitq[BusyCv(f.c)] = <<>>
  <2>1. PICK x \in Slots : OnTop(t, x, f, f.s)
    BY <1>7, OnTopFacts
  <2>2. fr[x] = f /\ f.pc = "destroy" /\ f.c \in Ctxs /\ TaInv /\ QueueInv
    BY <1>7, <2>1 DEF OnTop, At, FrameOK, EnteredPcs, WaitInv
  <2>3. ~ctx[f.c].linked
    BY <2>2 DEF TaInv, AllInv, CtxInv, CtxLinks
  <2> QED BY <2>2, <2>3, BusyWaiters
<1>8. ASSUME WaitInv, NEW t \in Threads, NEW f, f = Top(t)
      PROVE  /\ At(t, "busy") /\ siThread = NoThread => siCount = 0
             /\ At(t, "clear") => /\ ctx[f.c].busy
                                  /\ Single(f.c) => siThread = t /\ siCount > 0
             /\ At(t, "put") \/ At(t, "getwait") => sess[f.s].ref > 0
             /\ At(t, "get") /\ f.op # "cancel" /\ Linked(f) => sess[f.s].lock # t
             /\ At(t, "unlink") => sess[f.s].ref >= 1 /\ sess[f.s].lock = t /\ ~sess[f.s].unlink
             /\ At(t, "deref") => ctx[f.c].ref > 0
             /\ At(t, "destroy") => waitq[BusyCv(f.c)] = <<>>
  BY <1>1, <1>2, <1>3, <1>4, <1>5, <1>6, <1>7, <1>8
<1>9. WaitInv => Assertions
  BY <1>8 DEF Assertions
<1> QED BY <1>9, WaitInvariance, PTL
-----------------------------------------------------------------------------
(* The third part: who calls whom.  R is an order on the TAs in which a TA *)
(* comes before the ones it opens sessions to.                             *)
CallOrder(R) == /\ Calls \subseteq R
                /\ \A u, v, w : <<u, v>> \in R /\ <<v, w>> \in R => <<u, w>> \in R
                /\ \A u : <<u, u>> \notin R

(* The sessions in a TA's list lead to TAs it may call, the calls of a     *)
(* thread go up in the order, and an instance of a TA that is not          *)
(* single-instance has one session.                                        *)
ListsFollow(S, C) ==
  \A s \in Sessions : S[s].list \in Ctxs => <<C[S[s].list].uuid, C[S[s].ctx].uuid>> \in Calls
OpensFollow(fm, C) ==
  \A x \in Slots : fm[x].pc = "init" /\ fm[x].list \in Ctxs =>
                     <<C[fm[x].list].uuid, fm[x].u>> \in Calls
CallsRise(fm, C, R) ==
  \A t \in Threads, i, j \in Nat \ {0} :
    i < j /\ fm[<<t, j>>].c \in Ctxs =>
      fm[<<t, i>>].c \in Ctxs /\ <<C[fm[<<t, i>>].c].uuid, C[fm[<<t, j>>].c].uuid>> \in R
OneSession(C) == \A c \in Ctxs : C[c].uuid \notin SingleInstance => C[c].ref <= 1

CallInv(fm, S, C, R) ==
  ListsFollow(S, C) /\ OpensFollow(fm, C) /\ CallsRise(fm, C, R) /\ OneSession(C)

PanicInv(R) == WaitInv /\ CallInv(fr, sess, ctx, R) /\ ~crashed

(* What a step does to the contexts and sessions.                          *)
UuidsStay == \A c \in Ctxs : ctx[c].uuid = NoUuid \/ ctx'[c].uuid \in {ctx[c].uuid, NoUuid}
RefsStay == \A c \in Ctxs : ctx'[c].uuid \notin SingleInstance =>
              ctx'[c].ref <= 1 \/ (ctx[c].uuid \notin SingleInstance /\ ctx'[c].ref <= ctx[c].ref)
ListsStay == \A s \in Sessions : sess'[s].list \in Ctxs =>
               \/ sess'[s].list = sess[s].list /\ sess'[s].ctx = sess[s].ctx
               \/ <<ctx'[sess'[s].list].uuid, ctx'[sess'[s].ctx].uuid>> \in Calls

(* The call g that takes the place of f.                                   *)
Follows(f, g) ==
  /\ g.pc = "init" /\ g.list \in Ctxs => <<ctx'[g.list].uuid, g.u>> \in Calls
  /\ g.c \in Ctxs => \/ g.c = f.c
                     \/ g.list \in Ctxs => <<ctx'[g.list].uuid, ctx'[g.c].uuid>> \in Calls

(* Above the place where a step changes the stack there is no call.        *)
LEMMA NoneAbove ==
  ASSUME TaInv, NEW t \in Threads, NEW n \in Nat \ {0}, fr[<<t, n + 1>>] = Gone
  PROVE  \A j \in Nat \ {0} : j > n => fr[<<t, j>>] = Gone
<1>1. stack \in Stacks
  BY DEF TaInv, Stacks
<1>2. /\ stack[t] \in Seq(FrameRec) /\ Len(stack[t]) \in Nat
      /\ \A j \in Nat \ {0} : fr[<<t, j>>] = IF j <= Len(stack[t]) THEN stack[t][j] ELSE Gone
  BY <1>1, SlotFacts
<1>3. Gone \notin FrameRec
  BY DEF Gone, FrameRec, Ops
<1>4. ~(n + 1 <= Len(stack[t]))
  <2>1. ASSUME n + 1 <= Len(stack[t]) PROVE FALSE
    <3>1. n + 1 \in Nat \ {0} /\ n + 1 \in 1..Len(stack[t])
      BY <1>2, <2>1
    <3>2. stack[t][n + 1] \in FrameRec
      BY <1>2, <3>1
    <3> QED BY <1>2, <1>3, <2>1, <3>1, <3>2
  <2> QED BY <2>1
<1> QED BY <1>2, <1>4

(* Contexts that are in use before and after a step are those of the same  *)
(* TA.                                                                     *)
UsedCtxs ==
  /\ \A y \in Slots : fr[y].c \in Ctxs => ctx[fr[y].c].uuid # NoUuid
  /\ \A y \in Slots : fr[y].list \in Ctxs => ctx[fr[y].list].uuid # NoUuid
  /\ \A s \in Sessions : sess[s].list \in Ctxs =>
       /\ sess[s].ctx \in Ctxs
       /\ ctx[sess[s].list].uuid # NoUuid /\ ctx[sess[s].ctx].uuid # NoUuid

LEMMA InUse == TaInv => UsedCtxs
<1> SUFFICES ASSUME TaInv PROVE UsedCtxs
  OBVIOUS
<1>1. StackInv(fr) /\ SessInv(fr, sess, known) /\ CtxInv(fr, sess, ctx)
  BY DEF TaInv, AllInv
<1>2. \A y \in Slots : fr[y].c \in Ctxs => ctx[fr[y].c].uuid # NoUuid
  BY <1>1, NeededCtx
<1>3. ASSUME NEW y \in Slots, fr[y].list \in Ctxs PROVE ctx[fr[y].list].uuid # NoUuid
  <2>1. PICK t \in Threads, n \in Nat \ {0} : y = <<t, n>>
    BY DEF Slots
  <2>2. fr[y] # Gone
    BY <1>3, NoneAssumption DEF Gone
  <2>3. CalledFrom(fr, t, n, fr[y].list)
    BY <1>1, <2>1, <2>2 DEF StackInv
  <2>4. n > 1 /\ fr[y].list = fr[<<t, n - 1>>].c
    BY <1>3, <2>3, NoneAssumption DEF CalledFrom
  <2>5. PICK z \in Slots : z = <<t, n - 1>>
    BY <2>4 DEF Slots
  <2> QED BY <1>2, <1>3, <2>4, <2>5
<1>4. ASSUME NEW s \in Sessions, sess[s].list \in Ctxs
      PROVE  /\ sess[s].ctx \in Ctxs
             /\ ctx[sess[s].list].uuid # NoUuid /\ ctx[sess[s].ctx].uuid # NoUuid
  <2>1. sess[s].ctx \in Ctxs
    BY <1>1, <1>4, NoneAssumption DEF SessInv, SessRec
  <2>2. ctx[sess[s].list].uuid # NoUuid
    BY <1>1, <1>4 DEF CtxInv, CtxLinks
  <2> QED BY <1>1, <2>1, <2>2, NeededCtx
<1> QED BY <1>2, <1>3, <1>4 DEF UsedCtxs

LEMMA CallStepInv ==
  ASSUME TaInv, TaInv', NEW R, CallOrder(R), CallInv(fr, sess, ctx, R), NEW t \in Threads,
         NEW f, NEW g, Takes(t, f, g), Follows(f, g), UuidsStay, RefsStay, ListsStay
  PROVE  CallInv(fr', sess', ctx', R)
<1>1. PICK n \in Nat \ {0} : Shifts(t, n, g) /\ fr[<<t, n>>] = f
  BY DEF Takes
<1>2. PICK x \in Slots : x = <<t, n>>
  BY <1>1 DEF Shifts
<1>3. fr'[x] = g /\ fr[x] = f /\ \A y \in Slots \ {x} : fr'[y] = fr[y]
  BY <1>1, <1>2, SlotStep DEF Shifts
<1>4. \A j \in Nat \ {0} : j > n => fr[<<t, j>>] = Gone
  BY <1>1, NoneAbove DEF Shifts
<1>5. /\ \A y \in Slots : fr'[y].c \in Ctxs => ctx'[fr'[y].c].uuid # NoUuid
      /\ \A y \in Slots : fr'[y].list \in Ctxs => ctx'[fr'[y].list].uuid # NoUuid
      /\ \A s \in Sessions : sess'[s].list \in Ctxs =>
           /\ sess'[s].ctx \in Ctxs
           /\ ctx'[sess'[s].list].uuid # NoUuid /\ ctx'[sess'[s].ctx].uuid # NoUuid
  <2>1. UsedCtxs'
    BY InUse, PTL
  <2> QED BY <2>1 DEF UsedCtxs
<1>6. /\ \A y \in Slots : fr[y].c \in Ctxs => ctx[fr[y].c].uuid # NoUuid
      /\ \A y \in Slots : fr[y].list \in Ctxs => ctx[fr[y].list].uuid # NoUuid
      /\ \A s \in Sessions : sess[s].list \in Ctxs =>
           /\ sess[s].ctx \in Ctxs
           /\ ctx[sess[s].list].uuid # NoUuid /\ ctx[sess[s].ctx].uuid # NoUuid
  BY InUse DEF UsedCtxs
<1>7. \A c \in Ctxs : ctx[c].uuid # NoUuid /\ ctx'[c].uuid # NoUuid => ctx'[c].uuid = ctx[c].uuid
  BY DEF UuidsStay
<1>8. ListsFollow(sess', ctx')
  <2>1. ASSUME NEW s \in Sessions, sess'[s].list \in Ctxs
        PROVE  <<ctx'[sess'[s].list].uuid, ctx'[sess'[s].ctx].uuid>> \in Calls
    <3>1. CASE sess'[s].list = sess[s].list /\ sess'[s].ctx = sess[s].ctx
      <4>1. <<ctx[sess[s].list].uuid, ctx[sess[s].ctx].uuid>> \in Calls
        BY <2>1, <3>1 DEF CallInv, ListsFollow
      <4>2. /\ ctx'[sess'[s].list].uuid = ctx[sess[s].list].uuid
            /\ ctx'[sess'[s].ctx].uuid = ctx[sess[s].ctx].uuid
        BY <1>5, <1>6, <1>7, <2>1, <3>1
      <4> QED BY <4>1, <4>2
    <3>2. CASE ~(sess'[s].list = sess[s].list /\ sess'[s].ctx = sess[s].ctx)
      BY <2>1, <3>2 DEF ListsStay
    <3> QED BY <3>1, <3>2
  <2> QED BY <2>1 DEF ListsFollow
<1>9. OpensFollow(fr', ctx')
  <2>1. ASSUME NEW y \in Slots, fr'[y].pc = "init", fr'[y].list \in Ctxs
        PROVE  <<ctx'[fr'[y].list].uuid, fr'[y].u>> \in Calls
    <3>1. CASE y = x
      BY <1>3, <2>1, <3>1 DEF Follows
    <3>2. CASE y # x
      <4>1. fr'[y] = fr[y]
        BY <1>3, <3>2
      <4>2. <<ctx[fr[y].list].uuid, fr[y].u>> \in Calls
        BY <2>1, <4>1 DEF CallInv, OpensFollow
      <4>3. ctx'[fr'[y].list].uuid = ctx[fr[y].list].uuid
        BY <1>5, <1>6, <1>7, <2>1, <4>1
      <4> QED BY <4>1, <4>2, <4>3
    <3> QED BY <3>1, <3>2
  <2> QED BY <2>1 DEF OpensFollow
<1>10. OneSession(ctx')
  <2>1. ctx \in [Ctxs -> CtxRec]
    BY DEF TaInv, AllInv, CtxInv
  <2>2. ctx' \in [Ctxs -> CtxRec]
    BY DEF TaInv, AllInv, CtxInv
  <2>3. \A c \in Ctxs : ctx[c].ref \in Nat /\ ctx'[c].ref \in Nat
    BY <2>1, <2>2 DEF CtxRec
  <2> QED BY <2>3 DEF OneSession, RefsStay, CallInv
<1>11. CallsRise(fr', ctx', R)
  <2>1. ASSUME NEW r \in Threads, NEW i \in Nat \ {0}, NEW j \in Nat \ {0}, i < j,
               <<r, i>> # x, fr'[<<r, i>>] = fr[<<r, i>>], fr[<<r, j>>].c \in Ctxs,
               fr'[<<r, j>>].c = fr[<<r, j>>].c
        PROVE  /\ fr'[<<r, i>>].c \in Ctxs
               /\ <<ctx'[fr'[<<r, i>>].c].uuid, ctx'[fr'[<<r, j>>].c].uuid>> \in R
    <3>1. PICK y \in Slots, z \in Slots : y = <<r, i>> /\ z = <<r, j>>
      BY DEF Slots
    <3>2. fr[y].c \in Ctxs /\ <<ctx[fr[y].c].uuid, ctx[fr[z].c].uuid>> \in R
      BY <2>1, <3>1 DEF CallInv, CallsRise
    <3>3. ctx'[fr'[y].c].uuid = ctx[fr[y].c].uuid /\ ctx'[fr'[z].c].uuid = ctx[fr[z].c].uuid
      BY <1>5, <1>6, <1>7, <2>1, <3>1, <3>2
    <3> QED BY <2>1, <3>1, <3>2, <3>3
  <2>2. ASSUME NEW r \in Threads, NEW i \in Nat \ {0}, NEW j \in Nat \ {0}, i < j,
               fr'[<<r, j>>].c \in Ctxs
        PROVE  /\ fr'[<<r, i>>].c \in Ctxs
               /\ <<ctx'[fr'[<<r, i>>].c].uuid, ctx'[fr'[<<r, j>>].c].uuid>> \in R
    <3>1. PICK y \in Slots, z \in Slots : y = <<r, i>> /\ z = <<r, j>>
      BY DEF Slots
    <3>2. ASSUME y = x PROVE FALSE
      <4>1. r = t /\ i = n /\ z # x
        BY <1>2, <2>2, <3>1, <3>2
      <4>2. fr'[z] = Gone
        BY <1>3, <1>4, <2>2, <3>1, <4>1
      <4> QED BY <2>2, <3>1, <4>2, NoneAssumption DEF Gone
    <3>3. fr'[y] = fr[y] /\ <<r, i>> # x /\ fr'[<<r, i>>] = fr[<<r, i>>]
      BY <1>3, <3>1, <3>2
    <3>4. CASE fr'[z].c = fr[z].c
      <4>1. fr[<<r, j>>].c \in Ctxs /\ fr'[<<r, j>>].c = fr[<<r, j>>].c
        BY <2>2, <3>1, <3>4
      <4> QED BY <2>1, <2>2, <3>3, <4>1
    <3>5. CASE fr'[z].c # fr[z].c
      <4>1. z = x /\ r = t /\ j = n /\ fr'[z] = g
        BY <1>2, <1>3, <3>1, <3>5
      <4>2. g.c \in Ctxs /\ g.c # f.c
        BY <1>3, <2>2, <3>1, <3>5, <4>1
      <4>3. g # Gone
        BY <4>2, NoneAssumption DEF Gone
      <4>4. StackInv(fr')
        BY DEF TaInv, AllInv
      <4>5. CalledFrom(fr', t, n, g.list)
        BY <3>1, <4>1, <4>3, <4>4 DEF StackInv
      <4>6. n > 1 /\ fr'[<<t, n - 1>>].pc \in {"run", "destroy"} /\ g.list = fr'[<<t, n - 1>>].c
            /\ fr'[<<t, n - 1>>] # Gone
        BY <2>2, <4>1, <4>5 DEF CalledFrom
      <4>7. n - 1 \in Nat \ {0}
        BY <4>6
      <4>8. PICK v \in Slots : v = <<t, n - 1>>
        BY <4>7 DEF Slots
      <4>9. GoodFrame(fr'[v])
        BY <4>4 DEF StackInv
      <4>10. fr'[v].c \in Ctxs
        BY <4>6, <4>8, <4>9 DEF GoodFrame, FrameOK, EnteredPcs
      <4>11. <<ctx'[fr'[v].c].uuid, ctx'[g.c].uuid>> \in R
        BY <4>2, <4>6, <4>8, <4>10 DEF Follows, CallOrder
      <4>12. CASE i = n - 1
        BY <3>1, <4>1, <4>8, <4>10, <4>11, <4>12
      <4>13. CASE i # n - 1
        <5>1. i < n - 1
          BY <2>2, <4>1, <4>13
        <5>2. v # x
          BY <1>2, <4>8
        <5>3. fr'[<<t, n - 1>>] = fr[<<t, n - 1>>]
          BY <1>3, <4>8, <5>2
        <5>4. /\ fr'[<<t, i>>].c \in Ctxs
              /\ <<ctx'[fr'[<<t, i>>].c].uuid, ctx'[fr'[<<t, n - 1>>].c].uuid>> \in R
          <6>1. /\ <<t, i>> # x /\ fr'[<<t, i>>] = fr[<<t, i>>] /\ fr[<<t, n - 1>>].c \in Ctxs
                /\ fr'[<<t, n - 1>>].c = fr[<<t, n - 1>>].c
            BY <3>3, <4>1, <4>8, <4>10, <5>3
          <6> QED BY <2>1, <4>7, <5>1, <6>1
        <5> QED BY <3>1, <4>1, <4>8, <4>11, <5>4 DEF CallOrder
      <4> QED BY <4>12, <4>13
    <3> QED BY <3>4, <3>5
  <2> QED BY <2>2 DEF CallsRise
<1> QED BY <1>8, <1>9, <1>10, <1>11 DEF CallInv

(* A call from the normal world is the first of its thread.                *)
LEMMA FromNsec ==
  ASSUME NEW fm, StackInv(fm), NEW t \in Threads, NEW n \in Nat \ {0}, CalledFrom(fm, t, n, Nsec)
  PROVE  n = 1
<1>1. ASSUME NEW k \in Nat \ {0}, k = n - 1, fm[<<t, k>>].pc \in {"run", "destroy"},
             fm[<<t, k>>] # Gone, fm[<<t, k>>].c = Nsec
      PROVE  FALSE
  <2>1. PICK z \in Slots : z = <<t, k>>
    BY DEF Slots
  <2>2. GoodFrame(fm[z])
    BY DEF StackInv
  <2>3. fm[z].c \in Ctxs
    BY <1>1, <2>1, <2>2 DEF GoodFrame, FrameOK, EnteredPcs
  <2> QED BY <1>1, <2>1, <2>3, NoneAssumption
<1> QED BY <1>1 DEF CalledFrom

(* A thread with the single-instance lock that finds a TA busy has come    *)
(* back to it, or is opening a session: the lock keeps the others out of   *)
(* single-instance TAs, and the only session of another instance is open   *)
(* to one call at a time.                                                  *)
LEMMA BusyIsReentry ==
  ASSUME WaitInv, OneSession(ctx), NEW t \in Threads, At(t, "busy"), Top(t).op # "open",
         ~SiLocked(t, Top(t).c), HasSi(t, Top(t).c), ctx[Top(t).c].busy
  PROVE  \E n \in Nat \ {0} : n < Len(stack[t]) /\ fr[<<t, n>>].c = Top(t).c
<1>1. PICK f : f = Top(t)
  OBVIOUS
<1>2. PICK x \in Slots : OnTop(t, x, f, f.s)
  BY <1>1, OnTopFacts
<1>3. PICK c \in Ctxs : c = f.c
  BY <1>1, <1>2 DEF OnTop, At, FrameOK, EnteredPcs
<1>4. /\ TaInv /\ LockedInv(fr, sess) /\ StackInv(fr) /\ SessInv(fr, sess, known)
      /\ CtxInv(fr, sess, ctx) /\ BusyInv(fr, ctx) /\ LockInv(fr, ctx, siThread, siCount)
  BY DEF WaitInv, TaInv, AllInv
<1>5. /\ f.pc = "busy" /\ fr[x] = f /\ f.s \in Sessions /\ f \in FrameRec /\ FrameOK(f)
      /\ x = <<t, Len(stack[t])>> /\ x[1] = t /\ stack[t] # <<>>
  BY <1>1, <1>2 DEF OnTop, At
<1>6. f.op \in {"invoke", "close"} /\ HasRef(f) /\ HasLock(f)
  BY <1>1, <1>5 DEF HasRef, HasLock, FrameRec, FrameOK, Ops, CancelPcs
<1>7. sess[f.s].lock = t
  BY <1>4, <1>5, <1>6 DEF LockedInv
<1>8. sess[f.s].ctx = c /\ sess[f.s].list = f.list
  BY <1>3, <1>4, <1>5, <1>6, NoneAssumption DEF SessInv, SessLinks
<1>9. PICK n \in Nat \ {0} : n = Len(stack[t]) /\ CalledFrom(fr, t, n, f.list)
  BY <1>1, <1>4, <1>5, TopFacts
<1>10. PICK y \in Slots : Inside(fr[y]) /\ fr[y].c = c
  <2>1. IsFiniteSet(InsidersOf(fr, c)) /\ Cardinality(InsidersOf(fr, c)) = 1
    BY <1>1, <1>3, <1>4 DEF BusyInv, B
  <2>2. InsidersOf(fr, c) # {}
    BY <2>1, CountFacts
  <2> QED BY <2>2 DEF InsidersOf, InsideOf
<1>11. PICK r \in Threads, m \in Nat \ {0} : y = <<r, m>>
  BY DEF Slots
<1>12. fr[y] # Gone /\ fr[y] \in FrameRec /\ FrameOK(fr[y])
  <2>1. fr[y] # Gone
    BY <1>10 DEF Inside, Gone
  <2> QED BY <1>4, <2>1 DEF StackInv, GoodFrame
<1>13. CASE r = t
  <2>1. m # Len(stack[t])
    BY <1>5, <1>10, <1>11, <1>13 DEF Inside
  <2>2. fr[<<t, m>>] = IF m <= Len(stack[t]) THEN stack[t][m] ELSE Gone
    BY <1>4, SlotFacts DEF TaInv, Stacks
  <2>3. m < Len(stack[t])
    BY <1>9, <1>11, <1>12, <1>13, <2>1, <2>2
  <2> QED BY <1>1, <1>3, <1>10, <1>11, <1>13, <2>3
<1>14. CASE r # t
  <2>1. ASSUME Single(c) PROVE FALSE
    <3>1. y \in LockersOf(fr, ctx)
      BY <1>10, <2>1 DEF LockersOf, Locks, Single
    <3>2. siThread = r
      BY <1>4, <1>11, <3>1 DEF LockInv
    <3> QED BY <1>1, <1>3, <1>14, <2>1, <3>2, NoneAssumption DEF SiLocked
  <2>2. siThread = t
    BY <1>1, <1>3, <2>1 DEF HasSi
  <2>3. ctx[c].uuid \notin SingleInstance /\ ctx[c].ref <= 1
    BY <2>1 DEF Single, OneSession
  <2>4. /\ IsFiniteSet(SessOf(sess, c)) /\ IsFiniteSet(DroppersOf(fr, c))
        /\ ctx[c].ref = Cardinality(SessOf(sess, c)) + Cardinality(DroppersOf(fr, c))
    BY <1>4 DEF CtxInv, CtxRefs
  <2>5. f.s \in SessOf(sess, c)
    BY <1>5, <1>8 DEF SessOf
  <2>6. /\ Cardinality(SessOf(sess, c)) \in Nat /\ Cardinality(SessOf(sess, c)) # 0
        /\ \A p, q \in SessOf(sess, c) : Cardinality(SessOf(sess, c)) = 1 => p = q
    BY <2>4, <2>5, CountFacts
  <2>7. /\ Cardinality(DroppersOf(fr, c)) \in Nat
        /\ (Cardinality(DroppersOf(fr, c)) = 0 <=> DroppersOf(fr, c) = {})
    BY <2>4, CountFacts
  <2>8. Cardinality(SessOf(sess, c)) = 1 /\ DroppersOf(fr, c) = {}
    BY <2>3, <2>4, <2>6, <2>7
  <2>9. HasRef(fr[y])
    <3>1. ~DropsOf(fr[y], c)
      BY <2>8 DEF DroppersOf
    <3> QED BY <1>10, <3>1 DEF DropsOf, HasRef, Inside
  <2>10. fr[y].s \in Sessions /\ sess[fr[y].s].ctx = c /\ sess[fr[y].s].list = fr[y].list
    BY <1>4, <1>10, <1>12, <2>9, NoneAssumption DEF SessInv, SessLinks, FrameOK, HasRef
  <2>11. fr[y].s = f.s
    <3>1. fr[y].s \in SessOf(sess, c)
      BY <2>10 DEF SessOf
    <3> QED BY <2>5, <2>6, <2>8, <3>1
  <2>12. fr[y].op = "open"
    <3>1. ASSUME fr[y].op # "open" PROVE FALSE
      <4>1. fr[y].op \in {"invoke", "close"}
        BY <1>10, <1>12, <3>1 DEF FrameRec, FrameOK, Ops, CancelPcs, Inside
      <4>2. HasLock(fr[y])
        BY <1>10, <2>9, <4>1 DEF HasLock, HasRef, Inside
      <4>3. sess[fr[y].s].lock = y[1]
        BY <1>4, <4>2 DEF LockedInv
      <4> QED BY <1>7, <1>11, <1>14, <2>11, <4>3
    <3> QED BY <3>1
  <2>13. fr[y].list = f.list
    BY <1>8, <2>10, <2>11
  <2>14. CASE f.list = Nsec
    <3>1. n = 1 /\ Len(stack[t]) = 1
      BY <1>4, <1>9, <2>14, FromNsec
    <3>2. siCount # 0
      BY <1>4, <2>2, NoneAssumption DEF LockInv
    <3>3. LockersOf(fr, ctx) # {}
      BY <1>4, <3>2, CountFacts DEF LockInv
    <3>4. PICK z \in LockersOf(fr, ctx) : TRUE
      BY <3>3
    <3>5. z \in Slots /\ Inside(fr[z]) /\ z[1] = t
      BY <1>4, <2>2, <3>4 DEF LockersOf, Locks, LockInv
    <3>6. PICK k \in Nat \ {0} : z = <<t, k>>
      BY <3>5 DEF Slots
    <3>7. fr[z] = IF k <= Len(stack[t]) THEN stack[t][k] ELSE Gone
      BY <1>4, <3>6, SlotFacts DEF TaInv, Stacks
    <3>8. fr[z] # Gone
      BY <3>5 DEF Inside, Gone
    <3>9. k = 1 /\ z = x
      BY <1>5, <3>1, <3>6, <3>7, <3>8
    <3> QED BY <1>5, <3>5, <3>9 DEF Inside
  <2>15. CASE f.list # Nsec
    <3>1. f.list \in Ctxs /\ fr[x] # Gone
      BY <1>5, <2>15 DEF FrameRec, Gone, Ops
    <3>2. n > 1 /\ fr[<<t, n - 1>>].pc \in {"run", "destroy"} /\ f.list = fr[<<t, n - 1>>].c
      BY <1>9, <2>15 DEF CalledFrom
    <3>3. PICK k \in Nat \ {0} : k = n - 1
      BY <3>2
    <3>4. fr[<<t, k>>].pc \in {"run", "destroy"} /\ fr[<<t, k>>].c \in Ctxs
      BY <3>1, <3>2, <3>3
    <3>5. fr[y].list = fr[<<t, k>>].c
      BY <2>13, <3>2, <3>3
    <3>6. y = <<t, k + 1>>
      BY <1>4, <1>12, <3>4, <3>5, SoleList
    <3> QED BY <1>11, <1>14, <3>6
  <2> QED BY <2>14, <2>15
<1> QED BY <1>13, <1>14

(* So where the calls go up in an order, tee_ta_set_busy does not panic.   *)
LEMMA SetBusyIsSafe ==
  ASSUME WaitInv, NEW R, CallOrder(R), CallInv(fr, sess, ctx, R), NEW t \in Threads,
         set_busy_fails(t)
  PROVE  Top(t).op = "open"
<1>1. /\ At(t, "busy") /\ ~SiLocked(t, Top(t).c) /\ HasSi(t, Top(t).c) /\ ctx[Top(t).c].busy
      /\ OneSession(ctx)
  BY DEF set_busy_fails, CallInv
<1>2. ASSUME Top(t).op # "open" PROVE FALSE
  <2>1. PICK n \in Nat \ {0} : n < Len(stack[t]) /\ fr[<<t, n>>].c = Top(t).c
    BY <1>1, <1>2, BusyIsReentry
  <2>2. /\ Top(t).pc = "busy" /\ FrameOK(Top(t)) /\ stack[t] # <<>> /\ TaInv
    BY <1>1, TopFrame
  <2>3. Top(t).c \in Ctxs
    BY <2>2 DEF FrameOK, EnteredPcs
  <2>4. PICK k \in Nat \ {0} : k = Len(stack[t]) /\ fr[<<t, k>>] = Top(t)
    BY <2>2, TopFacts
  <2>5. <<ctx[fr[<<t, n>>].c].uuid, ctx[fr[<<t, k>>].c].uuid>> \in R
    BY <2>1, <2>3, <2>4 DEF CallInv, CallsRise
  <2> QED BY <2>1, <2>4, <2>5 DEF CallOrder
<1> QED BY <1>2

-----------------------------------------------------------------------------
(* The actions.  First those that move no session and load no TA.          *)
LEMMA BecomesGood ==
  ASSUME TaInv, TaInv', NEW t \in Threads, stack[t] # <<>>, NEW g,
         Become(t, g) \/ (Return(t) /\ g = Gone)
  PROVE  Takes(t, Top(t), g)
<1>1. stack \in Stacks /\ stack' \in Stacks
  BY DEF TaInv, Stacks
<1>2. CASE Become(t, g)
  <2>1. stack[t] \in Seq(FrameRec) /\ Len(stack[t]) \in Nat \ {0}
    BY <1>1, SlotFacts
  <2>2. PICK q : q = SubSeq(stack[t], 1, Len(stack[t]) - 1)
    OBVIOUS
  <2>3. q \in Seq(FrameRec) /\ Len(q) \in Nat
    BY <2>1, <2>2
  <2>4. stack'[t] = Append(q, g)
    BY <1>1, <1>2, <2>2 DEF Become, Front, Stacks
  <2>5. Append(q, g) \in Seq(FrameRec)
    BY <1>1, <2>4 DEF Stacks
  <2>6. Append(q, g)[Len(q) + 1] = g /\ Len(Append(q, g)) = Len(q) + 1
    BY <2>3
  <2>7. g \in FrameRec
    BY <2>3, <2>5, <2>6
  <2> QED BY <1>2, <2>7, TakesLemma
<1>3. CASE Return(t) /\ g = Gone
  BY <1>3, TakesLemma
<1> QED BY <1>2, <1>3

SameLists == \A s \in Sessions : sess'[s].list = sess[s].list /\ sess'[s].ctx = sess[s].ctx
SameUuids == \A c \in Ctxs : ctx'[c].uuid = ctx[c].uuid /\ ctx'[c].ref = ctx[c].ref

LEMMA TopCalls ==
  ASSUME TaInv, TaInv', NEW R, CallOrder(R), CallInv(fr, sess, ctx, R), NEW t \in Threads,
         NEW pc, At(t, pc), NEW g, Become(t, g) \/ (Return(t) /\ g = Gone), g.pc # "init",
         g.c \in {Top(t).c, NoCtx}, UuidsStay, RefsStay, ListsStay
  PROVE  CallInv(fr', sess', ctx', R)
<1>1. stack[t] # <<>>
  BY DEF At
<1>2. PICK f : f = Top(t)
  OBVIOUS
<1>3. Takes(t, f, g)
  BY <1>1, <1>2, BecomesGood
<1>4. Follows(f, g)
  BY <1>2, NoneAssumption DEF Follows
<1> QED BY <1>3, <1>4, CallStepInv

LEMMA QuietCalls ==
  ASSUME TaInv, TaInv', NEW R, CallOrder(R), CallInv(fr, sess, ctx, R), NEW t \in Threads,
         NEW pc, At(t, pc), NEW g, Become(t, g) \/ (Return(t) /\ g = Gone), g.pc # "init",
         g.c \in {Top(t).c, NoCtx}, SameLists, SameUuids
  PROVE  CallInv(fr', sess', ctx', R)
<1>1. ctx \in [Ctxs -> CtxRec]
  BY DEF TaInv, AllInv, CtxInv
<1>2. \A c \in Ctxs : ctx[c].ref \in Nat
  BY <1>1 DEF CtxRec
<1>3. UuidsStay /\ RefsStay /\ ListsStay
  BY <1>2 DEF UuidsStay, RefsStay, ListsStay, SameLists, SameUuids
<1> QED BY <1>3, TopCalls

LEMMA SameCore ==
  /\ UNCHANGED ctx => SameUuids
  /\ UNCHANGED sess => SameLists
BY DEF SameUuids, SameLists

LEMMA GoneIsFree == Gone.pc # "init" /\ Gone.c = NoCtx
BY DEF Gone

LEMMA StillCalls ==
  ASSUME NEW R, CallInv(fr, sess, ctx, R), UNCHANGED <<stack, ctx, sess>>
  PROVE  CallInv(fr', sess', ctx', R)
<1>1. fr' = fr
  BY DEF fr
<1> QED BY <1>1

LEMMA FrameFields ==
  ASSUME NEW f \in FrameRec, NEW pc
  PROVE  [f EXCEPT !.pc = pc].pc = pc /\ [f EXCEPT !.pc = pc].c = f.c
BY DEF FrameRec

LEMMA FailsCalls ==
  ASSUME WaitInv, TaInv', NEW R, CallOrder(R), CallInv(fr, sess, ctx, R), NEW t \in Threads,
         init_session_fails(t) \/ get_session_fails(t)
  PROVE  CallInv(fr', sess', ctx', R)
<1>1. PICK pc : At(t, pc)
  BY DEF init_session_fails, get_session_fails
<1>2. Return(t) /\ UNCHANGED <<ctx, sess>> /\ TaInv
  BY DEF init_session_fails, get_session_fails, unchangedCore, WaitInv
<1>3. PICK g : g = Gone
  OBVIOUS
<1>4. g.pc # "init" /\ g.c \in {Top(t).c, NoCtx}
  BY <1>3, GoneIsFree
<1> QED BY <1>1, <1>2, <1>3, <1>4, SameCore, QuietCalls

LEMMA TaEndsCalls ==
  ASSUME WaitInv, TaInv', NEW R, CallOrder(R), CallInv(fr, sess, ctx, R), NEW t \in Threads,
         TaEnds(t)
  PROVE  CallInv(fr', sess', ctx', R)
<1>1. At(t, "run")
  BY DEF TaEnds, ta_returns, ta_panics
<1>2. PICK f : f = Top(t)
  OBVIOUS
<1>3. /\ TaInv /\ f \in FrameRec /\ f.c \in Ctxs /\ f.s \in Sessions
      /\ sess \in [Sessions -> SessRec] /\ ctx \in [Ctxs -> CtxRec]
  BY <1>1, <1>2, TopFrame DEF FrameOK, EnteredPcs
<1>4. PICK ok \in BOOLEAN : Become(t, AfterRun(f, ok))
  BY <1>2, Zenon DEF TaEnds, ta_returns, ta_panics
<1>5. PICK g : g = AfterRun(f, ok)
  OBVIOUS
<1>6. g.pc # "init" /\ g.c = f.c
  BY <1>3, <1>5 DEF AfterRun, FrameRec
<1>7. sess' = [sess EXCEPT ![f.s].cancel = FALSE]
      /\ (ctx' = ctx \/ ctx' = [ctx EXCEPT ![f.c].panicked = TRUE])
  BY <1>2 DEF TaEnds, ta_returns, ta_panics
<1>8. SameLists
  BY <1>3, <1>7 DEF SameLists, SessRec
<1>9. SameUuids
  BY <1>3, <1>7 DEF SameUuids, CtxRec
<1> QED BY <1>1, <1>2, <1>3, <1>4, <1>5, <1>6, <1>8, <1>9, QuietCalls

LEMMA OpenEntryCalls ==
  ASSUME WaitInv, TaInv', NEW R, CallOrder(R), CallInv(fr, sess, ctx, R), NEW t \in Threads,
         open_entry(t)
  PROVE  CallInv(fr', sess', ctx', R)
<1>1. At(t, "entry") /\ UNCHANGED ctx
  BY DEF open_entry
<1>2. PICK f : f = Top(t)
  OBVIOUS
<1>3. TaInv /\ f \in FrameRec /\ f.s \in Sessions /\ sess \in [Sessions -> SessRec]
  BY <1>1, <1>2, TopFrame DEF FrameOK
<1>4. PICK g : Become(t, g) /\ g \in {[CloseKern(f.s, f.list) EXCEPT !.held = TRUE],
                                      [f EXCEPT !.pc = "busy"]}
  BY <1>2 DEF open_entry, Goto
<1>5. g.pc # "init" /\ g.c \in {f.c, NoCtx}
  BY <1>3, <1>4 DEF FrameRec, CloseKern, Frame
<1>6. sess' = sess \/ sess' = [sess EXCEPT ![f.s].clnt = ClientOf(f.list)]
  BY <1>2 DEF open_entry
<1>7. SameLists
  BY <1>3, <1>6 DEF SameLists, SessRec
<1> QED BY <1>1, <1>2, <1>3, <1>4, <1>5, <1>7, SameCore, QuietCalls

LEMMA SetBusyCalls ==
  ASSUME WaitInv, TaInv', NEW R, CallOrder(R), CallInv(fr, sess, ctx, R), NEW t \in Threads,
         set_busy(t) \/ clear_busy(t)
  PROVE  CallInv(fr', sess', ctx', R)
<1>1. PICK pc \in {"busy", "clear"} : At(t, pc)
  BY DEF set_busy, clear_busy
<1>2. PICK f : f = Top(t)
  OBVIOUS
<1>3. TaInv /\ f \in FrameRec /\ f.c \in Ctxs /\ ctx \in [Ctxs -> CtxRec] /\ FrameOK(f)
  BY <1>1, <1>2, TopFrame DEF FrameOK, EnteredPcs
<1>4. PICK to : Become(t, [f EXCEPT !.pc = to]) /\ to # "init"
  <2>1. CASE set_busy(t)
    <3>1. PICK to : to = IF f.op = "close" THEN "closing" ELSE "run"
      OBVIOUS
    <3>2. to # "init"
      BY <3>1
    <3> QED BY <1>2, <2>1, <3>1, <3>2 DEF set_busy, Goto
  <2>2. CASE clear_busy(t)
    <3>1. f.pc = "clear" /\ f.op \in {"open", "invoke", "close"}
      BY <1>2, <1>3, <2>2 DEF clear_busy, At, FrameRec, FrameOK, Ops, CancelPcs
    <3>2. PICK to : to = CASE f.op = "open" -> "opened" [] f.op = "invoke" -> "put"
                           [] f.op = "close" -> "deref"
      OBVIOUS
    <3>3. to # "init"
      BY <3>1, <3>2
    <3> QED BY <1>2, <2>2, <3>2, <3>3 DEF clear_busy, Goto
  <2> QED BY <2>1, <2>2
<1>5. PICK g : g = [f EXCEPT !.pc = to]
  OBVIOUS
<1>6. g.pc # "init" /\ g.c = f.c
  BY <1>3, <1>4, <1>5, FrameFields
<1>7. UNCHANGED sess /\ \E b \in BOOLEAN : ctx' = [ctx EXCEPT ![f.c].busy = b]
  BY <1>2 DEF set_busy, clear_busy
<1>8. SameUuids
  BY <1>3, <1>7 DEF SameUuids, CtxRec
<1> QED BY <1>1, <1>2, <1>3, <1>4, <1>5, <1>6, <1>7, <1>8, SameCore, QuietCalls

LEMMA BusyFailsCalls ==
  ASSUME WaitInv, TaInv', NEW R, CallOrder(R), CallInv(fr, sess, ctx, R), NEW t \in Threads,
         set_busy_fails(t)
  PROVE  CallInv(fr', sess', ctx', R) /\ UNCHANGED crashed
<1>1. Top(t).op = "open"
  BY SetBusyIsSafe
<1>2. At(t, "busy") /\ UNCHANGED <<ctx, sess, crashed>>
  BY <1>1 DEF set_busy_fails
<1>3. PICK f : f = Top(t)
  OBVIOUS
<1>4. TaInv /\ f \in FrameRec
  BY <1>2, <1>3, TopFrame
<1>5. PICK g : g = [f EXCEPT !.pc = "opened", !.bad = TRUE]
  OBVIOUS
<1>6. Become(t, g)
  BY <1>1, <1>3, <1>5 DEF set_busy_fails
<1>7. g.pc # "init" /\ g.c = f.c
  BY <1>4, <1>5 DEF FrameRec
<1> QED BY <1>2, <1>3, <1>4, <1>6, <1>7, SameCore, QuietCalls

LEMMA ChecksCalls ==
  ASSUME WaitInv, TaInv', NEW R, CallOrder(R), CallInv(fr, sess, ctx, R), NEW t \in Threads,
         open_checks_panic(t) \/ close_entry(t)
  PROVE  CallInv(fr', sess', ctx', R)
<1>1. PICK pc \in {"opened", "closing"} : At(t, pc)
  BY DEF open_checks_panic, close_entry
<1>2. PICK f : f = Top(t)
  OBVIOUS
<1>3. TaInv /\ f \in FrameRec /\ UNCHANGED <<ctx, sess>>
  BY <1>1, <1>2, TopFrame DEF open_checks_panic, close_entry, unchangedCore
<1>4. PICK g : /\ Become(t, g)
               /\ g \in {[f EXCEPT !.pc = "put", !.bad = @ \/ ctx[f.c].panicked],
                         [f EXCEPT !.pc = "unlink"], [f EXCEPT !.pc = "run"]}
  BY <1>2 DEF open_checks_panic, close_entry, Goto
<1>5. g.pc # "init" /\ g.c = f.c
  BY <1>3, <1>4 DEF FrameRec
<1> QED BY <1>1, <1>2, <1>3, <1>4, <1>5, SameCore, QuietCalls

LEMMA PutCalls ==
  ASSUME WaitInv, TaInv', NEW R, CallOrder(R), CallInv(fr, sess, ctx, R), NEW t \in Threads,
         put_session(t)
  PROVE  CallInv(fr', sess', ctx', R)
<1>1. At(t, "put") /\ UNCHANGED ctx
  BY DEF put_session
<1>2. PICK f : f = Top(t)
  OBVIOUS
<1>3. TaInv /\ f \in FrameRec /\ f.s \in Sessions /\ sess \in [Sessions -> SessRec]
  BY <1>1, <1>2, TopFrame DEF FrameOK
<1>4. PICK g : g = IF f.op = "open" /\ f.bad THEN CloseKern(f.s, f.list) ELSE Gone
  OBVIOUS
<1>5. Become(t, g) \/ (Return(t) /\ g = Gone)
  BY <1>2, <1>4 DEF put_session
<1>6. g.pc # "init" /\ g.c = NoCtx
  BY <1>4, GoneIsFree DEF CloseKern, Frame
<1>7. PICK l : sess' = DecRef([sess EXCEPT ![f.s].lock = l], f.s)
  BY <1>2 DEF put_session
<1>8. SameLists
  BY <1>3, <1>7 DEF SameLists, DecRef, SessRec
<1> QED BY <1>1, <1>2, <1>3, <1>5, <1>6, <1>8, SameCore, QuietCalls

LEMMA GetCalls ==
  ASSUME WaitInv, TaInv', NEW R, CallOrder(R), CallInv(fr, sess, ctx, R), NEW t \in Threads,
         get_session(t) \/ get_session_wakes(t)
  PROVE  CallInv(fr', sess', ctx', R)
<1>1. PICK pc \in {"get", "getwait"} : At(t, pc)
  BY DEF get_session, get_session_wakes
<1>2. PICK f : f = Top(t)
  OBVIOUS
<1>3. /\ TaInv /\ f \in FrameRec /\ f.s \in Sessions /\ sess \in [Sessions -> SessRec]
      /\ UNCHANGED ctx
  BY <1>1, <1>2, TopFrame DEF FrameOK, get_session, get_session_wakes
<1>4. CASE get_session(t)
  <2>1. PICK g : Become(t, g) /\ g \in {[f EXCEPT !.pc = "getwait"], [f EXCEPT !.pc = "check"]}
    BY <1>2, <1>4 DEF get_session, Goto
  <2>2. g.pc # "init" /\ g.c = f.c
    BY <1>3, <2>1 DEF FrameRec
  <2>3. PICK k, l : sess' = [sess EXCEPT ![f.s].ref = k, ![f.s].lock = l]
    BY <1>2, <1>4 DEF get_session
  <2>4. SameLists
    BY <1>3, <2>3 DEF SameLists, SessRec
  <2> QED BY <1>1, <1>2, <1>3, <2>1, <2>2, <2>4, SameCore, QuietCalls
<1>5. CASE get_session_wakes(t)
  <2>1. CASE UNCHANGED <<sess, stack>>
    BY <1>3, <2>1, StillCalls
  <2>2. CASE sess' = DecRef(sess, f.s) /\ Return(t)
    <3>1. PICK g : g = Gone
      OBVIOUS
    <3>2. g.pc # "init" /\ g.c = NoCtx
      BY <3>1, GoneIsFree
    <3>3. SameLists
      BY <1>3, <2>2 DEF SameLists, DecRef, SessRec
    <3> QED BY <1>1, <1>2, <1>3, <2>2, <3>1, <3>2, <3>3, SameCore, QuietCalls
  <2>3. CASE sess' = [sess EXCEPT ![f.s].lock = t] /\ Goto(t, "check")
    <3>1. PICK g : g = [f EXCEPT !.pc = "check"]
      OBVIOUS
    <3>2. Become(t, g) /\ g.pc # "init" /\ g.c = f.c
      BY <1>2, <1>3, <2>3, <3>1 DEF Goto, FrameRec
    <3>3. SameLists
      BY <1>3, <2>3 DEF SameLists, SessRec
    <3> QED BY <1>1, <1>2, <1>3, <3>2, <3>3, SameCore, QuietCalls
  <2> QED BY <1>2, <1>5, <2>1, <2>2, <2>3 DEF get_session_wakes
<1> QED BY <1>4, <1>5

(* tee_ta_unlink_session frees a session, which is in no list then.        *)
LEMMA UnlinkCalls ==
  ASSUME WaitInv, TaInv', NEW R, CallOrder(R), CallInv(fr, sess, ctx, R), NEW t \in Threads,
         unlink_session(t)
  PROVE  CallInv(fr', sess', ctx', R)
<1>1. PICK pc \in {"unlink", "unlinkwait"} : At(t, pc)
  BY DEF unlink_session
<1>2. PICK f : f = Top(t)
  OBVIOUS
<1>3. /\ TaInv /\ f \in FrameRec /\ f.s \in Sessions /\ sess \in [Sessions -> SessRec]
      /\ UNCHANGED ctx
  BY <1>1, <1>2, TopFrame DEF FrameOK, unlink_session
<1>4. PICK g : Become(t, g) /\ g \in {[f EXCEPT !.pc = "clear"], [f EXCEPT !.pc = "unlinkwait"]}
  BY <1>2 DEF unlink_session, Goto
<1>5. g.pc # "init" /\ g.c = f.c
  BY <1>3, <1>4 DEF FrameRec
<1>6. \/ sess' = [sess EXCEPT ![f.s] = FreeSess]
      \/ sess' = [sess EXCEPT ![f.s].unlink = TRUE]
  BY <1>2 DEF unlink_session
<1>7. ListsStay
  BY <1>3, <1>6, NoneAssumption DEF ListsStay, SessRec, FreeSess
<1>8. \A c \in Ctxs : ctx[c].ref \in Nat
  BY <1>1, TopFrame DEF CtxRec
<1>9. UuidsStay /\ RefsStay
  BY <1>3, <1>8 DEF UuidsStay, RefsStay
<1> QED BY <1>1, <1>2, <1>3, <1>4, <1>5, <1>7, <1>9, TopCalls

(* The contexts that closes drop and destroy.                              *)
LEMMA DropCalls ==
  ASSUME WaitInv, TaInv', NEW R, CallOrder(R), CallInv(fr, sess, ctx, R), NEW t \in Threads,
         drop_context(t)
  PROVE  CallInv(fr', sess', ctx', R)
<1>1. At(t, "deref") /\ UNCHANGED sess
  BY DEF drop_context
<1>2. PICK f : f = Top(t)
  OBVIOUS
<1>3. TaInv /\ f \in FrameRec /\ f.c \in Ctxs /\ ctx \in [Ctxs -> CtxRec]
  BY <1>1, <1>2, TopFrame DEF FrameOK, EnteredPcs
<1>4. PICK g : /\ Become(t, g) \/ (Return(t) /\ g = Gone)
               /\ g \in {[f EXCEPT !.pc = "destroy"], Gone}
  BY <1>2 DEF drop_context, Goto
<1>5. g.pc # "init" /\ g.c \in {f.c, NoCtx}
  BY <1>3, <1>4, GoneIsFree DEF FrameRec
<1>6. PICK l : ctx' = [ctx EXCEPT ![f.c].ref = @ - 1, ![f.c].linked = l]
  BY <1>2 DEF drop_context
<1>7. \A c \in Ctxs : /\ ctx'[c].uuid = ctx[c].uuid /\ ctx[c].ref \in Nat
                      /\ ctx'[c].ref \in {ctx[c].ref, ctx[c].ref - 1}
  BY <1>3, <1>6 DEF CtxRec
<1>8. UuidsStay /\ RefsStay
  BY <1>7 DEF UuidsStay, RefsStay
<1>9. ListsStay
  BY <1>1 DEF ListsStay
<1> QED BY <1>1, <1>2, <1>3, <1>4, <1>5, <1>8, <1>9, TopCalls

LEMMA DestroyCalls ==
  ASSUME WaitInv, TaInv', NEW R, CallOrder(R), CallInv(fr, sess, ctx, R), NEW t \in Threads,
         ctx_destroy(t)
  PROVE  CallInv(fr', sess', ctx', R)
<1>1. At(t, "destroy") /\ UNCHANGED sess
  BY DEF ctx_destroy
<1>2. PICK f : f = Top(t)
  OBVIOUS
<1>3. TaInv /\ f \in FrameRec /\ f.c \in Ctxs /\ ctx \in [Ctxs -> CtxRec]
  BY <1>1, <1>2, TopFrame DEF FrameOK, EnteredPcs
<1>4. ListsStay /\ \A c \in Ctxs : ctx[c].ref \in Nat
  BY <1>1, <1>3 DEF ListsStay, CtxRec
<1>5. ASSUME NEW s \in Sessions, Push(t, CloseKern(s, f.c)), UNCHANGED ctx
      PROVE  CallInv(fr', sess', ctx', R)
  <2>1. PICK g : g = CloseKern(s, f.c)
    OBVIOUS
  <2>2. g \in FrameRec /\ g.pc = "get" /\ g.c = NoCtx
    BY <1>3, <2>1, CloseKernFacts DEF CloseKern, Frame
  <2>3. Takes(t, Gone, g)
    BY <1>3, <1>5, <2>1, <2>2, TakesLemma
  <2>4. PICK h : h = Gone
    OBVIOUS
  <2>5. Takes(t, h, g) /\ Follows(h, g)
    BY <2>2, <2>3, <2>4, NoneAssumption DEF Follows
  <2>6. UuidsStay /\ RefsStay
    BY <1>4, <1>5 DEF UuidsStay, RefsStay
  <2> QED BY <1>3, <1>4, <2>5, <2>6, CallStepInv
<1>6. ASSUME Return(t), ctx' = [ctx EXCEPT ![f.c] = FreeCtx] PROVE CallInv(fr', sess', ctx', R)
  <2>1. PICK g : g = Gone
    OBVIOUS
  <2>2. g.pc # "init" /\ g.c = NoCtx
    BY <2>1, GoneIsFree
  <2>3. UuidsStay /\ RefsStay
    BY <1>3, <1>4, <1>6 DEF UuidsStay, RefsStay, FreeCtx
  <2> QED BY <1>1, <1>2, <1>3, <1>4, <1>6, <2>1, <2>2, <2>3, TopCalls
<1> QED BY <1>2, <1>5, <1>6 DEF ctx_destroy

(* A call that found its session enters the TA the session leads to.       *)
LEMMA CheckCalls ==
  ASSUME WaitInv, TaInv', NEW R, CallOrder(R), CallInv(fr, sess, ctx, R), NEW t \in Threads,
         check_call(t)
  PROVE  CallInv(fr', sess', ctx', R)
<1>1. At(t, "check") /\ UNCHANGED ctx
  BY DEF check_call
<1>2. PICK f : f = Top(t)
  OBVIOUS
<1>3. /\ TaInv /\ f \in FrameRec /\ FrameOK(f) /\ f.s \in Sessions /\ f.pc = "check"
      /\ stack[t] # <<>> /\ sess \in [Sessions -> SessRec] /\ ctx \in [Ctxs -> CtxRec]
  BY <1>1, <1>2, TopFrame DEF FrameOK
<1>4. sess' = sess \/ \E b : sess' = [sess EXCEPT ![f.s].cancel = b]
  BY <1>2 DEF check_call
<1>5. SameLists /\ SameUuids
  <2>1. ASSUME NEW b, sess' = [sess EXCEPT ![f.s].cancel = b] PROVE SameLists
    BY <1>3, <2>1 DEF SameLists, SessRec
  <2> QED BY <1>1, <1>4, <2>1, SameCore
<1>6. CASE Become(t, [f EXCEPT !.pc = "put"])
  <2>1. PICK g : g = [f EXCEPT !.pc = "put"]
    OBVIOUS
  <2>2. g.pc # "init" /\ g.c = f.c
    BY <1>3, <2>1, FrameFields
  <2> QED BY <1>1, <1>2, <1>3, <1>5, <1>6, <2>1, <2>2, QuietCalls
<1>7. CASE Become(t, [f EXCEPT !.pc = "busy", !.c = sess[f.s].ctx])
  <2>1. PICK g : g = [f EXCEPT !.pc = "busy", !.c = sess[f.s].ctx]
    OBVIOUS
  <2>2. g.pc = "busy" /\ g.c = sess[f.s].ctx /\ g.list = f.list
    BY <1>3, <2>1 DEF FrameRec
  <2>3. Takes(t, f, g)
    BY <1>2, <1>3, <1>7, <2>1, BecomesGood
  <2>4. HasRef(f)
    BY <1>3 DEF HasRef
  <2>5. sess[f.s].list = f.list
    BY <1>2, <1>3, <2>4, TopFacts
  <2>6. f.list \in Ctxs => <<ctx[f.list].uuid, ctx[sess[f.s].ctx].uuid>> \in Calls
    BY <1>3, <2>5 DEF CallInv, ListsFollow
  <2>7. Follows(f, g)
    BY <1>1, <2>2, <2>6 DEF Follows
  <2>8. \A c \in Ctxs : ctx[c].ref \in Nat
    BY <1>3 DEF CtxRec
  <2>9. UuidsStay /\ RefsStay /\ ListsStay
    BY <1>1, <1>5, <2>8 DEF UuidsStay, RefsStay, ListsStay, SameLists
  <2> QED BY <1>3, <2>3, <2>7, <2>9, CallStepInv
<1> QED BY <1>2, <1>6, <1>7 DEF check_call, Goto

(* tee_ta_init_session: the new session leads to the TA that was asked     *)
(* for.                                                                    *)
LEMMA NewSessionCalls ==
  ASSUME WaitInv, TaInv', NEW R, CallOrder(R), CallInv(fr, sess, ctx, R), NEW t \in Threads,
         At(t, "init"), NEW s \in Sessions, NEW c \in Ctxs, NewSession(t, s, c),
         NEW d, ctx' = [ctx EXCEPT ![c] = d], d.uuid = Top(t).u,
         ctx[c].uuid \in {NoUuid, Top(t).u}, d.uuid \in SingleInstance \/ d.ref <= 1
  PROVE  CallInv(fr', sess', ctx', R)
<1>1. PICK f : f = Top(t)
  OBVIOUS
<1>2. /\ TaInv /\ f \in FrameRec /\ FrameOK(f) /\ f.pc = "init"
      /\ stack[t] # <<>> /\ sess \in [Sessions -> SessRec] /\ ctx \in [Ctxs -> CtxRec]
  BY <1>1, TopFrame
<1>3. PICK g : g = [f EXCEPT !.pc = "entry", !.s = s, !.c = c]
  OBVIOUS
<1>4. Become(t, g)
  BY <1>1, <1>3 DEF NewSession
<1>5. g.pc = "entry" /\ g.c = c /\ g.list = f.list
  BY <1>2, <1>3 DEF FrameRec
<1>6. Takes(t, f, g)
  BY <1>1, <1>2, <1>4, BecomesGood
<1>7. ctx'[c] = d /\ \A e \in Ctxs \ {c} : ctx'[e] = ctx[e]
  BY <1>2
<1>8. f.list \in Ctxs => <<ctx[f.list].uuid, f.u>> \in Calls /\ ctx[f.list].uuid # NoUuid
  <2>1. PICK x \in Slots : fr[x] = f
    BY <1>1, <1>2, TopFacts
  <2>2. f.list \in Ctxs => <<ctx[f.list].uuid, f.u>> \in Calls
    BY <1>2, <2>1 DEF CallInv, OpensFollow
  <2>3. f.list \in Ctxs => ctx[f.list].uuid # NoUuid
    BY <1>2, <2>1, InUse DEF UsedCtxs
  <2> QED BY <2>2, <2>3
<1>9. UuidsStay
  BY <1>1, <1>7 DEF UuidsStay
<1>10. \A e \in Ctxs : ctx[e].ref \in Nat
  BY <1>2 DEF CtxRec
<1>11. RefsStay
  BY <1>7, <1>10 DEF RefsStay
<1>12. f.list \in Ctxs => <<ctx'[f.list].uuid, ctx'[c].uuid>> \in Calls
  BY <1>1, <1>7, <1>8
<1>13. Follows(f, g)
  BY <1>5, <1>12 DEF Follows
<1>14. sess' = [sess EXCEPT ![s] = [FreeSess EXCEPT !.ctx = c, !.list = f.list, !.ref = 1]]
  BY <1>1 DEF NewSession
<1>15. /\ sess'[s].list = f.list /\ sess'[s].ctx = c
       /\ \A r \in Sessions \ {s} : sess'[r] = sess[r]
  BY <1>2, <1>14 DEF FreeSess
<1>16. ListsStay
  BY <1>12, <1>15 DEF ListsStay
<1> QED BY <1>2, <1>6, <1>9, <1>11, <1>13, <1>16, CallStepInv

LEMMA InitCalls ==
  ASSUME WaitInv, TaInv', NEW R, CallOrder(R), CallInv(fr, sess, ctx, R), NEW t \in Threads,
         NEW s \in Sessions, \/ init_session_with_context(t, s)
                             \/ \E c \in Ctxs : init_ta_session(t, s, c)
  PROVE  CallInv(fr', sess', ctx', R)
<1>1. ctx \in [Ctxs -> CtxRec]
  BY DEF WaitInv, TaInv, AllInv, CtxInv
<1>2. CASE init_session_with_context(t, s)
  <2>1. PICK c \in Ctxs : /\ ctx[c].uuid = Top(t).u /\ NewSession(t, s, c)
                          /\ ctx' = [ctx EXCEPT ![c].ref = @ + 1]
    BY <1>2 DEF init_session_with_context, Loaded
  <2>2. At(t, "init") /\ Top(t).u \in SingleInstance
    BY <1>2 DEF init_session_with_context
  <2>3. PICK d : d = [ctx[c] EXCEPT !.ref = @ + 1]
    OBVIOUS
  <2>4. ctx' = [ctx EXCEPT ![c] = d] /\ d.uuid = Top(t).u
    BY <1>1, <2>1, <2>3 DEF CtxRec
  <2> QED BY <2>1, <2>2, <2>4, NewSessionCalls
<1>3. ASSUME NEW c \in Ctxs, init_ta_session(t, s, c) PROVE CallInv(fr', sess', ctx', R)
  <2>1. PICK d : d = NewContext(Top(t).u)
    OBVIOUS
  <2>2. /\ At(t, "init") /\ NewSession(t, s, c) /\ ctx[c] = FreeCtx
        /\ ctx' = [ctx EXCEPT ![c] = d]
    BY <1>3, <2>1 DEF init_ta_session
  <2>3. d.uuid = Top(t).u /\ d.ref <= 1 /\ ctx[c].uuid = NoUuid
    BY <2>1, <2>2 DEF NewContext, FreeCtx
  <2> QED BY <2>2, <2>3, NewSessionCalls
<1> QED BY <1>2, <1>3

(* A TA asks for the TAs it may call.                                      *)
LEMMA CallCalls ==
  ASSUME WaitInv, TaInv', NEW R, CallOrder(R), CallInv(fr, sess, ctx, R), NEW t \in Threads,
         Call(t)
  PROVE  CallInv(fr', sess', ctx', R)
<1>1. TaInv /\ QueueInv /\ ctx \in [Ctxs -> CtxRec]
  BY DEF WaitInv, TaInv, AllInv, CtxInv
<1>2. PICK list : list = Caller(t)
  OBVIOUS
<1>3. /\ \/ stack[t] = <<>> /\ list = Nsec
         \/ stack[t] # <<>> /\ At(t, "run") /\ Top(t).pc \in {"run", "destroy"} /\ list = Top(t).c
      /\ UNCHANGED <<ctx, sess>>
  BY <1>2 DEF Call, open_session, invoke_command, close_session, entry_cancel, CanCall, At,
              Caller, unchangedCore
<1>4. list \in Ctxs \cup {Nsec}
  BY <1>1, <1>3, CallerFacts
<1>5. \A c \in Ctxs : ctx[c].ref \in Nat
  BY <1>1 DEF CtxRec
<1>6. UuidsStay /\ RefsStay /\ ListsStay
  BY <1>3, <1>5 DEF UuidsStay, RefsStay, ListsStay
<1>7. ASSUME NEW g \in FrameRec, Push(t, g), g.c = NoCtx, g.list = list,
             g.pc = "init" /\ list # Nsec => <<ctx[list].uuid, g.u>> \in Calls
      PROVE  CallInv(fr', sess', ctx', R)
  <2>1. PICK h : h = Gone
    OBVIOUS
  <2>2. Takes(t, h, g)
    BY <1>1, <1>7, <2>1, TakesLemma
  <2>3. Follows(h, g)
    BY <1>3, <1>7, NoneAssumption DEF Follows
  <2> QED BY <1>1, <1>6, <2>2, <2>3, CallStepInv
<1>8. ASSUME NEW u \in Uuids, open_session(t, u) PROVE CallInv(fr', sess', ctx', R)
  <2>1. PICK g : g = Frame("open", "init", u, NoSess, list, FALSE)
    OBVIOUS
  <2>2. g \in FrameRec /\ g.c = NoCtx /\ g.list = list /\ g.u = u
    BY <1>4, <2>1 DEF Frame, FrameRec, Ops, PCs
  <2>3. Push(t, g) /\ (list # Nsec => <<ctx[list].uuid, u>> \in Calls)
    BY <1>2, <1>8, <2>1 DEF open_session
  <2> QED BY <1>7, <2>2, <2>3
<1>9. ASSUME NEW s \in Sessions, NEW op \in {"invoke", "close", "cancel"},
             Push(t, Frame(op, "get", NoUuid, s, list, FALSE))
      PROVE  CallInv(fr', sess', ctx', R)
  <2>1. PICK g : g = Frame(op, "get", NoUuid, s, list, FALSE)
    OBVIOUS
  <2>2. g \in FrameRec /\ g.c = NoCtx /\ g.list = list /\ g.pc = "get"
    BY <1>4, <2>1 DEF Frame, FrameRec, Ops, PCs
  <2> QED BY <1>7, <1>9, <2>1, <2>2
<1>10. ASSUME NEW s \in Sessions,
              invoke_command(t, s) \/ close_session(t, s) \/ entry_cancel(t, s)
       PROVE  CallInv(fr', sess', ctx', R)
  <2>1. PICK op \in {"invoke", "close", "cancel"} : Push(t, Frame(op, "get", NoUuid, s, list, FALSE))
    BY <1>2, <1>10 DEF invoke_command, close_session, entry_cancel, Caller
  <2> QED BY <1>9, <2>1
<1> QED BY <1>8, <1>10 DEF Call

-----------------------------------------------------------------------------
LEMMA InitPanicInv ==
  ASSUME NEW R
  PROVE  Init => PanicInv(R)
<1> SUFFICES ASSUME Init PROVE PanicInv(R)
  OBVIOUS
<1>1. WaitInv /\ ~crashed
  BY InitWaitInv DEF Init
<1>2. ASSUME NEW x \in Slots PROVE fr[x] = Gone
  <2>1. PICK t \in Threads, n \in Nat \ {0} : x = <<t, n>>
    BY DEF Slots
  <2>2. stack[t] = <<>> /\ Len(stack[t]) = 0
    BY DEF Init
  <2>3. ~(x[2] <= Len(stack[x[1]]))
    BY <2>1, <2>2
  <2> QED BY <2>3 DEF fr
<1>3. ListsFollow(sess, ctx)
  BY NoneAssumption DEF Init, FreeSess, ListsFollow
<1>4. OpensFollow(fr, ctx)
  BY <1>2, GoneIsFree DEF OpensFollow
<1>5. OneSession(ctx)
  BY DEF Init, FreeCtx, OneSession
<1>6. CallsRise(fr, ctx, R)
  <2>1. \A t \in Threads, j \in Nat \ {0} : fr[<<t, j>>].c = NoCtx
    BY <1>2, GoneIsFree DEF Slots
  <2> QED BY <2>1, NoneAssumption DEF CallsRise
<1> QED BY <1>1, <1>3, <1>4, <1>5, <1>6 DEF PanicInv, CallInv

LEMMA NextPanicInv ==
  ASSUME NEW R, CallOrder(R)
  PROVE  PanicInv(R) /\ [Next]_vars => PanicInv(R)'
<1> SUFFICES ASSUME PanicInv(R), [Next]_vars PROVE PanicInv(R)'
  OBVIOUS
<1>1. WaitInv /\ CallInv(fr, sess, ctx, R) /\ ~crashed
  BY DEF PanicInv
<1>2. WaitInv'
  BY <1>1, NextWaitInv
<1>3. TaInv'
  BY <1>2 DEF WaitInv
<1>4. SUFFICES CallInv(fr', sess', ctx', R) /\ crashed' = crashed
  BY <1>1, <1>2 DEF PanicInv
<1>5. CASE UNCHANGED vars
  BY <1>1, <1>5, StillCalls DEF vars
<1>6. ASSUME NEW t \in Threads, Call(t) PROVE CallInv(fr', sess', ctx', R) /\ crashed' = crashed
  <2>1. crashed' = crashed
    BY <1>6 DEF Call, open_session, invoke_command, close_session, entry_cancel, unchangedCore
  <2> QED BY <1>1, <1>3, <1>6, <2>1, CallCalls
<1>7. ASSUME NEW t \in Threads, TaEnds(t) PROVE CallInv(fr', sess', ctx', R) /\ crashed' = crashed
  <2>1. crashed' = crashed
    BY <1>7 DEF TaEnds, ta_returns, ta_panics
  <2> QED BY <1>1, <1>3, <1>7, <2>1, TaEndsCalls
<1>8. ASSUME NEW t \in Threads, Run(t) PROVE CallInv(fr', sess', ctx', R) /\ crashed' = crashed
  <2>1. CASE set_busy_fails(t)
    BY <1>1, <1>3, <2>1, BusyFailsCalls
  <2>2. CASE ~set_busy_fails(t)
    <3>1. crashed' = crashed
      BY <1>8, <2>2 DEF Run, init_session_with_context, init_ta_session, NewSession,
           init_session_fails, open_entry, set_busy_waits, set_busy, clear_busy, open_checks_panic,
           put_session, get_session_fails, get_session, get_session_wakes, check_call, close_entry,
           unlink_session, drop_context, ctx_destroy, unchangedCore
    <3>2. ASSUME NEW s \in Sessions, init_session_with_context(t, s)
          PROVE  CallInv(fr', sess', ctx', R)
      BY <1>1, <1>3, <3>2, InitCalls
    <3>3. ASSUME NEW s \in Sessions, NEW c \in Ctxs, init_ta_session(t, s, c)
          PROVE  CallInv(fr', sess', ctx', R)
      BY <1>1, <1>3, <3>3, InitCalls
    <3>4. CASE init_session_fails(t) \/ get_session_fails(t)
      BY <1>1, <1>3, <3>1, <3>4, FailsCalls
    <3>5. CASE open_entry(t)
      BY <1>1, <1>3, <3>1, <3>5, OpenEntryCalls
    <3>6. CASE set_busy_waits(t)
      <4>1. UNCHANGED <<stack, ctx, sess>>
        BY <3>6 DEF set_busy_waits
      <4> QED BY <1>1, <3>1, <4>1, StillCalls
    <3>7. CASE set_busy(t) \/ clear_busy(t)
      BY <1>1, <1>3, <3>1, <3>7, SetBusyCalls
    <3>8. CASE open_checks_panic(t) \/ close_entry(t)
      BY <1>1, <1>3, <3>1, <3>8, ChecksCalls
    <3>9. CASE put_session(t)
      BY <1>1, <1>3, <3>1, <3>9, PutCalls
    <3>10. CASE get_session(t) \/ get_session_wakes(t)
      BY <1>1, <1>3, <3>1, <3>10, GetCalls
    <3>11. CASE check_call(t)
      BY <1>1, <1>3, <3>1, <3>11, CheckCalls
    <3>12. CASE unlink_session(t)
      BY <1>1, <1>3, <3>1, <3>12, UnlinkCalls
    <3>13. CASE drop_context(t)
      BY <1>1, <1>3, <3>1, <3>13, DropCalls
    <3>14. CASE ctx_destroy(t)
      BY <1>1, <1>3, <3>1, <3>14, DestroyCalls
    <3> QED BY <1>8, <2>2, <3>1, <3>2, <3>3, <3>4, <3>5, <3>6, <3>7, <3>8, <3>9, <3>10, <3>11,
               <3>12, <3>13, <3>14 DEF Run
  <2> QED BY <2>1, <2>2
<1> QED BY <1>5, <1>6, <1>7, <1>8 DEF Next, vars

(* The core does not panic: where no TA can be reached from itself through *)
(* the sessions TAs open to each other (Calls is part of a strict order),  *)
(* no tee_ta_set_busy finds out that waiting for a busy TA would be a      *)
(* deadlock, and no assert() fails, whatever the flags of the TAs, however *)
(* many threads, and whichever TAs panic.                                  *)
THEOREM CoreDoesNotPanic ==
  ASSUME NEW R, CallOrder(R)
  PROVE  Spec => []NoCorePanic
<1>1. Init => PanicInv(R)
  BY InitPanicInv
<1>2. PanicInv(R) /\ [Next]_vars => PanicInv(R)'
  BY NextPanicInv
<1>3. PanicInv(R) => ~crashed
  BY DEF PanicInv
<1>4. ~crashed /\ Assertions => NoCorePanic
  BY DEF NoCorePanic
<1> QED BY <1>1, <1>2, <1>3, <1>4, AssertionsHold, PTL DEF Spec
=============================================================================
