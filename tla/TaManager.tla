------------------------------ MODULE TaManager ------------------------------
(***************************************************************************)
(* The session manager of the OP-TEE core (core/kernel/tee_ta_manager.c):  *)
(* opening, invoking, cancelling and closing sessions to trusted           *)
(* applications (TAs) from the normal world (entry_std.c) and from a       *)
(* running TA (tee_svc.c), the reference counts and locks of sessions and  *)
(* contexts, and the single-instance lock.                                 *)
(*                                                                         *)
(* tee_ta_mutex is a monitor (Mutex.tla implements Monitor.tla), so a      *)
(* section under it is one step, cut where it waits on a condition         *)
(* variable.  Waiters of a condition variable are signalled in the order   *)
(* in which they came.  What a TA does while it runs is arbitrary: it      *)
(* returns, panics, or calls the core again.                               *)
(***************************************************************************)
EXTENDS Integers, Sequences, FiniteSets, SequencesExt

CONSTANTS Threads,
          Uuids,      \* the TAs there are
          SingleInstance, MultiSession, KeepAlive,  \* TA flags, as sets of uuids
          MayPanic,   \* the TAs whose code may panic
          Calls,      \* pairs <<u, v>>: TA u may open a session to TA v
          Sessions,   \* addresses of struct tee_ta_session
          Ctxs,       \* addresses of struct tee_ta_ctx
          MaxDepth,   \* bound on nested calls of one thread
          NoThread, NoUuid, NoCtx, NoSess,
          Nsec        \* tee_open_sessions, the list of the normal world

ASSUME FlagsAssumption ==
  /\ SingleInstance \subseteq Uuids /\ MultiSession \subseteq Uuids
  /\ KeepAlive \subseteq Uuids /\ MayPanic \subseteq Uuids /\ Calls \subseteq Uuids \X Uuids
ASSUME NoneAssumption ==
  /\ NoThread \notin Threads /\ NoUuid \notin Uuids
  /\ NoCtx \notin Ctxs /\ NoSess \notin Sessions /\ Nsec \notin Ctxs \cup {NoCtx}

VARIABLES
  siThread,   \* tee_ta_single_instance_thread
  siCount,    \* tee_ta_single_instance_count
  ctx,        \* struct tee_ta_ctx at each address
  sess,       \* struct tee_ta_session at each address
  stack,      \* per thread: the calls it is in, innermost last
  waitq,      \* per condition variable: the waiters, in order of arrival
  crashed,    \* panic() was called
  known       \* normal world: the sessions it was given and has not closed

vars == <<siThread, siCount, ctx, sess, stack, waitq, crashed, known>>

FreeCtx == [uuid |-> NoUuid, linked |-> FALSE, busy |-> FALSE, ref |-> 0,
            panicked |-> FALSE]
FreeSess == [ctx |-> NoCtx, list |-> NoCtx, ref |-> 0, lock |-> NoThread,
             unlink |-> FALSE, clnt |-> NoUuid, cancel |-> FALSE]

(* Condition variables: tee_ta_cv, ctx->busy_cv, s->refc_cv, s->lock_cv.   *)
SiCv == <<"si">>
BusyCv(c) == <<"busy", c>>
RefcCv(s) == <<"refc", s>>
LockCv(s) == <<"lock", s>>
Cvs == {SiCv} \cup {BusyCv(c) : c \in Ctxs}
       \cup {RefcCv(s) : s \in Sessions} \cup {LockCv(s) : s \in Sessions}

Init == /\ siThread = NoThread /\ siCount = 0
        /\ ctx = [c \in Ctxs |-> FreeCtx]
        /\ sess = [s \in Sessions |-> FreeSess]
        /\ stack = [t \in Threads |-> <<>>]
        /\ waitq = [cv \in Cvs |-> <<>>]
        /\ crashed = FALSE
        /\ known = {}

-----------------------------------------------------------------------------
Wait(t, cv) == waitq' = [waitq EXCEPT ![cv] = Append(@, t)]
Signal(q, cv) == [q EXCEPT ![cv] = IF @ = <<>> THEN @ ELSE Tail(@)]
Broadcast(q, cv) == [q EXCEPT ![cv] = <<>>]

Waiting(t) == \E cv \in Cvs : \E i \in DOMAIN waitq[cv] : waitq[cv][i] = t

(* Calls.  A frame is one call of tee_ta_open_session, _invoke_command,    *)
(* _close_session or _cancel_command with what surrounds it in its caller. *)
(*   list  the open_sessions argument: Nsec or the calling TA's context    *)
(*   kern  the identity is KERN_IDENTITY                                   *)
(*   bad   open: res != TEE_SUCCESS or the local "panicked"                *)
(*   held  close: the open that failed still has its reference             *)
Top(t) == Last(stack[t])
At(t, pc) == /\ ~crashed /\ stack[t] # <<>> /\ ~Waiting(t) /\ Top(t).pc = pc
Become(t, f) == stack' = [stack EXCEPT ![t] = Append(Front(@), f)]
Goto(t, pc) == Become(t, [Top(t) EXCEPT !.pc = pc])
Push(t, f) == stack' = [stack EXCEPT ![t] = Append(@, f)]
Return(t) == stack' = [stack EXCEPT ![t] = Front(@)]

Frame(op, pc, u, s, list, kern) ==
  [op |-> op, pc |-> pc, u |-> u, s |-> s, c |-> NoCtx, list |-> list,
   kern |-> kern, bad |-> FALSE, held |-> FALSE]

(* A call comes from an idle thread of the normal world, or from the TA    *)
(* that runs in the thread.                                                *)
CanCall(t) == /\ ~crashed /\ Len(stack[t]) < MaxDepth
              /\ stack[t] = <<>> \/ At(t, "run")
Caller(t) == IF stack[t] = <<>> THEN Nsec ELSE Top(t).c

unchangedCore == UNCHANGED <<siThread, siCount, ctx, sess, waitq, crashed>>

open_session(t, u) ==
  /\ CanCall(t)
  /\ Caller(t) # Nsec => <<ctx[Caller(t)].uuid, u>> \in Calls
  /\ Push(t, Frame("open", "init", u, NoSess, Caller(t), FALSE))
  /\ unchangedCore /\ UNCHANGED known

(* The caller uses sessions it has: the normal world's driver hands on     *)
(* what tee_ta_open_session returned and forgets a session before it asks  *)
(* for the close (external), a TA has the sessions in its list.  By the    *)
(* time tee_ta_get_session runs the session may be gone, or its address    *)
(* may be that of another session.                                         *)
HasSession(t, s) == IF Caller(t) = Nsec THEN s \in known ELSE sess[s].list = Caller(t)

invoke_command(t, s) ==
  /\ CanCall(t) /\ HasSession(t, s)
  /\ Push(t, Frame("invoke", "get", NoUuid, s, Caller(t), FALSE))
  /\ unchangedCore /\ UNCHANGED known

close_session(t, s) ==
  /\ CanCall(t) /\ HasSession(t, s)
  /\ Push(t, Frame("close", "get", NoUuid, s, Caller(t), FALSE))
  /\ known' = IF Caller(t) = Nsec THEN known \ {s} ELSE known
  /\ unchangedCore

entry_cancel(t, s) ==
  /\ CanCall(t) /\ stack[t] = <<>> /\ HasSession(t, s)
  /\ Push(t, Frame("cancel", "get", NoUuid, s, Nsec, FALSE))
  /\ unchangedCore /\ UNCHANGED known

-----------------------------------------------------------------------------
(* Definitions marked "Fault" are wrong on purpose: each stands in for the *)
(* definition after it to show that a property notices the mistake.        *)

(* tee_ta_init_session, one section under tee_ta_mutex: TA u is loaded and *)
(* takes another session (tee_ta_init_session_with_context) ...            *)
Loaded(u) == {c \in Ctxs : ctx[c].linked /\ ctx[c].uuid = u}

NewSession(t, s, c) ==
  /\ sess[s] = FreeSess
  /\ sess' = [sess EXCEPT ![s] = [FreeSess EXCEPT !.ctx = c, !.list = Top(t).list, !.ref = 1]]
  /\ Become(t, [Top(t) EXCEPT !.pc = "entry", !.s = s, !.c = c])
  /\ UNCHANGED <<siThread, siCount, waitq, crashed, known>>

(* Fault: a session of a loaded TA is not counted in ctx->ref_count.       *)
uncounted_session(t, s) ==
  LET u == Top(t).u IN
  /\ At(t, "init")
  /\ u \in SingleInstance
  /\ \E c \in Loaded(u) :
       /\ u \in MultiSession \/ (u \in KeepAlive /\ ctx[c].ref = 0)
       /\ UNCHANGED ctx
       /\ NewSession(t, s, c)

init_session_with_context(t, s) ==
  LET u == Top(t).u IN
  /\ At(t, "init")
  /\ u \in SingleInstance
  /\ \E c \in Loaded(u) :
       /\ u \in MultiSession \/ (u \in KeepAlive /\ ctx[c].ref = 0)
       /\ ctx' = [ctx EXCEPT ![c].ref = @ + 1]
       /\ NewSession(t, s, c)

(* The context of a TA that was just loaded (ta_load, or a pseudo TA).     *)
NewContext(u) == [FreeCtx EXCEPT !.uuid = u, !.linked = TRUE, !.ref = 1]

(* Fault: tee_ta_context_find is not asked for a loaded TA.                *)
always_load(t, s, c) ==
  LET u == Top(t).u IN
  /\ At(t, "init")
  /\ ctx[c] = FreeCtx
  /\ ctx' = [ctx EXCEPT ![c] = NewContext(u)]
  /\ NewSession(t, s, c)

(* ... or it is loaded now, into a new context ...                         *)
init_ta_session(t, s, c) ==
  LET u == Top(t).u IN
  /\ At(t, "init")
  /\ u \in SingleInstance => Loaded(u) = {}
  /\ ctx[c] = FreeCtx
  /\ ctx' = [ctx EXCEPT ![c] = NewContext(u)]
  /\ NewSession(t, s, c)

(* ... or the session is refused: TEE_ERROR_BUSY, no memory, no such TA.   *)
init_session_fails(t) == At(t, "init") /\ Return(t) /\ unchangedCore /\ UNCHANGED known

(* tee_ta_open_session up to tee_ta_try_set_busy; check_params accepts     *)
(* everything when CFG_SECURE_DATA_PATH is off, as it is on plat-ls.  The  *)
(* reference a session starts with is not given back when the TA is dead.  *)
CloseKern(s, list) == Frame("close", "get", NoUuid, s, list, TRUE)

ClientOf(list) == IF list = Nsec THEN NoUuid ELSE ctx[list].uuid

open_entry(t) ==
  LET f == Top(t) IN
  /\ At(t, "entry")
  /\ IF ctx[f.c].panicked
     THEN Become(t, [CloseKern(f.s, f.list) EXCEPT !.held = TRUE]) /\ UNCHANGED sess
     ELSE Goto(t, "busy") /\ sess' = [sess EXCEPT ![f.s].clnt = ClientOf(f.list)]
  /\ UNCHANGED <<siThread, siCount, ctx, waitq, crashed, known>>

-----------------------------------------------------------------------------
(* tee_ta_try_set_busy, with lock_single_instance: wait for the lock, or   *)
(* for the TA when the thread does not hold the lock, ...                  *)
Single(c) == ctx[c].uuid \in SingleInstance

SiLocked(t, c) == Single(c) /\ siThread \notin {t, NoThread}

HasSi(t, c) == siThread = t \/ Single(c)

set_busy_waits(t) ==
  LET c == Top(t).c IN
  /\ At(t, "busy")
  /\ \/ SiLocked(t, c) /\ Wait(t, SiCv)
     \/ ~HasSi(t, c) /\ ctx[c].busy /\ Wait(t, BusyCv(c))
  /\ UNCHANGED <<siThread, siCount, ctx, sess, stack, crashed, known>>

(* Fault: the single-instance lock is taken for the busy flag.             *)
set_busy_again(t) ==
  LET f == Top(t) IN
  /\ At(t, "busy")
  /\ ~SiLocked(t, f.c)
  /\ ctx' = [ctx EXCEPT ![f.c].busy = TRUE]
  /\ IF Single(f.c) THEN siThread' = t /\ siCount' = siCount + 1
     ELSE UNCHANGED <<siThread, siCount>>
  /\ Goto(t, IF f.op = "close" THEN "closing" ELSE "run")
  /\ UNCHANGED <<sess, waitq, crashed, known>>

(* ... take it ...                                                         *)
set_busy(t) ==
  LET f == Top(t) IN
  /\ At(t, "busy")
  /\ ~SiLocked(t, f.c) /\ ~ctx[f.c].busy
  /\ ctx' = [ctx EXCEPT ![f.c].busy = TRUE]
  /\ IF Single(f.c) THEN siThread' = t /\ siCount' = siCount + 1
     ELSE UNCHANGED <<siThread, siCount>>
  /\ Goto(t, IF f.op = "close" THEN "closing" ELSE "run")
  /\ UNCHANGED <<sess, waitq, crashed, known>>

(* ... or give up, because the thread holds the single-instance lock and   *)
(* waiting would be a deadlock.  tee_ta_open_session goes on with          *)
(* TEE_ERROR_BUSY, tee_ta_set_busy panics.                                 *)
set_busy_fails(t) ==
  LET f == Top(t) IN
  /\ At(t, "busy")
  /\ ~SiLocked(t, f.c) /\ HasSi(t, f.c) /\ ctx[f.c].busy
  /\ waitq' = IF siThread = NoThread THEN Signal(waitq, SiCv) ELSE waitq
  /\ IF f.op = "open"
     THEN /\ Become(t, [f EXCEPT !.pc = "opened", !.bad = TRUE])
          /\ UNCHANGED crashed
     ELSE crashed' = TRUE /\ UNCHANGED stack
  /\ UNCHANGED <<siThread, siCount, ctx, sess, known>>

(* enter_open_session, enter_invoke_cmd, enter_close_session: the TA       *)
(* returns, well or not, ...                                               *)
AfterRun(f, ok) == [f EXCEPT !.pc = IF f.op = "close" THEN "unlink" ELSE "clear",
                             !.bad = ~ok]

ta_returns(t, ok) ==
  /\ At(t, "run")
  /\ Become(t, AfterRun(Top(t), ok))
  /\ sess' = [sess EXCEPT ![Top(t).s].cancel = FALSE]
  /\ UNCHANGED <<siThread, siCount, ctx, waitq, crashed, known>>

(* ... or panics.                                                          *)
ta_panics(t) ==
  /\ At(t, "run") /\ ctx[Top(t).c].uuid \in MayPanic
  /\ Become(t, AfterRun(Top(t), FALSE))
  /\ sess' = [sess EXCEPT ![Top(t).s].cancel = FALSE]
  /\ ctx' = [ctx EXCEPT ![Top(t).c].panicked = TRUE]
  /\ UNCHANGED <<siThread, siCount, waitq, crashed, known>>

(* Fault: the lock is given back with the first TA that is left, not with  *)
(* the last one.                                                           *)
clear_busy_unlocks(t) ==
  LET f == Top(t)
      q == Signal(waitq, BusyCv(f.c))
  IN
  /\ At(t, "clear")
  /\ ctx' = [ctx EXCEPT ![f.c].busy = FALSE]
  /\ IF Single(f.c)
     THEN siCount' = siCount - 1 /\ siThread' = NoThread /\ waitq' = Signal(q, SiCv)
     ELSE waitq' = q /\ UNCHANGED <<siThread, siCount>>
  /\ Goto(t, CASE f.op = "open" -> "opened" [] f.op = "invoke" -> "put"
               [] f.op = "close" -> "deref")
  /\ UNCHANGED <<sess, crashed, known>>

(* tee_ta_clear_busy, with unlock_single_instance.                         *)
clear_busy(t) ==
  LET f == Top(t)
      q == Signal(waitq, BusyCv(f.c))
  IN
  /\ At(t, "clear")
  /\ ctx' = [ctx EXCEPT ![f.c].busy = FALSE]
  /\ IF Single(f.c)
     THEN /\ siCount' = siCount - 1
          /\ siThread' = IF siCount = 1 THEN NoThread ELSE siThread
          /\ waitq' = IF siCount = 1 THEN Signal(q, SiCv) ELSE q
     ELSE waitq' = q /\ UNCHANGED <<siThread, siCount>>
  /\ Goto(t, CASE f.op = "open" -> "opened" [] f.op = "invoke" -> "put"
               [] f.op = "close" -> "deref")
  /\ UNCHANGED <<sess, crashed, known>>

(* tee_ta_open_session reads ctx->panicked again after the TA ran.         *)
open_checks_panic(t) ==
  /\ At(t, "opened")
  /\ Become(t, [Top(t) EXCEPT !.pc = "put", !.bad = @ \/ ctx[Top(t).c].panicked])
  /\ unchangedCore /\ UNCHANGED known

-----------------------------------------------------------------------------
(* dec_session_ref_count, on the session table and the wait queue.         *)
DecRef(S, s) == [S EXCEPT ![s].ref = @ - 1]
AfterDecSilent(q, s) == q   \* Fault: refc_cv is not signalled

AfterDec(q, s) == IF sess[s].ref = 2 THEN Signal(q, RefcCv(s)) ELSE q

(* Fault: the exclusive lock of the session is not given back.             *)
put_session_locked(t) ==
  LET f == Top(t) IN
  /\ At(t, "put")
  /\ sess' = DecRef(sess, f.s)
  /\ waitq' = AfterDec(waitq, f.s)
  /\ IF f.op = "open" /\ f.bad THEN Become(t, CloseKern(f.s, f.list)) ELSE Return(t)
  /\ known' = IF f.op = "open" /\ ~f.bad /\ f.list = Nsec THEN known \cup {f.s} ELSE known
  /\ UNCHANGED <<siThread, siCount, ctx, crashed>>

(* Fault: the caller is given the session of an open that failed.          *)
put_session_publishes(t) ==
  LET f == Top(t)
      mine == sess[f.s].lock = t
  IN
  /\ At(t, "put")
  /\ sess' = DecRef([sess EXCEPT ![f.s].lock = IF mine THEN NoThread ELSE @], f.s)
  /\ waitq' = AfterDec(IF mine THEN Signal(waitq, LockCv(f.s)) ELSE waitq, f.s)
  /\ IF f.op = "open" /\ f.bad THEN Become(t, CloseKern(f.s, f.list)) ELSE Return(t)
  /\ known' = IF f.op = "open" /\ f.list = Nsec THEN known \cup {f.s} ELSE known
  /\ UNCHANGED <<siThread, siCount, ctx, crashed>>

(* tee_ta_put_session; a failed open then closes the session.              *)
put_session(t) ==
  LET f == Top(t)
      mine == sess[f.s].lock = t
  IN
  /\ At(t, "put")
  /\ sess' = DecRef([sess EXCEPT ![f.s].lock = IF mine THEN NoThread ELSE @], f.s)
  /\ waitq' = AfterDec(IF mine THEN Signal(waitq, LockCv(f.s)) ELSE waitq, f.s)
  /\ IF f.op = "open" /\ f.bad THEN Become(t, CloseKern(f.s, f.list)) ELSE Return(t)
  /\ known' = IF f.op = "open" /\ ~f.bad /\ f.list = Nsec THEN known \cup {f.s} ELSE known
  /\ UNCHANGED <<siThread, siCount, ctx, crashed>>

(* tee_ta_get_session: no such session in the list, ...                    *)
Linked(f) == sess[f.s].list = f.list

get_session_fails(t) ==
  /\ At(t, "get")
  /\ ~Linked(Top(t)) \/ sess[Top(t).s].unlink
  /\ Return(t)
  /\ unchangedCore /\ UNCHANGED known

(* Fault: only an exclusive lookup is counted.                             *)
get_session_uncounted(t) ==
  LET f == Top(t)
      s == sess[f.s]
  IN
  /\ At(t, "get")
  /\ Linked(f) /\ ~s.unlink
  /\ sess' = [sess EXCEPT ![f.s].ref = IF f.op = "cancel" THEN @ ELSE @ + 1,
                ![f.s].lock = IF f.op # "cancel" /\ @ = NoThread THEN t ELSE @]
  /\ IF f.op # "cancel" /\ s.lock # NoThread
     THEN Wait(t, LockCv(f.s)) /\ Goto(t, "getwait")
     ELSE Goto(t, "check") /\ UNCHANGED waitq
  /\ UNCHANGED <<siThread, siCount, ctx, crashed, known>>

(* ... or found: without the exclusive flag (cancel) that is all, with it  *)
(* the thread waits while another one has the session.                     *)
get_session(t) ==
  LET f == Top(t)
      s == sess[f.s]
  IN
  /\ At(t, "get")
  /\ Linked(f) /\ ~s.unlink
  /\ sess' = [sess EXCEPT ![f.s].ref = @ + 1,
                ![f.s].lock = IF f.op # "cancel" /\ @ = NoThread THEN t ELSE @]
  /\ IF f.op # "cancel" /\ s.lock # NoThread
     THEN Wait(t, LockCv(f.s)) /\ Goto(t, "getwait")
     ELSE Goto(t, "check") /\ UNCHANGED waitq
  /\ UNCHANGED <<siThread, siCount, ctx, crashed, known>>

(* The wait in tee_ta_get_session is over: still locked, unlinked, mine.   *)
get_session_wakes(t) ==
  LET f == Top(t)
      s == sess[f.s]
  IN
  /\ At(t, "getwait")
  /\ \/ /\ s.lock # NoThread /\ ~s.unlink
        /\ Wait(t, LockCv(f.s))
        /\ UNCHANGED <<sess, stack>>
     \/ /\ s.unlink
        /\ sess' = DecRef(sess, f.s)
        /\ waitq' = AfterDec(waitq, f.s)
        /\ Return(t)
     \/ /\ s.lock = NoThread /\ ~s.unlink
        /\ sess' = [sess EXCEPT ![f.s].lock = t]
        /\ Goto(t, "check")
        /\ UNCHANGED waitq
  /\ UNCHANGED <<siThread, siCount, ctx, crashed, known>>

(* check_client, and for an invocation the look at ctx->panicked; cancel   *)
(* is tee_ta_cancel_command.                                               *)
check_client(f) == f.kern \/ (f.list = Nsec /\ sess[f.s].clnt = NoUuid)
                   \/ (f.list # Nsec /\ sess[f.s].clnt = ctx[f.list].uuid)

(* A TA's invocation may fail before tee_ta_invoke_command is called, in   *)
(* tee_svc_copy_param, with the session already looked up.                 *)
CopyParamMayFail(f) == f.op = "invoke" /\ f.list # Nsec

check_call(t) ==
  LET f == Top(t)
      c == sess[f.s].ctx
      go == check_client(f) /\ ~(f.op = "invoke" /\ ctx[c].panicked)
  IN
  /\ At(t, "check")
  /\ IF f.op = "cancel"
     THEN sess' = [sess EXCEPT ![f.s].cancel = @ \/ check_client(f)] /\ Goto(t, "put")
     ELSE /\ \/ go /\ Become(t, [f EXCEPT !.pc = "busy", !.c = c])
             \/ (~go \/ CopyParamMayFail(f)) /\ Goto(t, "put")
          /\ UNCHANGED sess
  /\ UNCHANGED <<siThread, siCount, ctx, waitq, crashed, known>>

-----------------------------------------------------------------------------
(* tee_ta_close_session once the TA is busy: a panicked TA is not entered. *)
close_entry(t) ==
  /\ At(t, "closing")
  /\ Goto(t, IF ctx[Top(t).c].panicked THEN "unlink" ELSE "run")
  /\ unchangedCore /\ UNCHANGED known

(* Fault: the threads that wait for the session are not told.              *)
unlink_session_silent(t) ==
  LET s == Top(t).s
      alone == sess[s].ref = 1
  IN
  /\ At(t, "unlink") \/ At(t, "unlinkwait")
  /\ sess' = [sess EXCEPT ![s] = IF alone THEN FreeSess ELSE [@ EXCEPT !.unlink = TRUE]]
  /\ IF alone THEN UNCHANGED waitq ELSE Wait(t, RefcCv(s))
  /\ Goto(t, IF alone THEN "clear" ELSE "unlinkwait")
  /\ UNCHANGED <<siThread, siCount, ctx, crashed, known>>

(* tee_ta_unlink_session: wait until no other thread has the session, take *)
(* it out of its list and free it.                                         *)
unlink_session(t) ==
  LET s == Top(t).s
      alone == sess[s].ref = 1
      q == IF At(t, "unlink") THEN Broadcast(waitq, LockCv(s)) ELSE waitq
  IN
  /\ At(t, "unlink") \/ At(t, "unlinkwait")
  /\ sess' = [sess EXCEPT ![s] = IF alone THEN FreeSess ELSE [@ EXCEPT !.unlink = TRUE]]
  /\ waitq' = IF alone THEN q ELSE [q EXCEPT ![RefcCv(s)] = Append(@, t)]
  /\ Goto(t, IF alone THEN "clear" ELSE "unlinkwait")
  /\ UNCHANGED <<siThread, siCount, ctx, crashed, known>>

(* The end of tee_ta_close_session: the last reference to a context that   *)
(* is not kept alive takes it out of tee_ctxes, ...                        *)
Kept(c) == ctx[c].uuid \in KeepAlive /\ Single(c)

drop_context(t) ==
  LET c == Top(t).c
      last == ctx[c].ref = 1 /\ ~Kept(c)
  IN
  /\ At(t, "deref")
  /\ ctx' = [ctx EXCEPT ![c].ref = @ - 1, ![c].linked = @ /\ ~last]
  /\ IF last THEN Goto(t, "destroy") ELSE Return(t)
  /\ UNCHANGED <<siThread, siCount, sess, waitq, crashed, known>>

(* ... and user_ta_ctx_destroy closes the sessions the TA has opened, one  *)
(* after the other, before the context is freed.                           *)
ctx_destroy(t) ==
  LET c == Top(t).c
      opened == {s \in Sessions : sess[s].list = c}
  IN
  /\ At(t, "destroy")
  /\ \/ \E s \in opened : Push(t, CloseKern(s, c)) /\ UNCHANGED ctx
     \/ opened = {} /\ Return(t) /\ ctx' = [ctx EXCEPT ![c] = FreeCtx]
  /\ UNCHANGED <<siThread, siCount, sess, waitq, crashed, known>>

-----------------------------------------------------------------------------
Call(t) == \/ \E u \in Uuids : open_session(t, u)
           \/ \E s \in Sessions :
                invoke_command(t, s) \/ close_session(t, s) \/ entry_cancel(t, s)

(* Steps of the core itself: a thread in the core keeps running.           *)
Run(t) == \/ \E s \in Sessions : init_session_with_context(t, s)
          \/ \E s \in Sessions, c \in Ctxs : init_ta_session(t, s, c)
          \/ init_session_fails(t) \/ open_entry(t)
          \/ set_busy_waits(t) \/ set_busy(t) \/ set_busy_fails(t)
          \/ clear_busy(t) \/ open_checks_panic(t) \/ put_session(t)
          \/ get_session_fails(t) \/ get_session(t) \/ get_session_wakes(t)
          \/ check_call(t) \/ close_entry(t) \/ unlink_session(t)
          \/ drop_context(t) \/ ctx_destroy(t)

TaEnds(t) == ta_returns(t, TRUE) \/ ta_returns(t, FALSE) \/ ta_panics(t)

Next == \E t \in Threads : Call(t) \/ Run(t) \/ TaEnds(t)

Spec == Init /\ [][Next]_vars

(* A thread in the core keeps running, and a TA does not run forever.      *)
FairSpec == /\ Spec
            /\ \A t \in Threads : WF_vars(Run(t)) /\ SF_vars(TaEnds(t))

-----------------------------------------------------------------------------
Ops == {"open", "invoke", "close", "cancel"}
PCs == {"init", "entry", "get", "getwait", "check", "busy", "run", "closing", "unlink",
        "unlinkwait", "clear", "opened", "put", "deref", "destroy"}

(* Types: in particular no reference count of tee_ta_manager.c, nor the    *)
(* count of the single-instance lock, ever goes below zero.                *)
TypeOK ==
  /\ siThread \in Threads \cup {NoThread} /\ siCount \in Nat
  /\ ctx \in [Ctxs -> [uuid : Uuids \cup {NoUuid}, linked : BOOLEAN, busy : BOOLEAN,
                       ref : Nat, panicked : BOOLEAN]]
  /\ sess \in [Sessions -> [ctx : Ctxs \cup {NoCtx}, list : Ctxs \cup {NoCtx, Nsec},
                            ref : Nat, lock : Threads \cup {NoThread}, unlink : BOOLEAN,
                            clnt : Uuids \cup {NoUuid}, cancel : BOOLEAN]]
  /\ stack \in [Threads -> Seq([op : Ops, pc : PCs, u : Uuids \cup {NoUuid},
                                s : Sessions \cup {NoSess}, c : Ctxs \cup {NoCtx},
                                list : Ctxs \cup {Nsec}, kern : BOOLEAN, bad : BOOLEAN,
                                held : BOOLEAN])]
  /\ known \subseteq Sessions /\ crashed \in BOOLEAN

(* All calls of all threads.                                               *)
Frames == UNION {{<<t, i>> : i \in DOMAIN stack[t]} : t \in Threads}
F(x) == stack[x[1]][x[2]]

(* Between tee_ta_set_busy and tee_ta_clear_busy.                          *)
Inside(f) == f.pc \in {"run", "closing", "unlink", "unlinkwait", "clear"}

(* Every assert() on a count, a flag or a lock in tee_ta_manager.c holds   *)
(* when it is reached (tee_ta_clear_busy, unlock_single_instance,          *)
(* dec_session_ref_count, tee_ta_get_session, tee_ta_unlink_session,       *)
(* tee_ta_close_session), and condvar_destroy finds nobody waiting.        *)
Assertions ==
  \A t \in Threads :
    LET f == Top(t) IN
    /\ At(t, "busy") /\ siThread = NoThread => siCount = 0
    /\ At(t, "clear") => /\ ctx[f.c].busy
                         /\ Single(f.c) => siThread = t /\ siCount > 0
    /\ At(t, "put") \/ At(t, "getwait") => sess[f.s].ref > 0
    /\ At(t, "get") /\ f.op # "cancel" /\ Linked(f) => sess[f.s].lock # t
    /\ At(t, "unlink") => sess[f.s].ref >= 1 /\ sess[f.s].lock = t /\ ~sess[f.s].unlink
    /\ At(t, "deref") => ctx[f.c].ref > 0
    /\ At(t, "destroy") => waitq[BusyCv(f.c)] = <<>>

(* The core never panics: the assertions hold, and no tee_ta_set_busy      *)
(* finds out that it would deadlock.                                       *)
NoCorePanic == ~crashed /\ Assertions

(* A TA instance is entered by one call at a time, and ctx->busy says so   *)
(* (tee_ta_try_set_busy, tee_ta_clear_busy).                               *)
OneCallPerInstance ==
  \A c \in Ctxs : Cardinality({x \in Frames : Inside(F(x)) /\ F(x).c = c})
                  = IF ctx[c].busy THEN 1 ELSE 0

(* Only one thread is inside single-instance TAs, it is the one that has   *)
(* the lock, and it has it once for every such TA it is inside of.         *)
SingleInstanceLock ==
  LET S == {x \in Frames : Inside(F(x)) /\ Single(F(x).c)}
  IN /\ siCount = Cardinality(S)
     /\ \A x \in S : x[1] = siThread
     /\ siCount = 0 <=> siThread = NoThread

(* The frame has a counted reference to its session.                       *)
HasRef(f) == /\ f.pc \notin {"init", "get", "deref", "destroy"}
             /\ ~(f.op = "close" /\ f.pc = "clear")

Users(s) == {x \in Frames : HasRef(F(x)) /\ F(x).s = s}
Holders(s) == {x \in Frames : F(x).held /\ F(x).s = s}

(* A session is freed only when nobody uses it: its reference count is the *)
(* number of references the calls have to it, and a call with a reference  *)
(* finds the session it looked up, in the same list and with the same      *)
(* context.                                                                *)
SessionRefs ==
  /\ \A s \in Sessions : sess[s].ref = Cardinality(Users(s)) + Cardinality(Holders(s))
  /\ \A x \in Frames : HasRef(F(x)) => /\ Linked(F(x)) /\ sess[F(x).s].ctx # NoCtx
                                       /\ F(x).c \in {NoCtx, sess[F(x).s].ctx}

(* A close finds its session: whoever else uses it, closes it or destroys  *)
(* the TA that has it, tee_ta_get_session does not fail for a close, which *)
(* would leave the session in its list for good (tee_ta_close_session      *)
(* returns TEE_ERROR_ITEM_NOT_FOUND, and destroying a TA would not end).   *)
ClosesFindTheirSession ==
  \A t \in Threads : At(t, "get") /\ Top(t).op = "close" =>
                       Linked(Top(t)) /\ ~sess[Top(t).s].unlink

(* A context is freed only when nobody uses it: its reference count is the *)
(* number of its sessions and of closes that have freed the session but    *)
(* not yet dropped the context.                                            *)
ContextRefs ==
  /\ \A c \in Ctxs :
       ctx[c].ref = Cardinality({s \in Sessions : sess[s].ctx = c})
                    + Cardinality({x \in Frames : /\ F(x).op = "close" /\ F(x).c = c
                                                 /\ F(x).pc \in {"clear", "deref"}})
  /\ \A x \in Frames : F(x).c # NoCtx => ctx[F(x).c].uuid # NoUuid
  /\ \A s \in Sessions : sess[s].list \in Ctxs => ctx[sess[s].list].uuid # NoUuid

(* A single-instance TA is loaded once, and has one session at a time when *)
(* it is not multi-session (tee_ta_init_session_with_context), whatever    *)
(* opens and closes race for it.                                           *)
Instances ==
  \A u \in SingleInstance :
    /\ Cardinality(Loaded(u)) <= 1
    /\ u \notin MultiSession =>
         Cardinality({s \in Sessions : sess[s].ctx # NoCtx /\ ctx[sess[s].ctx].uuid = u}) <= 1

(* Nobody waits for something that has happened: while the core runs, the  *)
(* condition that waiters sleep on is false, or a thread that will look at *)
(* it was woken (lock_single_instance, tee_ta_try_set_busy,                *)
(* tee_ta_get_session, tee_ta_unlink_session).                             *)
Woken(pc) == {t \in Threads : At(t, pc)}

SiTold == waitq[SiCv] # <<>> =>
            siThread # NoThread \/ \E t \in Woken("busy") : Single(Top(t).c)
BusyTold(c) == waitq[BusyCv(c)] # <<>> =>
                 ctx[c].busy \/ \E t \in Woken("busy") : Top(t).c = c
LockTold(s) == waitq[LockCv(s)] # <<>> =>
                 /\ ~sess[s].unlink
                 /\ sess[s].lock # NoThread \/ \E t \in Woken("getwait") : Top(t).s = s
RefcTold(s) == waitq[RefcCv(s)] # <<>> => sess[s].ref # 1

NoForgottenWaiter == ~crashed => /\ SiTold /\ \A c \in Ctxs : BusyTold(c)
                                 /\ \A s \in Sessions : LockTold(s) /\ RefcTold(s)

(* A session that tee_ta_unlink_session has marked is freed in the end:    *)
(* every thread that has it gives it back and the last one signals refc_cv.*)
CloseCompletes == \A s \in Sessions : sess[s].unlink ~> ~sess[s].unlink
=============================================================================
