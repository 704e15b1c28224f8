# Verification of the secure services of the OK10xx BSP

The repository is a board support package for Forlinx OK1043/OK1046 boards (NXP LS1043A and
LS1046A): `flexbuild`, the scripts that build and install it, and the packages it builds. Most
packages are vendored upstream projects or drive hardware that is not in the repository. The
core logic that can be modelled is in the secure services: OP-TEE OS with its client, and the
secure object and PKCS#11 libraries on top. This project starts from the bottom of that stack.

Paths below are relative to `src/flexbuild/packages/apps/optee_os/core/` unless they say more.

## 1. Inventory

| Component | State | Operations | Interacts with | What is hard |
|---|---|---|---|---|
| Mutex, condvar, wait queue (`arch/arm/kernel/mutex.c`, `wait_queue.c`) | value, owner, queue of elements on the waiters' stacks, `cv->m` | lock, trylock, unlock, wait, signal, broadcast, destroy | everything below; sleeps and wakes by RPC to the normal world | lost wakeups, three spinlocks, spurious RPC returns |
| TA sessions (`kernel/tee_ta_manager.c`; `entry_std.c`, `tee_svc.c`, `user_ta.c`) | contexts, sessions, single-instance lock, reference counts | open, invoke, cancel, close, from the normal world and from TAs | TAs run inside and call back; uses one mutex and four kinds of condvars | close against everything, nested calls, panics, reuse of addresses |
| Hash tree file (`tee/fs_htree.c`) | two versions of header, nodes, blocks on disk; a tree in memory | open, create, read, write, truncate, sync, close | RPCs to tee-supplicant's files; the directory (or RPMB) keeps the root hash | crash at any write, failing RPCs, version bits |
| REE file system (`tee/tee_ree_fs.c`, `fs_dirfile.c`) | shared directory handle with a count, file numbers, open files | open, create, write, truncate, rename, remove, enumerate | hash tree files; persistent objects | one step of several failing, stale directory handle |
| RPMB file system (`tee/tee_rpmb_fs.c`) | FAT, write counter | the same interface | RPMB device | interrupted writes, counter |
| Persistent objects (`tee_pobj.c`, `tee_svc_storage.c`) | usage counts, share flags | object system calls | file systems | conflicting opens, creation against deletion |
| Threads and RPC (`arch/arm/kernel/thread.c`, `thread_a64.S`) | thread states, saved registers, RPC argument buffers and their cache, the stack each CPU is on | call, RPC, foreign interrupt, suspend, resume, free, cache on and off | secure monitor, driver of the normal world | resume on another CPU, interrupts between an answer and its use, buffers that change hands |
| Page tables (`arch/arm/mm/pgt_cache.c`), handles | pools | alloc, free, flush | TA entry | all waiting for all |
| `optee_client` (libteec, tee-supplicant) | sessions, worker threads, `num_waiters` | TEE client API, supplicant loop | kernel driver | who waits for the next request, failing ioctls, thread limits |
| `secure_obj`, `libpkcs11` | tokens, sessions, objects | PKCS#11 API | the secure object TA | session state, concurrent use |
| PPA firmware | CPU states | PSCI calls | boot | CPU_ON against CPU_OFF |

Everything else (DPAA tools, AIOP, DPDK, OVS, OpenSSL, RCW, build scripts, root file systems) is
listed in `PROJECT.json` with the reason it is left out.

What makes the modelled components correct:

* mutex: mutual exclusion; a free mutex that is wanted is taken; a signal moves one waiter, a
  broadcast all; the queue never refers to a stack frame that is gone.
* sessions: a TA instance is entered by one call at a time; a session or a context is freed
  exactly when the last user is gone; a single-instance TA has one instance; closes complete;
  the core itself does not panic.
* hash tree: after a crash or an error at any point the file is the one last committed, all of it.
* storage: an object on disk is what its last completed operation left; the shared directory handle
  is counted right on every path; a file number is never that of another object; exclusive access
  holds; a handle goes on working on its object whatever happens to the directory meanwhile.
* threads and RPC: a stack, a set of registers and an argument buffer are of one thread at a time;
  a resumed thread gets the answer to its own RPC; a request is answered however slow others are.

## 2. Modules

| Module | Models | Lines of thought |
|---|---|---|
| `Monitor` | abstract | What users of the mutex rely on: enter, leave, wait, signal, broadcast as single steps, no queue. |
| `Mutex` | `mutex.c`, `wait_queue.c` | One step per section under a spinlock, `pc` between them. `wq` is the list of elements; `done`, `cvOf` the fields of the element on each thread's stack. The sleep and wakeup RPCs are steps; either may fail, which the code only prints: a sleep that fails returns early, a wakeup that fails wakes nobody. |
| `MutexProofs` | | Theorems about `Mutex` for any number of threads and condition variables. |
| `TaManager` | `tee_ta_manager.c` and its callers | One step per section under `tee_ta_mutex`, cut at each `condvar_wait`. Each thread has a stack of calls, because a running TA may open, invoke and close sessions itself. |
| `AtomicFile` | abstract | What `fs_htree.h` promises of a file: a private copy, committed at once or dropped. |
| `HTree` | `fs_htree.c`, as `tee_ree_fs.c` uses it | One step per write RPC. A failing or interrupted write leaves the old element, the new one, or neither. |
| `FileLayout` | `get_offs_size` and the cut of a truncation, `tee_ree_fs.c` | Where headers, nodes and blocks lie in the file. A function, no state. |
| `ObjStore` | abstract | What `documentation/secure_storage.md` promises: a map from names to contents and one operation at a time, that takes effect once or not at all, whatever it reports. |
| `ReeFs` | `tee_ree_fs.c`, `fs_dirfile.c` | Directory, files of two versions, the shared handle. An operation that modifies the store is three steps: up to the commit of the directory, the commit, and the rest; so the power can go, or the commit fail, with every outcome. |
| `Storage` | `tee_svc_storage.c`, `tee_obj.c`, `tee_pobj.c` over `ReeFs` | System calls of threads and enumerations, cut where they leave `pobjs_mutex` or `ree_fs_mutex`. |
| `Threads` | `thread.c`, `thread_a64.S`, `arch/arm/tee/entry_fast.c` | One step per section under `thread_global_lock`, and per switch of stack. |
| `Supplicant` | `optee_client/tee-supplicant/src/tee_supplicant.c` | The worker threads: one step per change of `num_waiters`, ioctl and thread creation. |
| `Rpc` | `Threads` and `Supplicant`, joined by the driver | Clients' tasks, the requests they serve, and the tasks' return to the core on any CPU. |
| `RpcProofs`, `SupplicantProofs`, `BufferProofs` | | Theorems about `Rpc` for any number of CPUs, threads, clients, buffers and threads of tee-supplicant; each extends the one before. |
| `HTreeProofs` | | Theorems about `HTree` for files of any size, with the refinement of `AtomicFile`, and about `FileLayout`. |
| `StorageProofs`, `PobjProofs` | | Theorems about `Storage` for any number of threads, enumerations, names and files: the file system, then the entries of `tee_pobjs` on top, then writers and the refinement of `ObjStore`. |
| `TaProofs` | | Theorems about `TaManager` for any number of threads, sessions, contexts and TAs, any flags and any nesting. |
| `MCMutex`, `MCTaManager`, `MCHTree`, `MCStorage`, `MCRpc` | | Instances for TLC. |

How they fit: `TaManager` uses its mutex as a `Monitor` (a section is one step, a wait leaves it,
a signal wakes one waiter), which is what `Mutex` is proved to implement. It also fixes the order
of signalled waiters to that of arrival, which is `wq_promote_condvar`'s order. In `HTree` the
update of the directory's entry is one atomic step, since the directory is a file of the same kind.
`ReeFs` in turn takes from `HTree` what a file is: two versions, of which a sync writes the one its
handle did not load, a commit that is atomic but may report an error after it took effect, and a
handle whose tree is gone after an error. `Storage` runs on `ReeFs`. In `Rpc`, the sleep and
wakeup RPCs of `Mutex` and the file RPCs of `HTree` are one kind of command among others.

State and code:

* `Mutex`: `value`, `owner`, `wq` are `m->value`, `m->owner_id`, `m->wq`; `linked[c]` is
  `cv->m != NULL`; `wakeup` is the pending wakeup in the normal world; `target`, `ret` are the
  local `handle` of `wq_wake_one` and its return point. `failed[t]` is a history variable: `t` was
  picked and the wakeup RPC for it failed.
* `TaManager`: `ctx`, `sess` are the structures at each address (an address may be freed and used
  again); `siThread`, `siCount` the single-instance lock; a frame of `stack[t]` is one call of
  `tee_ta_open_session`, `_invoke_command`, `_close_session` or `_cancel_command`, with the
  entry point around it, the innermost last; `waitq` holds for each condition variable the threads
  that wait at it, in order of arrival; `known` is what the normal world has been given and has not closed.
* `HTree`: `head`, `node`, `block` are the two versions on disk; `ht` is `struct tee_fs_htree`
  (`changed` the nodes that are dirty, `updated` those with `block_updated`); `hash` is what the
  directory entry or RPMB trusts. `anchored` says whether the file is opened by that hash (every
  object) or by the header counters (the directory when there is no RPMB). `pc` is "extended" after a
  truncation to a longer file, which leaves a dirty tree that nobody syncs.
* `ReeFs`: `dirf` is `dirf.db` on disk, `file` the numbered files; `dirh`, `refcount` are
  `ree_fs_dirh` and `ree_fs_dirh_refcount`; `dirh.files` is the bit string of numbers in use, which
  the code keeps beside the entries and which can differ from them; `dirs[e]` is what an enumeration
  points to (`Stale` when the handle it points to has been freed); `op` is the operation that holds
  `ree_fs_mutex` with its locals. `aborted` stands for a failed assertion or a NULL pointer.
  `errored` is a history variable: since the core was started an RPC has failed, or a create, rename or
  remove been refused.
* `Storage`: `pobj` is the list `tee_pobjs`, at the addresses `Pobjs`; `obj[t]` the object a TA has
  open, with its flags and file handle (`bad` when its tree was closed by an error); `dst[t]` the entry
  that a rename reserves.
* `Threads`: `state`, `copy`, `regs`, `carg`, `mobj` are fields of `threads[n]`; `curr` is
  `curr_thread` of the CPU and `sp` the stack it is on, which are not always the same thread; `at` and
  `rv` say which RPC a thread is in and with which cookie; `cpu` is where a CPU is between two locks.
* `Supplicant`: `wpc`, `serving` the place and the request of each thread; `num_waiters`, `abort` the
  variables of the process; `queue` the requests the driver has not handed out.
* `Rpc`: `cl[c]` is the task of a client: in the core, waiting for tee-supplicant, or ready to resume
  thread `n` with an answer; `shm` are the argument buffers the driver has allocated; `plat` is chosen
  once and says which CPUs there are, which get interrupts, how many threads a process may have, and
  whether the driver turns the cache on and off. `late` is a history variable: a call was made with the
  cache off while a pointer that `thread_disable_prealloc_rpc_cache` left behind was around.

External, modelled from how the code uses it: the RPCs, the driver's use of session ids (it hands
on what open returned and forgets an id before it asks for the close), what a TA does (anything),
and the disk: writes arrive in order, since tee-supplicant opens files with `O_SYNC`
(`optee_client/tee-supplicant/src/tee_supp_fs.c:137`), and a header, smaller than a sector and at
the start of one, is written whole or not at all. The driver of `Rpc` is external as well: it gives
and frees argument buffers itself, hands commands to tee-supplicant in the order they come, answers
them with an error when the process has exited, turns the cache off and on whenever the core lets it and
frees what comes back, makes calls with the cache on and off, and resumes only the thread it was told of.

After an operation that reports an error a handle of `Storage` is bad. TAs seldom go on with one: libutee
panics the TA for all errors but a few (`lib/libutee/tee_api_objects.c:685`, `:711`). If a TA does, the core
follows a NULL pointer where the tree was closed (`object_aborts`); where it was not (a write whose commit
failed) the case is `htree_retry`.

Six things the code does not handle are the mishaps of `ReeFs`. It goes on as if nothing had happened,
and a promise is lost. Which of them a behaviour may meet is chosen at its start, from `MishapSets`, and
kept in `mishaps`, so that a property can be stated for behaviours that meet none of some, and its loss
be shown for others:

| Mishap | What happens | Properties that do not survive it |
|---|---|---|
| `"taken"` | A TA renames an object to a name that is taken; the file system refuses, `tee_pobjs` does not (`tee/tee_svc_storage.c:600`). | `HandleNamesItsObject` (run `storage_rename`), `WritersFindTheirEntry`, and with three events `IsObjectStore` |
| `"rename"` | A rename fails with another error than `TEE_ERROR_GENERIC`, for example out of memory, and passes for success (same line). | the same |
| `"ahead"` | A truncation fails, syncs the file all the same and reports success without telling the directory (`tee/tee_ree_fs.c:882`); the TA goes on. | `WritersFindTheirEntry`, `IsObjectStore` |
| `"replaced"` | The directory file cannot be opened and is replaced by an empty one (`tee/tee_ree_fs.c:527`). | `WritersFindTheirEntry`, `IsObjectStore` |
| `"create"` | The commit of a create takes effect and its RPC fails; the new file is removed from under its entry (`tee/tee_ree_fs.c:737`). | `IsObjectStore` (run `storage_create`) |
| `"enum"` | A TA asks for the next object of an enumeration whose start failed or found none (`tee/tee_svc_storage.c:772`): a NULL pointer. | `AbortsFollowErrors` |

`RefsCounted`, `NumbersTaken`, `Sharing` and the types hold with all of them. The others state their
exception: `AbortsFollowErrors` is about behaviours without `"enum"`, `WritersFindTheirEntry` about those
with at most `"create"` and `"enum"` (`Tame`), and `IsSoundStore` is `IsObjectStore` for those with at
most `"enum"` (`Sound`).

## 3. Runs

| Run | Instance | Shows |
|---|---|---|
| `mutex` | 3 threads, 1 condvar, fair, RPCs that fail; 171,360 states | Types; `OwnerIsHolder`; `QueuedIsWaiting`; `WaitersReachable`; `NoLostWakeup`; `IsMonitor` (refinement of `Monitor`); `Progress`, `PickedRuns`. |
| `ta_sessions` | 2 threads, 2 sessions, 2 contexts, nesting 2; both TAs single-instance, multi-session, may panic; 186,467 states | Types; `OneCallPerInstance`, `SingleInstanceLock`, `SessionRefs`, `ClosesFindTheirSession`, `ContextRefs`, `NoForgottenWaiter`, `Assertions`. |
| `ta_keepalive` | the same size, no panics; one keep-alive single-session TA, one multi-instance TA that calls it; fair; 204,719 states | `NoCorePanic`, `Instances`, `CloseCompletes`, no deadlock. |
| `htree` | 4 blocks, 5 block writes, by hash and by counter; 240,959 states | Types; `HeadersOrdered`; `IsAtomicFile` (refinement of `AtomicFile`); no deadlock. TLC evaluates `ElementsApart` and `CutBehind` (the layout of a file of 64 blocks) as an assumption. |
| `storage` | 2 threads, 1 enumeration, 2 names, 3 file numbers, 2 events, symmetry; all mishaps but `"enum"`, or only that; 915,227 states | Types; `RefsCounted`, `NumbersTaken`, `Sharing`, `AbortsFollowErrors`, `WritersFindTheirEntry`; `IsSoundStore` (refinement of `ObjStore`). |
| `rpc` | 2 clients, 2 threads, 2 cookies; 2 CPUs of which one is interrupted, a cache that goes off and on and a process of one thread, or 1 CPU and three threads; fair; 593,324 states | Types; `StackExclusive`, `AnswersFindTheirThread`, `AnswerIsOwn`, `BuffersHeld`, `WaitersCounted`, `SomebodyListens`, `RequestsAnswered`; no deadlock. |
| `ta_dead`, `ta_self`, `htree_truncate`, `htree_retry`, `storage_rename`, `storage_create` | | Violations, see section 6. |

Bounds. Three threads are a holder, a waiter and a third that interferes (a signaller, or an
unlocker that finds the first element done already). One condvar has elements that wait on it beside
elements that do not; that several do not get into each other's way is what the theorems say, which are for
any number. Two sessions and two contexts let an address be reused while a thread has
an old id, and let a TA have a session of its own. Four blocks give a tree of three levels with a
node that has one child and one with two, so that a sync passes hashes through inner nodes that
are not written themselves; five writes allow creating, committing, overwriting and extending.
`CounterMod` is larger than the writes can reach: the wrap of the 32-bit counter is a hazard, not
a case of these runs. One write can cause more than one sync, because a truncation that fails may
remove nodes that `get_node` creates again: `(MaxBlocks + 1) * MaxWrites + 2` bounds the counter
(`BoundsAssumption`), and `HTreeProofs` shows that it does. `MaxCut = 1` keeps truncations in `htree` to those that remove no node of the
tree and `WriteAhead = FALSE` has the handle closed once the file is synced and the directory does not know,
be it after a failed commit or after a truncation that failed and reported success: with either lifted
the code breaks the property, and that is what the two violation runs are. (A TA cannot tell a truncation that
failed; the bound is an assumption, not something the code sees to.) The layout has a block of nodes
after every 61 versions of data blocks: `MaxIndex = 63` has three of them.

Bounds of `storage`. Two threads are a user and one that interferes with the same object or the
directory; an enumeration keeps the handle open across operations of both. `MaxEvents` counts
operations that modify the store and failures: two are enough for a create or removal between a
writer's open and its write, and for a failed operation followed by one that relies on what the first
left behind (a cleared bit, a freed handle, an older version). Three numbers are the files of two
objects and the new file of a create that replaces one. The directory starts with one object behind a
free entry, so that a create reuses an entry, or with two. To keep the run short `MCSpec` meets the five
mishaps from the one and the sixth from the other; the theorems are for all. The flags are those of an exclusive writer
and of a reader that shares. `MishapSets` has the five mishaps by which objects are lost, and the one by
which they are not (section 2); in `storage_rename` and `storage_create` it has one each. Truncations
do not cut here (that is `htree_truncate`).

Bounds of `rpc`. Two threads are one that is suspended and one that is taken meanwhile, on the CPU
that leaves the first or on the other. Two cookies allow both to have a buffer and one more to be
refused. The platform with one thread of tee-supplicant has every failure of `pthread_create`; with
three, one serves a request that never ends (`Slow`), one serves another, and one listens. A third
thread is the most that two requests at a time can make the process create and use.

Deadlock is checked in `mutex`, `ta_keepalive`, `htree` and `rpc`, and in `storage`, where a core
that has stopped still restarts. `ta_sessions` does not:
with panicking TAs and TAs that open themselves the code does stop (section 6), and the run is
about everything up to there.

Fairness. A thread in the core keeps running and the normal world relays RPCs (`WF` of each thread's
own steps); nobody has to lock, unlock, signal or call. For `CloseCompletes` a TA does not run
forever: its return is strongly fair, as between calls it makes the return is enabled again and
again. Any wakeup RPC may fail (`wq_rpc_wakeup_error`; the code only prints the error): `Progress` and
`PickedRuns` say what is left then, with the waiters that a failure has stranded excepted. In `rpc` a CPU in
the secure world and the threads of tee-supplicant keep running; a task that is ready to return to
the core gets a CPU in the end, though others take it in between (`SF`: the normal world's scheduler);
a request of a client that is not `Slow` is worked off by the thread that has it. Interrupts, calls,
failures, and the answers to slow requests are not fair. `RequestsAnswered` excepts a process that has
given up, because a thread of it may be serving a request that never ends.

Every property of a passing run has a mutant in `PROJECT.json`: a definition marked "Fault" that
replaces the modelled one and makes TLC report that property.

## 4. Proofs

`MutexProofs` proves, for any `Threads` and `Condvars` (finite or not; the assumptions are only that
`NoThread` and `NoCv` are not among them):

* `TypeCorrect`, `MutualExclusion`, `ElementsAreAlive`, `SignalsReachWaiters`, `WakeupsAreKept`: the
  invariants `TypeOK`, `OwnerIsHolder`, `QueuedIsWaiting`, `WaitersReachable`, `NoLostWakeup`;
* `MutexIsMonitor`: `Spec => IsMonitor`, the refinement of `Monitor`.

All rest on `Invariance`, `Spec => []IInv`, where `IInv` is the conjunction of the five invariants of
run `mutex`. None is inductive alone. A condvar promotion makes an element active; that this does
not break `FreeIsNoticed` needs that the promoting thread holds the mutex (`OwnerIsHolder`). That
`wq_wait_final` unlinks the right element, and only it, needs `QueuedIsWaiting`. That an element
that is done is active needs `WaitersReachable`. The proof has one step per action, with the
effect of queueing and unlinking on the queue in `AppendLemma` and `RemoveLemma`, and the choice of
the first element in `FirstLemma`.
`WakeupsAreKept` does not assume that wakeup RPCs work: a waiter that was picked has its wakeup pending, is
about to be sent it, has seen it, or is one whose RPC failed (`failed`).

`RpcProofs` proves, for any `Cores`, `Thr`, `Clients`, `Cookies`, `Platforms` and `MaxWorkers` (assumed are
that thread indices are natural numbers, that `None` is none of these values and `NoRequest` no
client):

* `StacksAreExclusive`, `ThreadsAreFound`, `AnswersAreOwn`: the invariants `StackExclusive`,
  `AnswersFindTheirThread`, `AnswerIsOwn`.

They rest on one invariant (`Invariance`), because none is inductive. That a resumed thread is of one
CPU only needs that suspended threads are with one client or one leaving CPU (`Apart`), and that a
client outside is not also the caller of some CPU (`CpuPlaces`). That a response meets a client that
waits, and so has a thread, needs that tee-supplicant and the driver know of each request once
(`Pending`). That the answer is the right one needs what `THREAD_FLAGS_COPY_ARGS_ON_RETURN` says of a
suspended thread: set, its registers are the RPC's and the answer on the way fits it; clear, they
fit already (`Answers`). Steps are grouped by what they do with a thread: go on with it
(`LocalStep`), enter with it (`EnterStep`), give it up (`GiveUpStep`), take it out (`ExitStep`), answer
it (`AnswerStep`); each action is shown to be one of these.

`SupplicantProofs` proves, for any `MaxWorkers` and whatever `pthread_create` does:

* `WaitersAreCounted`, `ThereIsAListener`: the invariants `WaitersCounted`, `SomebodyListens`.

`num_waiters` is a cardinality, that of the threads that wait, were created to wait, or are about to
create one. It is exact until the process gives up; a thread that leaves `process_one_request` by an
error does not decrement it, so the inductive `WInv` bounds the count from both sides, by those who
wait and by those plus the ones that gave up. That keeps `num_waiters` from going below zero.

`BufferProofs` proves, under the assumptions of `RpcProofs` and that cookies are not clients:

* `BuffersAreHeld`, `RpcTypes`: the invariants `BuffersHeld` and `TypeOK` of `Rpc`.

The invariant `BInv` gives each argument buffer that the driver has allocated exactly one place: a
thread's `rpc_carg`, an RPC that returns it, the registers of a thread that has just been given it,
the task that carries it, or the CPU that resumes with it. It is inductive only with what the place of
a thread says of its fields (`ThreadBuffer`), with nothing being on its way to a thread that was
interrupted (`CpuBuffer`, `ClientBuffer`), and with this: a `rpc_mobj` that `thread_disable_prealloc_rpc_cache` freed
and left is around only while all threads are free, or the cache is on again, or a call has been made
meanwhile (`Dangling`, `late`). The last case is the only one in which a mobj is freed twice (`Excused`); and it uses `IInv` of `RpcProofs` for who has which thread. A step that moves a buffer is
shown to take it from one place to one other (`SamePlaces` and the lemmas after it).

`HTreeProofs` proves, for any `MaxBlocks`, `MaxWrites`, `MaxCut` and `WriteAhead` (so also for the
instances of the two violation runs):

* `HeadersAreOrdered`: the invariant `HeadersOrdered`;

for truncations that cut no node of the tree (`MaxCut <= 1`):

* `TypesAreKept`: the invariant `TypeOK`;

and, if the TA also closes an object whose tree on disk is ahead of its directory entry (`WriteAhead = FALSE`):

* `FileIsAtomic`: `Spec => IsAtomicFile`, the refinement of `AtomicFile`;

and of the layout, for any `MaxIndex`:

* `NothingOverlaps`: `ElementsApart`; so a write to one element of a file leaves all others alone, as it does
  in `HTree`, where headers, nodes and blocks are separate variables;
* `TruncationCutsBehind`: `CutBehind`; so a truncation that removes no node of the tree leaves all of it in the file.

The layout theorems are arithmetic on the quotients and remainders by 31 (nodes to a block) and 61 (versions of
data blocks between two of those), with offsets that do not overflow. A truncation that removes nodes also cuts off
images of nodes when the tree has more than 31 of them; `HTree` keeps them, which changes nothing in
its run, with four blocks, nor in what `HeadersAreOrdered` says of the headers.

Both hypotheses are those of run `htree`, and `FileIsAtomic` needs both: `htree_truncate` and
`htree_retry` are its counterexamples when one is lifted. An extension is covered: it is written to the versions
that are not committed, like a write, and is lost if nothing syncs it. `TypeOK` needs the first: a longer truncation whose
RPC fails leaves a tree with fewer nodes than the file has blocks, as TLC shows within ten steps.

The tree in memory has the counter of the header it was loaded from or wrote last (`TreeOK`), so its
next sync writes the older one. That the counters do not wrap is a potential argument: counter,
number of nodes and the need for a sync together never exceed what the writes so far have paid
(`Spent`, `Budget`). `TInv` adds the shapes of images, nodes and blocks, and that a tree has dirty nodes
only while it is written or synced. `AInv` is what makes an update atomic:

* while there is a file (`Filed`), the version that an open chooses is all there: header, nodes with
  their hashes, blocks (`Chosen`, `Intact`);
* what is written next spares that version (`Spares`): the header and the root go to the other version, and
  so does each block, since its bit is flipped exactly when it is written for the first time. So
  does each node: its bit in the parent differs from the committed one only when it was
  written in this sync, and then nothing at or below it is dirty, so that it is not written again
  (`Settled`). Here the order of the traversal counts: `FirstDirtyIsLowest`, from `PostOrderVisits`;
* the tree in memory is another one than the committed one, by a version of a block or by a node.
  Hence the new root hash is not the old one (`RootTells`: equal root hashes have equal trees below
  them), and a root that is written but not yet committed is not taken for the file;
* what is in memory and not dirty is on disk where its parent says, and has its hash (`InMemory`), so that
  when no node is dirty the header, or the hash in the directory, commits all of it (`MemoryOnDisk`).

Every step then either keeps the file (`KeptStep`) or makes the tree in memory the file (`CommitStep`), and
`StepFile` maps it to a step of `AtomicFile` or to none. The tree and the post-order are recursive
functions; that they exist and what they compute (`TreeExists`, `TreeLinks`, `TreeUnique`, `PostOrderExists`,
`PostOrderVisits`) is proved by taking the least number for which it fails (`LeastNumber`, from
the library's `WFMin`, which has no operator parameter).

`StorageProofs` and `PobjProofs` prove, for any finite `Threads` and `Enums`, any `Names`, `MaxFiles`,
`MaxEvents`, `FlagSets`, any well-formed `InitDirs`, and any `MishapSets`:

* `RefsAreCounted`, `NumbersAreTaken`, `SharingIsAgreed`, `StorageTypes`: the invariants `RefsCounted`,
  `NumbersTaken`, `Sharing` and `TypeOK` of `Storage`.

`SInv` is `FsInv` (between two operations the directory in memory is the one on disk, entries have
different names and files, and the bits cover the files of the entries), `CallInv` (what a thread has,
by the place it is in; a thread waits for an operation exactly when it has one) and `CountInv` (the
count is the number of files, enumerations and operations). The bits may say more than the entries,
because a create that replaces an object does not clear the old one's; that they never say less needs
that a failed operation closes the handle, since its bits are changed before the commit.
`PobjInv` is about `tee_pobjs`. Names of entries are unique, except while a rename has renamed its
object's entry and not yet released the reserved one. An entry is counted by its users and the
renames that reserve it; a reserved one has no users. Flags are those of the first user, and sharing
with it means sharing with all (`tee_pobj_check_access` is transitive). That `tee_pobj_get` finds a
free entry is a pigeonhole argument over twice the threads, for which the invariant counts entries.

For TAs that do not share objects for writing (`Unshared`: no set of flags has both `WRITE` and
`SHARE_WRITE`), `PobjProofs` also proves:

* `WritersDoFindTheirEntry`: the invariant `WritersFindTheirEntry` (of behaviours that are `Tame`);
* `AbortsDoFollowErrors`: the invariant `AbortsFollowErrors` (of behaviours without `"enum"`);
* `StoreIsAtomic`: `Spec => IsSoundStore`, the refinement of `ObjStore` (by behaviours that are `Sound`).

The hypothesis on flags is needed by all three: two writers that share an object have a tree each, and the
second to write syncs over the version that the directory names. With such flags in `FlagSets` TLC finds
each of the three properties violated within ten steps. The exceptions for mishaps are exact, as the table in
section 2 says. The argument:

* `TrackInv`: whoever has a good handle for writing finds the entry at its index, with its file, the
  hash of the version it loaded and the name `tee_pobjs` has for it, in the directory on disk and in
  the one that an operation of another thread is about to commit (`Tracked`). It is inductive with: a
  name that is reserved for a rename is free on disk and stays so (`Reserved`); and an operation adds
  no name but its thread's, unlinks no file that has an entry, and has created the file of its own
  entry (`Adds`). `PobjInv` keeps names apart, so what one thread changes is no other's claim
  (`ApartLemma`).
* `AbortInv`: as long as nothing has failed, an open directory handle has its tree, enumerations
  point to it (`Readable`), and the handles of files have their trees (`Unspoilt`). With `TrackInv` the
  assertions of `tee_fs_dirfile_update_hash` hold. Mishaps break `TrackInv`, but each of them is
  an error: without `"enum"`, `AbortInv /\ (errored \/ TrackInv)` is invariant.
* `OpInv`: while an operation is under way, the store that opens would find after its commit differs
  from the present one by its effect (`Effects`); after a commit that took place the disk has what is in
  memory; before, the file of a create has no entry. Every step of `Storage` then is one of five kinds
  (`StoreStep`), each a step of `ObjStore` or a stutter (`StepStore`): a sync changes only the version that
  the directory does not name (`LoadedKept`), and what is unlinked has no entry, since a create that
  reports an error has not taken effect (the mishap `"create"` is out).

`ObjStore` is shown for a `NoOp` that is not one of its requests (`NoRequestAssumption`).

`TaProofs` proves, for any `Threads`, `Uuids`, `Sessions`, `Ctxs`, any flags, `Calls` and `MaxDepth`
(finite or not; assumed are only that the flags are sets of uuids and the `No...` values are not
members of the sets they are beside; `FlagsAssumption`, `NoneAssumption`):

* `TaTypes`, `InstancesAreEnteredOnce`, `LockIsCounted`, `SessionsAreCounted`, `ClosesFind`,
  `ContextsAreCounted`, `InstancesAreSingle`: the invariants `TypeOK`, `OneCallPerInstance`,
  `SingleInstanceLock`, `SessionRefs`, `ClosesFindTheirSession`, `ContextRefs`, `Instances`;
* `WaitersAreTold`, `AssertionsHold`: the invariants `NoForgottenWaiter` and `Assertions`;
* `CoreDoesNotPanic`: the invariant `NoCorePanic`, if `Calls` lies in a strict order (`CallOrder`), that is,
  if no TA can reach itself through the sessions that TAs open. `ta_self` shows that this is needed.

The first seven rest on `TaInv`. It sees the calls of all threads as one function from slots (thread
and depth) to calls, because a step changes one slot, and what is counted changes by at most that slot
(`CountStep`); the sets that are counted stay finite without any being assumed to be. A call made by a TA
is on top of the call in which that TA runs or is destroyed (`StackInv`). A session has one owner: the
open that has not returned it yet, the close that will free it, the normal world, or the list of a
TA (`SessOwners`); hence two closes of one session do not meet, and a close finds its session. A
context that is no longer linked has no references and one call that destroys it (`CtxLinks`); so an
address is used again only when nobody refers to what was there.

`WaitersAreTold` and `AssertionsHold` rest on `WaitInv`, which adds that the exclusive lock of a session belongs to one call of
the thread that has it (`LockedInv`), which holds because the calls of one thread work on the lists of
different owners; that a thread is in the queue of one condition variable, the one its innermost call
says (`QueueInv`); and `NoForgottenWaiter` itself. A signal wakes one thread, and what the others wait
for may have come about as well: `NoForgottenWaiter` holds again because the one that is woken will
signal in turn, which the invariant says as "one that was woken has yet to look".

`CoreDoesNotPanic` rests on `PanicInv`. `tee_ta_set_busy` panics when a thread that has the
single-instance lock finds its TA busy. A busy single-instance TA is in a call of the thread that has the
lock; one that is not has a single session, which one call uses. Either way the thread would be in
that TA already (`BusyIsReentry`). It is not: the TAs of a thread's calls, from the outermost to the innermost,
rise in the order (`CallsRise`), because a TA's list has sessions of TAs that it may call only
(`ListsFollow`), and so have the opens under way (`OpensFollow`).

Only model-checked:

* `Progress`, `PickedRuns`, `CloseCompletes`, `RequestsAnswered`: liveness under fairness is out of the
  prover's reach.

`HandleNamesItsObject` is the property of a violation run; there is nothing to prove.

## 5. Plan

Done: `Monitor`, `Mutex`, `MutexProofs`, `TaManager`, `TaProofs`, `AtomicFile`, `HTree`, `FileLayout`, `HTreeProofs`,
`ObjStore`, `ReeFs`, `Storage`, `StorageProofs`, `PobjProofs`, `Threads`, `Supplicant`, `Rpc`,
`RpcProofs`, `SupplicantProofs`, `BufferProofs`.

Theorems that could follow: `Assertions` and `NoForgottenWaiter` are proved with the condition variables
taken as in `TaManager`; a composition with `Mutex` would rest them on `MutexIsMonitor`. `ReeFs` takes a file to
be two versions with an atomic commit, which `FileIsAtomic` shows of the directory and of each object; the
composition of the two modules is not stated.

Models that could follow: the arithmetic of `set_invoke_timeout`; the
pool of page tables (`pgt_cache.c`) and its liveness; the RPMB file system; sessions of `libpkcs11`.

## 6. Where the code and what is said of it disagree

* `ta_dead`: opening a session to a TA that has panicked hangs. `tee_ta_open_session`
  (`kernel/tee_ta_manager.c:551-556`) closes the session without putting its own reference, and
  `tee_ta_unlink_session` waits for the count to become 1.
* `ta_self`: "Deadlock avoided" (`:567`), and the close that follows panics the core (`:133-137`).
* `htree_truncate`: `ree_fs_truncate` (`tee/tee_ree_fs.c:878-884`) has its checks inverted; a
  truncation cuts blocks off the file and is never synced, although `documentation/secure_storage.md`
  lists Truncate among the atomic operations.
* `htree_retry`: a file is synced and its directory entry is not, so that the handle is one version ahead
  of the directory and the next write overwrites what the directory trusts. There are two ways: a
  truncation to a longer file is left unsynced, and a later truncation that fails syncs it and reports
  success (`tee/tee_ree_fs.c:879-884`; TLC's trace); or the directory's commit after a write fails
  (`:769`). In the first no error was reported to the TA.
* `storage_rename`: a rename to the name of an object that exists is refused by the file system
  (`tee/tee_ree_fs.c:796`) with an error that `syscall_storage_obj_rename`
  (`tee/tee_svc_storage.c:599-603`) treats like success: the entry of `tee_pobjs` is renamed. The test
  (`optee_test/host/xtest/regression_6000.c:1316`) expects an access conflict and has both objects
  open, when `tee_pobj_get` already refuses; with the other object closed the handle then goes by the
  other object's name.
  Other errors than `TEE_ERROR_GENERIC`, like out of memory, take the same path (mishap `"rename"`).
* `storage_create`: the commit of a create takes effect on disk and its RPC reports an error; the code then
  removes the new file (`tee/tee_ree_fs.c:733-738`), which the directory names. The create has failed, and
  what it was to replace is gone, where `secure_storage.md:9-11` says that "either the entire
  operation completes successfully or no write is done".
* The comment in `get_offs_size` (`tee/tee_ree_fs.c:173-177`) puts version 1 of block 30 into physical block 63
  and the next nodes into 64; the code has them the other way round. Either is a layout without overlaps;
  `FileLayout` follows the code.

## 7. Not modelled

Beyond the components left out: cryptography is ideal (a hash is what it hashes, a tag
authenticates one write); contents smaller than a block; parameters of TA calls (with
`CFG_SECURE_DATA_PATH` off, the default for this platform, `check_params` accepts all); timeouts;
`mutex_destroy`; the loading of a TA beyond success and failure; the panicking assertions of
`condvar_destroy` are conditions in `Assertions`.

In `Storage`: attributes, positions and sizes of objects; a TA with several objects open, or one that
panics in a system call; the same object id in several TAs (an id here stands for the pair); an allocation
that fails inside a lookup without closing the directory's tree. `ObjStore` is about the operations
of the file system: when a create fails with an error that says that something is corrupt,
`syscall_storage_obj_create` removes the object of that name (`tee/tee_svc_storage.c:503-506`), also one
that was to be replaced. The model takes that step (`init_file`, "purge"), and to `ObjStore` it is a remove
like another.

In `Rpc`: native interrupts, aborts, PSCI and other fast calls than those of the cache; VFP state and
user mappings of a thread; `hyp_clnt_id`, which only counts with a hypervisor; shared memory of
tee-supplicant's requests (`num_meta` is not 0 with this driver); plugins and the services behind a
request. A thread's call is a sequence of RPCs of any length.

Not modelled at all are the packages that are vendored from other projects (DPDK, OVS, ODP, OpenSSL,
iproute2 and more, which are most of the repository's lines), those that only drive hardware, and
scripts; `PROJECT.json` gives the reason for each.
