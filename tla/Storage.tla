------------------------------- MODULE Storage -------------------------------
(***************************************************************************)
(* Persistent objects: the storage system calls                            *)
(* (core/tee/tee_svc_storage.c, tee_obj.c), the table of objects in use    *)
(* with their access rights (tee_pobj.c), and the REE file system below.   *)
(* Each thread is in one instance of a TA, which has one object open at a  *)
(* time; enumerations are walked by instances of their own.  A step is a   *)
(* section under pobjs_mutex or ree_fs_mutex; threads interleave between   *)
(* them.                                                                   *)
(*                                                                         *)
(* After an operation that failed the handle is bad: the TA does not go on *)
(* reading and writing, for libutee panics it for all but a few errors     *)
(* (lib/libutee/tee_api_objects.c:685, 711), or it does and the core       *)
(* follows a NULL pointer (object_aborts).                                 *)
(***************************************************************************)
EXTENDS ReeFs

CONSTANTS FlagSets,    \* the flags TAs pass to open and create
          NoObj, NoPobj

Flags == {"READ", "WRITE", "META", "SHARE_READ", "SHARE_WRITE"}

ASSUME FlagsAssumption == FlagSets \subseteq SUBSET Flags

(* Each thread has at most its object and the name it renames to.          *)
Pobjs == 1..2 * Cardinality(Threads)

NoHandle == [num |-> NoNum, bad |-> FALSE]
Handles == FileHandle \cup {NoHandle}
Pobj == [name : Names, flags : SUBSET Flags, temporary : BOOLEAN, refcnt : Nat]
Object == [flags : SUBSET Flags, po : Pobjs, fh : Handles]

ASSUME NoObjAssumption == NoObj \notin Object /\ NoPobj \notin Pobj

(* NoOp also stands for no operation of the abstract store (ObjStore.tla). *)
ASSUME NoRequestAssumption ==
  NoOp \notin [kind : {"create", "write", "rename", "remove"}, name : Names, to : Names,
               done : BOOLEAN, res : {"none", "ok", "error"}]

VARIABLES
  pobj,     \* tee_pobjs: struct tee_pobj
  obj,      \* struct tee_obj of each thread
  dst,      \* po of syscall_storage_obj_rename: the reserved name
  started,  \* e->fops of the enumeration is set
  pc        \* where the thread is in its system call

svars == <<pobj, obj, dst, started, pc, mishaps>>
vars == <<fsvars, svars>>

Init == /\ FsInit
        /\ pobj = [p \in Pobjs |-> NoPobj]
        /\ obj = [t \in Threads |-> NoObj]
        /\ dst = [t \in Threads |-> 0]
        /\ started = [e \in Enums |-> FALSE]
        /\ pc = [t \in Threads \cup Enums |-> "idle"]

Goto(t, l) == pc' = [pc EXCEPT ![t] = l]

-----------------------------------------------------------------------------
(* tee_pobj.c                                                              *)

(* Fault: only the flags that are asked for are looked at.                 *)
check_access_new_only(o, n) ==
  /\ "META" \notin n
  /\ "READ" \in n => "SHARE_READ" \in n
  /\ "WRITE" \in n => "SHARE_WRITE" \in n

(* Flags n may be used beside flags o.                                     *)
tee_pobj_check_access(o, n) ==
  /\ "META" \notin o \cup n
  /\ "READ" \in o \cup n => "SHARE_READ" \in o \cap n
  /\ "SHARE_READ" \in o <=> "SHARE_READ" \in n
  /\ "WRITE" \in o \cup n => "SHARE_WRITE" \in o \cap n
  /\ "SHARE_WRITE" \in o <=> "SHARE_WRITE" \in n

Named(n) == {p \in Pobjs : pobj[p] # NoPobj /\ pobj[p].name = n}

(* Fault: an entry that is shared is not counted.                          *)
pobj_get_uncounted(n, flags, temporary, p) ==
  \/ /\ p \in Named(n) /\ p = Max(Named(n))
     /\ pobj[p].temporary = temporary
     /\ tee_pobj_check_access(pobj[p].flags, flags)
     /\ UNCHANGED pobj
  \/ /\ Named(n) = {} /\ p = Min({q \in Pobjs : pobj[q] = NoPobj})
     /\ pobj' = [pobj EXCEPT ![p] = [name |-> n, flags |-> flags,
                                     temporary |-> temporary, refcnt |-> 1]]

(* The entry p is what tee_pobj_get returns.                               *)
tee_pobj_get(n, flags, temporary, p) ==
  \/ /\ p \in Named(n) /\ p = Max(Named(n))
     /\ pobj[p].temporary = temporary
     /\ tee_pobj_check_access(pobj[p].flags, flags)
     /\ pobj' = [pobj EXCEPT ![p].refcnt = @ + 1]
  \/ /\ Named(n) = {} /\ p = Min({q \in Pobjs : pobj[q] = NoPobj})
     /\ pobj' = [pobj EXCEPT ![p] = [name |-> n, flags |-> flags,
                                     temporary |-> temporary, refcnt |-> 1]]

tee_pobj_release(p) ==
  pobj' = IF pobj[p].refcnt = 1 THEN [pobj EXCEPT ![p] = NoPobj]
          ELSE [pobj EXCEPT ![p].refcnt = @ - 1]

tee_pobj_rename(p, n) == pobj' = IF pobj[p].refcnt # 1 THEN pobj
                                 ELSE [pobj EXCEPT ![p].name = n]

-----------------------------------------------------------------------------
Idle(t) == Running /\ pc[t] = "idle"
NameOf(t) == pobj[obj[t].po].name
Use(t, right) == Idle(t) /\ obj[t] # NoObj /\ right \in obj[t].flags
SetHandle(t, f) == obj' = [obj EXCEPT ![t].fh = f]
Spoil(t) == obj' = [obj EXCEPT ![t].fh.bad = TRUE]
Stay == UNCHANGED fsvars

(* syscall_storage_obj_open and _create up to the file operation.  An      *)
(* access conflict changes nothing.                                        *)
obj_get(t, n, flags, l) ==
  /\ Idle(t) /\ obj[t] = NoObj
  /\ \E p \in Pobjs : /\ tee_pobj_get(n, flags, l = "create", p)
                      /\ obj' = [obj EXCEPT ![t] = [flags |-> flags, po |-> p, fh |-> NoHandle]]
  /\ Goto(t, l)
  /\ Stay /\ UNCHANGED <<dst, started, mishaps>>

syscall_storage_obj_open(t, n, flags) == obj_get(t, n, flags, "open")

syscall_storage_obj_create(t, n, flags) == obj_get(t, n, flags, "create")

(* tee_svc_storage_read_head, which may fail before and after the file is  *)
(* open: an object that is corrupt is removed, after other errors it is    *)
(* closed.                                                                 *)
read_head(t) ==
  /\ pc[t] = "open"
  /\ \/ \E k \in Nums, i \in DOMAIN get_dirh.ents, v \in Vers :
          LET f == [num |-> k, idx |-> i, ver |-> v, bad |-> FALSE]
          IN /\ ree_fs_open(NameOf(t), f) /\ SetHandle(t, f)
             /\ \/ Goto(t, "idle") /\ Works
                \/ (Goto(t, "close") \/ Goto(t, "purge")) /\ Fails
     \/ ree_fs_open_not_found(NameOf(t)) /\ Goto(t, "release") /\ UNCHANGED obj
     \/ ree_fs_open_corrupt(NameOf(t)) /\ Goto(t, "purge") /\ UNCHANGED obj
     \/ ree_fs_open_fails /\ Goto(t, "release") /\ UNCHANGED obj
  /\ UNCHANGED <<pobj, dst, started, mishaps>>

(* tee_svc_storage_init_file.  After an error that says that something is  *)
(* corrupt the object of the name is removed, also the one that was to be  *)
(* replaced.                                                               *)
init_file(t) ==
  /\ pc[t] = "create"
  /\ \/ ree_fs_create(t, NameOf(t)) /\ Goto(t, "creating")
     \/ ree_fs_create_fails /\ (Goto(t, "release") \/ Goto(t, "purge"))
  /\ UNCHANGED <<pobj, obj, dst, started, mishaps>>

init_file_end(t) ==
  /\ pc[t] = "creating" /\ ree_fs_create_end
  /\ IF op.res = "ok" THEN SetHandle(t, op.fh) /\ Goto(t, "idle")
     ELSE UNCHANGED obj /\ (Goto(t, "release") \/ Goto(t, "purge"))
  /\ UNCHANGED <<pobj, dst, started, mishaps>>

-----------------------------------------------------------------------------
(* A read that works changes nothing; one that fails costs the handle its  *)
(* tree.  What is corrupt is removed.                                      *)
syscall_storage_obj_read_fails(t) ==
  /\ Use(t, "READ") /\ ~obj[t].fh.bad /\ Unlocked
  /\ Fails
  /\ UNCHANGED <<dirf, file, dirh, refcount, dirs, op, aborted>>
  /\ \/ Spoil(t) /\ UNCHANGED pc
     \/ Goto(t, "purge") /\ UNCHANGED obj
  /\ UNCHANGED <<pobj, dst, started, mishaps>>

syscall_storage_obj_write(t) ==
  /\ Use(t, "WRITE")
  /\ \/ ree_fs_write(t, obj[t].fh) /\ Goto(t, "writing") /\ UNCHANGED obj
     \/ ree_fs_write_fails(obj[t].fh) /\ Spoil(t) /\ UNCHANGED pc
  /\ UNCHANGED <<pobj, dst, started, mishaps>>

write_end(t) ==
  /\ pc[t] = "writing" /\ ree_fs_write_end
  /\ SetHandle(t, [op.fh EXCEPT !.bad = (op.res # "ok")])
  /\ Goto(t, "idle")
  /\ UNCHANGED <<pobj, dst, started, mishaps>>

syscall_storage_obj_trunc(t) ==
  LET f == obj[t].fh IN
  /\ Use(t, "WRITE")
  /\ \/ ree_fs_truncate(f) /\ UNCHANGED <<obj, pc>>
     \/ /\ \E g \in {f, [f EXCEPT !.bad = TRUE], [f EXCEPT !.ver = 1 - f.ver]} :
             ree_fs_truncate_fails(f, g) /\ SetHandle(t, g)
        /\ UNCHANGED pc
     \/ /\ ree_fs_write_fails(f)
        /\ \/ Spoil(t) /\ UNCHANGED pc
           \/ Goto(t, "purge") /\ UNCHANGED obj
  /\ UNCHANGED <<pobj, dst, started, mishaps>>

-----------------------------------------------------------------------------
(* syscall_storage_obj_del, and tee_svc_storage_remove_corrupt_obj ("purge"*)
(* for a handle without the right to).  The object is closed in any case.  *)
CanDelete(t) == Use(t, "META") \/ (Running /\ pc[t] = "purge")

syscall_storage_obj_del(t) ==
  /\ CanDelete(t)
  /\ \/ ree_fs_remove(t, NameOf(t)) /\ Goto(t, "deleting")
     \/ ree_fs_remove_fails /\ Goto(t, "close")
  /\ UNCHANGED <<pobj, obj, dst, started, mishaps>>

del_end(t) ==
  /\ pc[t] = "deleting" /\ ree_fs_remove_end
  /\ Goto(t, "close")
  /\ UNCHANGED <<pobj, obj, dst, started, mishaps>>

(* syscall_cryp_obj_close, tee_obj_close: the file, then the entry.        *)
tee_obj_close(t) ==
  /\ obj[t] # NoObj /\ (Idle(t) \/ (Running /\ pc[t] = "close"))
  /\ IF obj[t].fh.num = NoNum THEN Stay ELSE ree_fs_close
  /\ SetHandle(t, NoHandle)
  /\ Goto(t, "release")
  /\ UNCHANGED <<pobj, dst, started, mishaps>>

obj_release(t) ==
  /\ Running /\ pc[t] = "release"
  /\ tee_pobj_release(obj[t].po)
  /\ obj' = [obj EXCEPT ![t] = NoObj]
  /\ Goto(t, "idle")
  /\ Stay /\ UNCHANGED <<dst, started, mishaps>>

-----------------------------------------------------------------------------
(* The new name is reserved, the object moved, and the entry of tee_pobjs  *)
(* renamed: unless the move failed with TEE_ERROR_GENERIC, and so also     *)
(* when the file system refused it or it failed for another reason.        *)
syscall_storage_obj_rename(t, m) ==
  /\ Use(t, "META")
  /\ "taken" \in mishaps \/ tee_fs_dirfile_find(dirf, m) = 0
  /\ \E p \in Pobjs : tee_pobj_get(m, {"META"}, FALSE, p) /\ dst' = [dst EXCEPT ![t] = p]
  /\ Goto(t, "rename")
  /\ Stay /\ UNCHANGED <<obj, started, mishaps>>

rename_move(t) ==
  LET m == pobj[dst[t]].name IN
  /\ pc[t] = "rename"
  /\ \/ ree_fs_rename(t, NameOf(t), m) /\ Goto(t, "renaming")
     \/ /\ ree_fs_rename_fails
        /\ \/ Goto(t, "rename_failed")
           \/ /\ ree_fs_rename_refuses(NameOf(t), m) \/ "rename" \in mishaps
              /\ Goto(t, "renamed")
  /\ UNCHANGED <<pobj, obj, dst, started, mishaps>>

rename_end(t) ==
  /\ pc[t] = "renaming" /\ ree_fs_rename_end
  /\ \/ op.res = "error" /\ Goto(t, "rename_failed")
     \/ (op.res = "ok" \/ "rename" \in mishaps) /\ Goto(t, "renamed")
  /\ UNCHANGED <<pobj, obj, dst, started, mishaps>>

rename_pobj(t) ==
  /\ Running /\ pc[t] = "renamed"
  /\ tee_pobj_rename(obj[t].po, pobj[dst[t]].name)
  /\ Goto(t, "unreserve")
  /\ Stay /\ UNCHANGED <<obj, dst, started, mishaps>>

rename_unreserve(t) ==
  /\ Running /\ pc[t] \in {"unreserve", "rename_failed"}
  /\ tee_pobj_release(dst[t])
  /\ dst' = [dst EXCEPT ![t] = 0]
  /\ IF pc[t] = "unreserve" THEN UNCHANGED obj ELSE Spoil(t)
  /\ Goto(t, "idle")
  /\ Stay /\ UNCHANGED <<started, mishaps>>

-----------------------------------------------------------------------------
(* Enumerations; one that is started is reset before it is started again.  *)
syscall_storage_start_enum(e) ==
  /\ Idle(e) /\ ~started[e]
  /\ ree_fs_opendir(e) \/ ree_fs_opendir_fails
  /\ started' = [started EXCEPT ![e] = TRUE]
  /\ UNCHANGED <<pobj, obj, dst, pc, mishaps>>

(* The object that is found is opened and closed again without an entry in *)
(* tee_pobjs.                                                              *)
syscall_storage_next_enum(e) ==
  /\ Idle(e) /\ dirs[e] # Closed
  /\ \/ \E n \in Names : ree_fs_readdir(e, n) /\ Goto(e, "peek")
     \/ ree_fs_readdir_ends(e) /\ UNCHANGED pc
  /\ UNCHANGED <<pobj, obj, dst, started, mishaps>>

(* Between the open and the close the file has one reference more, which   *)
(* nobody else can tell.                                                   *)
enum_read_head(e) ==
  /\ pc[e] = "peek"
  /\ ree_fs_open_close \/ ree_fs_open_fails
  /\ Goto(e, "idle")
  /\ UNCHANGED <<pobj, obj, dst, started, mishaps>>

(* syscall_storage_reset_enum and _free_enum.                              *)
syscall_storage_reset_enum(e) ==
  /\ Idle(e) /\ started[e]
  /\ IF dirs[e] = Closed THEN Stay ELSE ree_fs_closedir(e)
  /\ started' = [started EXCEPT ![e] = FALSE]
  /\ UNCHANGED <<pobj, obj, dst, pc, mishaps>>

-----------------------------------------------------------------------------
Reset == /\ UNCHANGED mishaps
         /\ pobj' = [p \in Pobjs |-> NoPobj]
         /\ obj' = [t \in Threads |-> NoObj]
         /\ dst' = [t \in Threads |-> 0]
         /\ started' = [e \in Enums |-> FALSE]
         /\ pc' = [t \in Threads \cup Enums |-> "idle"]

crash == FsCrash /\ Reset

(* The core stops in a system call.  One that uses a handle whose tree is  *)
(* gone follows a NULL pointer (get_meta, tee_ree_fs.c:379).               *)
object_aborts(t) ==
  /\ \/ /\ \/ /\ pc[t] \in {"open", "create", "purge", "rename"} \/ Use(t, "META")
              /\ DirUseAborts
           \/ Use(t, "WRITE") /\ ree_fs_write_aborts(obj[t].fh)
           \/ Idle(t) /\ obj[t] # NoObj /\ obj[t].fh.bad /\ Unlocked
        /\ UNCHANGED errored
     \/ pc[t] \in {"create", "rename"} /\ FirstFindFails
  /\ Abort /\ Reset

(* When the start of an enumeration failed, readdir gets a NULL pointer.   *)
enum_aborts(e) ==
  /\ \/ (pc[e] = "peek" \/ (Idle(e) /\ ~started[e])) /\ DirUseAborts
     \/ "enum" \in mishaps /\ Idle(e) /\ started[e] /\ dirs[e] = Closed /\ Unlocked
     \/ Idle(e) /\ dirs[e] # Closed /\ (ree_fs_readdir_aborts(e) \/ ree_fs_closedir_aborts(e))
  /\ Abort /\ UNCHANGED errored /\ Reset

ree_fs == /\ commit_dirh_writes \/ commit_dirh_writes_fails \/ open_dirh_replaces
          /\ UNCHANGED svars

Next == \/ crash \/ ree_fs
        \/ \E t \in Threads :
             \/ \E n \in Names, f \in FlagSets :
                  \/ syscall_storage_obj_open(t, n, f)
                  \/ syscall_storage_obj_create(t, n, f)
             \/ read_head(t) \/ init_file(t) \/ init_file_end(t)
             \/ syscall_storage_obj_read_fails(t)
             \/ syscall_storage_obj_write(t) \/ write_end(t)
             \/ syscall_storage_obj_trunc(t)
             \/ syscall_storage_obj_del(t) \/ del_end(t)
             \/ tee_obj_close(t) \/ obj_release(t)
             \/ \E m \in Names : syscall_storage_obj_rename(t, m)
             \/ rename_move(t) \/ rename_end(t) \/ rename_pobj(t) \/ rename_unreserve(t)
             \/ object_aborts(t)
        \/ \E e \in Enums :
             \/ syscall_storage_start_enum(e) \/ syscall_storage_next_enum(e)
             \/ enum_read_head(e) \/ syscall_storage_reset_enum(e)
             \/ enum_aborts(e)

Spec == Init /\ [][Next]_vars

-----------------------------------------------------------------------------
PCs == {"idle", "open", "create", "creating", "writing", "purge",
        "deleting", "close", "release", "rename", "renaming", "renamed",
        "rename_failed", "unreserve", "peek"}

(* Types; a thread that waits for its operation is the one that has it     *)
(* under way, and the references of an entry of tee_pobjs are the threads  *)
(* that use it (tee_pobj_get, tee_pobj_release).                           *)
TypeOK ==
  /\ \A i \in DOMAIN dirf : dirf[i] \in Entry \cup {Free}
  /\ file \in [Nums -> FileVersions \cup {NoFile}]
  /\ dirh # Closed => dirh.files \subseteq Nums /\ dirh.dead \in BOOLEAN
  /\ refcount \in 0..Cardinality(Threads) + 2 * Cardinality(Enums) + 1
  /\ \A t \in Threads :
       /\ pc[t] \in PCs
       /\ obj[t] # NoObj => obj[t].po \in Pobjs /\ obj[t].fh \in Handles
       /\ pc[t] \in {"creating", "writing", "deleting", "renaming"} <=>
            (op # NoOp /\ op.by = t)
  /\ \A p \in Pobjs : pobj[p] # NoPobj =>
       pobj[p].refcnt = Cardinality({t \in Threads : obj[t] # NoObj /\ obj[t].po = p})
                      + Cardinality({t \in Threads : dst[t] = p})

(* tee_ree_fs.c get_dirh, put_dirh: ree_fs_dirh_refcount is the number of  *)
(* open files and enumerations, and of operations under way, however many  *)
(* of them failed and closed the handle meanwhile; so the handle is closed *)
(* when nobody needs it and put_dirh_primitive's assertion holds.          *)
HasFile(t) == obj[t] # NoObj /\ obj[t].fh.num # NoNum
RefsCounted ==
  /\ refcount = Cardinality({t \in Threads : HasFile(t)})
              + Cardinality({e \in Enums : dirs[e] # Closed})
              + (IF op = NoOp THEN 0 ELSE 1)
  /\ refcount = 0 => dirh = Closed

(* fs_dirfile.c: the number tee_fs_dirfile_get_tmp hands out, whose file   *)
(* is then truncated, is never that of an object on disk, though removals  *)
(* whose commit failed have cleared bits in memory; and no two objects     *)
(* have the same file.                                                     *)
NumbersTaken ==
  /\ Cardinality(NumsOf(dirf)) = Cardinality(Live(dirf))
  /\ op = NoOp /\ dirh # Closed => NumsOf(dirf) \subseteq dirh.files

(* tee_pobj.c: whoever has an object open beside somebody else has asked   *)
(* for no more than all of them share, though only the flags of the first  *)
(* are kept; an object is renamed or deleted by its only user.             *)
Sharing ==
  \A t, u \in Threads :
    (t # u /\ obj[t] # NoObj /\ obj[u] # NoObj /\ NameOf(t) = NameOf(u)) =>
      /\ "META" \notin obj[t].flags
      /\ "READ" \in obj[t].flags => "SHARE_READ" \in obj[u].flags
      /\ "WRITE" \in obj[t].flags => "SHARE_WRITE" \in obj[u].flags

(* The assertions of fs_dirfile.c and tee_ree_fs.c hold, and no pointer to *)
(* a handle or a tree that is gone is used, as long as no RPC has failed   *)
(* and no create, rename or remove been refused: a write finds the entry   *)
(* of its object where it was when it was opened, whatever other threads   *)
(* removed, renamed or replaced meanwhile.  A TA that goes on with an      *)
(* enumeration that did not start is excepted (tee_svc_storage.c:772).     *)
AbortsFollowErrors == aborted /\ "enum" \notin mishaps => errored

(* The mishaps that do not make a writer lose its object.                  *)
Tame == mishaps \subseteq {"create", "enum"}

(* tee_ree_fs.c: the handle of a writer stays good: whatever others do to  *)
(* the directory meanwhile, with or without success, its index is that of  *)
(* an entry with its file, whose hash is that of the version it has loaded.*)
(* Behaviours that may meet another mishap are excepted.                   *)
WritersFindTheirEntry ==
  Tame => \A t \in Threads :
    (pc[t] = "idle" /\ HasFile(t) /\ "WRITE" \in obj[t].flags /\ ~obj[t].fh.bad) =>
      LET f == obj[t].fh
      IN /\ f.idx \in Live(dirf) /\ dirf[f.idx].num = f.num
         /\ file[f.num] # NoFile /\ file[f.num][f.ver] = dirf[f.idx].hash

-----------------------------------------------------------------------------
(* The contents an open finds: which file, and what is in it.              *)
Content(n) ==
  LET i == tee_fs_dirfile_find(dirf, n)
  IN IF i # 0 /\ VersionOf(dirf[i].num, dirf[i].hash) # {}
     THEN <<dirf[i].num, dirf[i].hash>> ELSE <<>>

Store == INSTANCE ObjStore WITH
           store <- [n \in Names |-> Content(n)],
           req <- IF op = NoOp THEN NoOp
                  ELSE [kind |-> op.kind, name |-> op.name, to |-> op.to,
                        done |-> op.done, res |-> IF op.pc = "commit" THEN "none" ELSE op.res],
           None <- <<>>, NoReq <- NoOp

(* secure_storage.md:9, 193: create, write, rename and delete are atomic.  *)
(* Whatever fails and whenever the power goes, every object is as its last *)
(* completed operation left it, and an operation that reports success has  *)
(* had its effect on the disk.                                             *)
IsObjectStore == Store!Spec

(* An enumeration whose start failed is no matter for the store.           *)
Sound == mishaps \subseteq {"enum"}

(* secure_storage.md:9, 193: create, write, rename and delete are atomic,  *)
(* as IsObjectStore says, in behaviours that meet none of the mishaps of   *)
(* tee_ree_fs.c and tee_svc_storage.c by which the store is lost.  (Steps  *)
(* that leave the disk and the operation alone stutter.)                   *)
IsSoundStore ==
  Store!Init /\ [][Sound => UNCHANGED <<dirf, file, op>> \/ Store!Next]_(Store!vars)

(* optee_test/host/xtest/regression_6000.c:1316: a rename to the name of   *)
(* an object that exists is an access conflict, and the object keeps its   *)
(* name.  So the object a handle works on is the one of the name the core  *)
(* keeps for it, by which it is protected, deleted and renamed.            *)
HandleNamesItsObject ==
  \A t \in Threads :
    (pc[t] = "idle" /\ HasFile(t) /\ ~obj[t].fh.bad /\ "META" \in obj[t].flags) =>
      \A i \in Live(dirf) : dirf[i].num = obj[t].fh.num => dirf[i].name = NameOf(t)
=============================================================================
