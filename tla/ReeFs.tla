-------------------------------- MODULE ReeFs --------------------------------
(***************************************************************************)
(* The REE file system (core/tee/tee_ree_fs.c) and its directory file      *)
(* (core/tee/fs_dirfile.c): objects are numbered files, and dirf.db says   *)
(* which file, with which root hash, is which object.                      *)
(*                                                                         *)
(* Every operation runs under ree_fs_mutex, so what happens inside one can *)
(* only be seen by a power failure.  An operation that modifies the store  *)
(* is cut into: everything up to the commit of the directory; the commit;  *)
(* everything after it.  Others are one step.  Any RPC may fail, and the   *)
(* write that commits the directory may fail after it took effect          *)
(* (HTree!sync_head_fails).                                                *)
(*                                                                         *)
(* Files are as HTree.tla shows them: two versions, of which a sync writes *)
(* the one its handle did not load.  Contents are numbers, a new one for   *)
(* each sync (no entry and no version that is kept has it), and are their  *)
(* own hash.  A file that no entry names is not told apart from one that   *)
(* is gone, since a create truncates it.                                   *)
(*                                                                         *)
(* The directory file exists from the start.  Truncations that cut blocks  *)
(* off a file in use are in HTree.tla only; an extension is a change of    *)
(* the handle's memory, which only a truncation that fails, or a write,    *)
(* takes to the disk.                                                      *)
(*                                                                         *)
(* Mishaps are the occurrences that the code does not handle: it goes on   *)
(* as if nothing had happened and its promises are lost.  Which of them    *)
(* may happen is chosen at the start, so that a property can be stated of  *)
(* the behaviours that meet none of some, and its loss be shown for one.   *)
(***************************************************************************)
EXTENDS Naturals, Sequences, FiniteSets, FiniteSetsExt

CONSTANTS Threads,
          Names,       \* object ids (of one TA)
          Enums,       \* storage enumerations
          MaxFiles,    \* bound on the file numbers
          MaxEvents,   \* bound on the operations that modify the store or fail
          InitDirs,    \* what dirf.db may hold at the start
          MishapSets,  \* the sets of mishaps of which one may happen
          Closed, Stale, NoFile, Free, NoOp

Vers == {0, 1}
Nums == 0..MaxFiles - 1
NoNum == MaxFiles
Contents == 1..4
Entry == [name : Names, num : Nums, hash : Contents]
FileVersions == [Vers -> {0} \cup Contents]

ASSUME SetsAssumption ==
  /\ IsFiniteSet(Threads) /\ IsFiniteSet(Enums) /\ Threads \cap Enums = {}
  /\ MaxFiles \in Nat /\ MaxEvents \in Nat

ASSUME NonesAssumption ==
  /\ Free \notin Entry \cup Names /\ NoFile \notin FileVersions
  /\ Closed \notin Nat \cup {Stale} /\ Stale \notin Nat
  /\ Closed \notin [ents : Seq(Entry \cup {Free}), files : SUBSET Nums, dead : BOOLEAN]

(* "taken":    a TA renames an object to a name that is taken, which is   *)
(*             then done in tee_pobjs only (tee_svc_storage.c:600);        *)
(* "rename":   a rename fails with another error than TEE_ERROR_GENERIC,   *)
(*             which is taken for success (tee_svc_storage.c:600);         *)
(* "ahead":    a TA goes on with an object that a truncation, which        *)
(*             reported success, has synced without its directory entry    *)
(*             (tee_ree_fs.c:882);                                         *)
(* "replaced": a directory file that cannot be opened is replaced by an    *)
(*             empty one (tee_ree_fs.c:527);                               *)
(* "create":   the write that commits a create takes effect and fails, and *)
(*             the file is removed from under its entry (tee_ree_fs.c:734);*)
(* "enum":     a TA asks for the next object of an enumeration whose start *)
(*             failed, with a NULL pointer (tee_svc_storage.c:772).        *)
ASSUME MishapsAssumption ==
  MishapSets \subseteq SUBSET {"taken", "rename", "ahead", "replaced", "create", "enum"}

VARIABLES
  dirf,      \* disk: the entries of dirf.db
  file,      \* disk: the file of each number
  dirh,      \* ree_fs_dirh: struct tee_fs_dirfile_dirh
  refcount,  \* ree_fs_dirh_refcount
  dirs,      \* idx of each enumeration's struct tee_fs_dir; Stale when
             \* the handle it points to has been freed
  op,        \* the operation that holds ree_fs_mutex between two steps
  events,    \* operations so far that modify the store or failed
  errored,   \* since the core was started an RPC has failed, or a create,
             \* rename or remove been refused, whatever was reported
  aborted,   \* the core has stopped: an assertion, or a NULL pointer
  mishaps    \* those of this behaviour; it never changes

fsvars == <<dirf, file, dirh, refcount, dirs, op, events, errored, aborted>>

-----------------------------------------------------------------------------
(* The directory file.  d is the sequence of its entries.                  *)
Live(d) == {i \in DOMAIN d : d[i] # Free}
NumsOf(d) == {d[i].num : i \in Live(d)}

(* No two entries have the same name or file.                              *)
WellFormed(d) ==
  /\ d \in Seq(Entry \cup {Free}) /\ Len(d) <= MaxFiles
  /\ \A i, j \in Live(d) : i # j => d[i].num # d[j].num /\ d[i].name # d[j].name

ASSUME InitDirsAssumption ==
  \A d \in InitDirs : WellFormed(d) /\ \A i \in Live(d) : d[i].hash = 1

(* A file that was just created.                                           *)
NewFile(c) == [v \in Vers |-> IF v = 0 THEN c ELSE 0]

FsInit == /\ dirf \in InitDirs
          /\ file = [k \in Nums |-> IF k \in NumsOf(dirf) THEN NewFile(1) ELSE NoFile]
          /\ dirh = Closed
          /\ refcount = 0
          /\ dirs = [e \in Enums |-> Closed]
          /\ op = NoOp
          /\ events = 0
          /\ errored = FALSE
          /\ aborted = FALSE
          /\ mishaps \in MishapSets

(* The index of the entry, or 0.                                           *)
tee_fs_dirfile_find(d, n) ==
  LET I == {i \in Live(d) : d[i].name = n} IN IF I = {} THEN 0 ELSE Min(I)

(* Fault: the last entry is used.                                          *)
last_index(d) == IF d = <<>> THEN 1 ELSE Len(d)

(* The same without a name: an entry that is free, or one more.            *)
FreeIndex(d) == Min((DOMAIN d \cup {Len(d) + 1}) \ Live(d))

write_dent(d, i, e) == [j \in 1..IF i > Len(d) THEN i ELSE Len(d) |->
                          IF j = i THEN e ELSE d[j]]

(* The bits are those of the entries; an entry with the number of an       *)
(* earlier one is cleared.  dead: the tree of dirf.db was closed by an     *)
(* error (dirh->fh->ht is NULL).                                           *)
tee_fs_dirfile_open(d) ==
  [ents |-> [i \in DOMAIN d |->
               IF i \in Live(d) /\ \E j \in Live(d) : j < i /\ d[j].num = d[i].num
               THEN Free ELSE d[i]],
   files |-> NumsOf(d), dead |-> FALSE]

(* The first clear bit, or the one after the last.                         *)
tee_fs_dirfile_get_tmp(h) == Min((0..MaxFiles) \ h.files)

tee_fs_dirfile_remove(h, i) ==
  [h EXCEPT !.ents = write_dent(@, i, Free), !.files = @ \ {h.ents[i].num}]

(* The number read from an entry; a free one is all zero.                  *)
NumberAt(d, i) == IF d[i] = Free THEN 0 ELSE d[i].num

(* The assertions of tee_fs_dirfile_update_hash.                           *)
HashAsserts(h, f) == NumberAt(h.ents, f.idx) = f.num /\ f.num \in h.files

tee_fs_dirfile_update_hash(h, f, c) ==
  IF h.ents[f.idx] = Free THEN h ELSE [h EXCEPT !.ents[f.idx].hash = c]

-----------------------------------------------------------------------------
(* The shared handle.                                                      *)
Running == ~aborted
Unlocked == Running /\ op = NoOp

Counted == events < MaxEvents /\ events' = events + 1
Fails == errored' = TRUE /\ Counted
Works == UNCHANGED <<errored, events>>

(* get_dirh: the handle it returns.                                        *)
get_dirh == IF dirh = Closed THEN tee_fs_dirfile_open(dirf) ELSE dirh

(* open_dirh, when it cannot open dirf.db.                                 *)
open_dirh_replaces ==
  /\ "replaced" \in mishaps
  /\ Unlocked /\ dirh = Closed
  /\ dirf' = <<>>
  /\ Fails
  /\ UNCHANGED <<file, dirh, refcount, dirs, op, aborted>>

(* A handle whose tree is gone must not be read (DirUseAborts).            *)
Usable == Unlocked /\ ~get_dirh.dead
DirUseAborts == Unlocked /\ get_dirh.dead

(* close_dirh frees what enumerations point to.                            *)
SetDirh(h, n) == /\ dirh' = h
                 /\ refcount' = n
                 /\ dirs' = [e \in Enums |->
                               IF h = Closed /\ dirs[e] # Closed
                               THEN Stale ELSE dirs[e]]

(* put_dirh_primitive, of a handle of which n references are left.         *)
put_dirh(h, n, close) == SetDirh(IF n = 0 \/ close THEN Closed ELSE h, n)

(* An operation that changes nothing on disk and returns.                  *)
OnlyMemory == UNCHANGED <<dirf, file, op, aborted>>

(* An operation that modifies the store fails before its commit.           *)
Refused == /\ put_dirh(get_dirh, refcount, TRUE)
           /\ Fails
           /\ UNCHANGED <<dirf, op, aborted>>

(* The directory in memory has changed to h and is to be committed.  name  *)
(* is the object, to its new name, fh the handle of the file (of a create  *)
(* or write), old the number to be unlinked.                               *)
FileHandle == [num : Nums, idx : 1..MaxFiles, ver : Vers, bad : BOOLEAN]
Operation == [by : Threads, kind : {"create", "write", "rename", "remove"},
              name : Names \cup {Free}, to : Names \cup {Free},
              fh : FileHandle \cup {Closed}, old : Nums \cup {NoNum},
              pc : {"commit", "end"}, done : BOOLEAN, res : {"ok", "error"}]

ASSUME NoOpAssumption == NoOp \notin Operation

ToCommit(t, k, n, m, h, f, old) ==
  /\ SetDirh(h, refcount + 1)
  /\ op' = [by |-> t, kind |-> k, name |-> n, to |-> m, fh |-> f, old |-> old,
            pc |-> "commit", done |-> FALSE, res |-> "ok"]
  /\ Counted
  /\ UNCHANGED <<dirf, errored, aborted>>

(* commit_dirh_writes                                                      *)
commit_dirh_writes ==
  /\ Running /\ op # NoOp /\ op.pc = "commit"
  /\ dirf' = dirh.ents
  /\ op' = [op EXCEPT !.pc = "end", !.done = TRUE]
  /\ UNCHANGED <<file, dirh, refcount, dirs, events, errored, aborted>>

commit_dirh_writes_fails ==
  /\ Running /\ op # NoOp /\ op.pc = "commit"
  /\ \E done \in BOOLEAN :
       /\ done /\ op.kind = "create" => "create" \in mishaps
       /\ dirf' = IF done THEN dirh.ents ELSE dirf
       /\ op' = [op EXCEPT !.pc = "end", !.done = done, !.res = "error"]
  /\ UNCHANGED <<file, dirh, refcount, dirs, events, errored, aborted>>

(* The end of the operation: k is a file to be unlinked.                   *)
Unlink(k) == file' = IF k = NoNum THEN file ELSE [file EXCEPT ![k] = NoFile]

Returns(kind) == /\ Running /\ op # NoOp /\ op.kind = kind /\ op.pc = "end"
                 /\ op' = NoOp
                 /\ errored' = (errored \/ op.res # "ok")
                 /\ UNCHANGED <<dirf, events, aborted>>

-----------------------------------------------------------------------------
(* Open and close of a file.                                               *)
VersionOf(k, c) == {v \in Vers : file[k] # NoFile /\ file[k][v] = c}

ree_fs_open(n, f) ==
  LET h == get_dirh
      i == tee_fs_dirfile_find(h.ents, n)
  IN /\ Usable /\ i # 0
     /\ \E v \in VersionOf(h.ents[i].num, h.ents[i].hash) :
          f = [num |-> h.ents[i].num, idx |-> i, ver |-> v, bad |-> FALSE]
     /\ SetDirh(h, refcount + 1)
     /\ OnlyMemory

(* Fault: the reference is kept.                                           *)
open_not_put(n) ==
  /\ Usable /\ tee_fs_dirfile_find(get_dirh.ents, n) = 0
  /\ SetDirh(get_dirh, refcount + 1)
  /\ Works /\ OnlyMemory

ree_fs_open_not_found(n) ==
  /\ Usable /\ tee_fs_dirfile_find(get_dirh.ents, n) = 0
  /\ put_dirh(get_dirh, refcount, FALSE)
  /\ Works /\ OnlyMemory

(* The file does not have the hash; or the normal world could not open it, *)
(* which it reports as TEE_ERROR_ITEM_NOT_FOUND whatever the reason.       *)
ree_fs_open_corrupt(n) ==
  /\ Usable /\ tee_fs_dirfile_find(get_dirh.ents, n) # 0
  /\ put_dirh(get_dirh, refcount, FALSE)
  /\ Works /\ OnlyMemory

(* A read of the directory fails, which closes its tree but not the handle.*)
ree_fs_open_fails ==
  /\ Usable
  /\ put_dirh([get_dirh EXCEPT !.dead = TRUE], refcount, FALSE)
  /\ Fails /\ OnlyMemory

(* A file is opened and closed again.                                      *)
ree_fs_open_close ==
  Usable /\ put_dirh(get_dirh, refcount, FALSE) /\ Works /\ OnlyMemory

(* There is no get_dirh: the handle may be gone already.                   *)
ree_fs_close ==
  /\ Unlocked
  /\ put_dirh(dirh, refcount - 1, FALSE)
  /\ Works /\ OnlyMemory

-----------------------------------------------------------------------------
(* Create, with or without overwrite: without it an object that exists is  *)
(* an access conflict (ree_fs_create_fails).  The file is made and synced  *)
(* before it gets its name; one of that number that was left behind is     *)
(* truncated.                                                              *)
FreshContent(k, loaded) ==
  LET HashesIn(d) == {d[i].hash : i \in {j \in Live(d) : d[j].num = k}}
  IN Min(Contents \ ({loaded} \cup HashesIn(dirf) \cup HashesIn(get_dirh.ents)))

ree_fs_create(t, n) ==
  LET h == get_dirh
      k == tee_fs_dirfile_get_tmp(h)
      i == tee_fs_dirfile_find(h.ents, n)
      j == IF i = 0 THEN FreeIndex(h.ents) ELSE i
      c == FreshContent(k, 0)
  IN /\ Usable /\ k \in Nums
     /\ file' = [file EXCEPT ![k] = NewFile(c)]
     /\ ToCommit(t, "create", n, n,
          [h EXCEPT !.files = @ \cup {k},
                    !.ents = write_dent(@, j, [name |-> n, num |-> k, hash |-> c])],
          [num |-> k, idx |-> j, ver |-> 0, bad |-> FALSE],
          IF i = 0 THEN NoNum ELSE h.ents[i].num)

(* The object exists, or something fails; what there is of the file is     *)
(* removed.  When set_name cannot read the directory it goes on without    *)
(* its tree (FirstFindFails).                                              *)
ree_fs_create_fails ==
  LET k == tee_fs_dirfile_get_tmp(get_dirh)
  IN Usable /\ k \in Nums /\ Unlink(k) /\ Refused

(* The number of the file that was replaced is not cleared in files.  On   *)
(* an error the new file is removed, whether or not it has a name now.     *)
ree_fs_create_end ==
  /\ Returns("create")
  /\ IF op.res = "ok"
     THEN Unlink(op.old) /\ UNCHANGED <<dirh, refcount, dirs>>
     ELSE /\ file' = [file EXCEPT ![op.fh.num] = NoFile]
          /\ put_dirh(dirh, refcount - 1, TRUE)

-----------------------------------------------------------------------------
(* Write, with handle f.                                                   *)
NextContent(f) == FreshContent(f.num, file[f.num][f.ver])

(* Fault: the version that was loaded is overwritten.                      *)
synced_in_place(f) == [file EXCEPT ![f.num][f.ver] = NextContent(f)]

(* tee_fs_htree_sync_to_storage                                            *)
synced(f) == [file EXCEPT ![f.num][1 - f.ver] = NextContent(f)]

ree_fs_write(t, f) ==
  LET h == get_dirh
  IN /\ Usable /\ ~f.bad /\ file[f.num] # NoFile
     /\ f.idx \in DOMAIN h.ents /\ HashAsserts(h, f)
     /\ file' = synced(f)
     /\ LET n == IF h.ents[f.idx] = Free THEN Free
                 ELSE h.ents[f.idx].name
        IN ToCommit(t, "write", n, n,
                    tee_fs_dirfile_update_hash(h, f, NextContent(f)),
                    [f EXCEPT !.ver = 1 - f.ver], NoNum)

(* The file cannot be written, or its entry not be read.                   *)
MaybeSynced(f) == file' \in {file} \cup IF file[f.num] = NoFile THEN {} ELSE {synced(f)}

ree_fs_write_fails(f) == Usable /\ ~f.bad /\ MaybeSynced(f) /\ Refused

(* An assertion of tee_fs_dirfile_update_hash fails.                       *)
ree_fs_write_aborts(f) ==
  \/ DirUseAborts
  \/ Usable /\ f.idx \in DOMAIN get_dirh.ents /\ ~HashAsserts(get_dirh, f)

ree_fs_write_end ==
  /\ Returns("write")
  /\ put_dirh(dirh, refcount - 1, op.res # "ok")
  /\ UNCHANGED file

(* What works is not synced: a longer file is so in memory only.           *)
ree_fs_truncate(f) ==
  /\ Usable /\ ~f.bad
  /\ put_dirh(get_dirh, refcount, FALSE)
  /\ Works /\ OnlyMemory

(* What fails is synced, and success reported.  g is the handle then: as it*)
(* was if there was nothing to sync; without its tree if the extension or  *)
(* the sync failed; or with the version that was synced and that the entry *)
(* does not name, with which a TA should not go on and does not know.  The *)
(* result is an error if the entry cannot be read (ree_fs_write_fails).    *)
ree_fs_truncate_fails(f, g) ==
  /\ Usable /\ ~f.bad
  /\ \/ g = f /\ UNCHANGED file
     \/ g = [f EXCEPT !.bad = TRUE] /\ MaybeSynced(f)
     \/ /\ "ahead" \in mishaps /\ g = [f EXCEPT !.ver = 1 - f.ver]
        /\ file[f.num] # NoFile /\ file' = synced(f)
  /\ put_dirh(get_dirh, refcount, FALSE)
  /\ Fails
  /\ UNCHANGED <<dirf, op, aborted>>

-----------------------------------------------------------------------------
ree_fs_rename(t, n, m) ==
  LET h == get_dirh
      i == tee_fs_dirfile_find(h.ents, n)
  IN /\ Usable /\ i # 0 /\ tee_fs_dirfile_find(h.ents, m) = 0
     /\ ToCommit(t, "rename", n, m, [h EXCEPT !.ents[i].name = m], Closed, NoNum)
     /\ UNCHANGED file

(* Never with overwrite: TEE_ERROR_ACCESS_CONFLICT when the new name is    *)
(* taken, TEE_ERROR_ITEM_NOT_FOUND when the old one is not there.          *)
ree_fs_rename_refuses(n, m) == \/ tee_fs_dirfile_find(get_dirh.ents, m) # 0
                               \/ tee_fs_dirfile_find(get_dirh.ents, n) = 0

(* It refuses, or the directory cannot be read or written (of the first    *)
(* read see FirstFindFails).                                               *)
ree_fs_rename_fails ==
  /\ Usable
  /\ Refused
  /\ UNCHANGED file

(* Create and rename look a name up twice: when the first cannot read the  *)
(* directory its tree is closed, and the second aborts.                    *)
FirstFindFails == Usable /\ errored' = TRUE

ree_fs_rename_end ==
  /\ Returns("rename")
  /\ put_dirh(dirh, refcount - 1, op.res # "ok")
  /\ UNCHANGED file

ree_fs_remove(t, n) ==
  LET h == get_dirh
      i == tee_fs_dirfile_find(h.ents, n)
  IN /\ Usable /\ i # 0
     /\ ToCommit(t, "remove", n, n, tee_fs_dirfile_remove(h, i), Closed,
                 h.ents[i].num)
     /\ UNCHANGED file

ree_fs_remove_fails ==
  /\ Usable
  /\ Refused
  /\ UNCHANGED file

(* Fault: the handle is kept after an error.                               *)
remove_end_keeps ==
  /\ Returns("remove")
  /\ IF op.res = "ok" THEN Unlink(op.old) ELSE UNCHANGED file
  /\ put_dirh(dirh, refcount - 1, FALSE)

ree_fs_remove_end ==
  /\ Returns("remove")
  /\ IF op.res = "ok" THEN Unlink(op.old) ELSE UNCHANGED file
  /\ put_dirh(dirh, refcount - 1, op.res # "ok")

-----------------------------------------------------------------------------
(* Enumerations.                                                           *)
Remaining(d, i) == {j \in Live(d) : j > i}

ree_fs_opendir(e) ==
  /\ Usable /\ Remaining(get_dirh.ents, 0) # {}
  /\ dirh' = get_dirh /\ refcount' = refcount + 1
  /\ dirs' = [dirs EXCEPT ![e] = 0]
  /\ Works /\ OnlyMemory

(* There is no object, or the directory cannot be read.                    *)
ree_fs_opendir_fails ==
  /\ Usable
  /\ \/ /\ Remaining(get_dirh.ents, 0) = {}
        /\ put_dirh(get_dirh, refcount, FALSE)
        /\ Works
     \/ put_dirh([get_dirh EXCEPT !.dead = TRUE], refcount, FALSE) /\ Fails
  /\ OnlyMemory

(* The handle of a stale enumeration has been freed; there may be a new    *)
(* one at its address.                                                     *)
ree_fs_readdir(e, n) ==
  /\ Unlocked /\ dirh # Closed /\ ~dirh.dead
  /\ IF dirs[e] = Stale
     THEN (\E i \in Live(dirh.ents) : n = dirh.ents[i].name) /\ UNCHANGED dirs
     ELSE LET R == Remaining(dirh.ents, dirs[e])
          IN /\ R # {} /\ n = dirh.ents[Min(R)].name
             /\ dirs' = [dirs EXCEPT ![e] = Min(R)]
  /\ UNCHANGED <<dirh, refcount>> /\ Works /\ OnlyMemory

ree_fs_readdir_ends(e) ==
  /\ Unlocked
  /\ \/ /\ dirs[e] # Stale => ~dirh.dead /\ Remaining(dirh.ents, dirs[e]) = {}
        /\ UNCHANGED dirh /\ Works
     \/ /\ dirh # Closed /\ ~dirh.dead
        /\ dirh' = [dirh EXCEPT !.dead = TRUE] /\ Fails
  /\ UNCHANGED <<dirs, refcount>> /\ OnlyMemory

ree_fs_readdir_aborts(e) == Unlocked /\ (dirs[e] # Stale => dirh.dead)

ree_fs_closedir(e) ==
  /\ Unlocked /\ dirh # Closed
  /\ LET n == refcount - 1
     IN /\ dirh' = IF n = 0 THEN Closed ELSE dirh
        /\ refcount' = n
  /\ dirs' = [dirs EXCEPT ![e] = Closed]
  /\ Works /\ OnlyMemory

(* assert(dirh == ree_fs_dirh)                                             *)
ree_fs_closedir_aborts(e) == Unlocked /\ dirs[e] = Stale

-----------------------------------------------------------------------------
(* What is in memory is lost.                                              *)
FsReset == /\ dirh' = Closed /\ refcount' = 0 /\ op' = NoOp
           /\ dirs' = [e \in Enums |-> Closed]
           /\ file' = [k \in Nums |-> IF k \in NumsOf(dirf) THEN file[k] ELSE NoFile]
           /\ UNCHANGED <<dirf, events>>

(* Power failure, or the reset of a core that stopped.                     *)
FsCrash == FsReset /\ errored' = FALSE /\ aborted' = FALSE

(* An assertion fails, or a NULL pointer is followed.                      *)
Abort == FsReset /\ aborted' = TRUE
=============================================================================
