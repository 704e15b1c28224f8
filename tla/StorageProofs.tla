---------------------------- MODULE StorageProofs ----------------------------
(***************************************************************************)
(* Theorems about the REE file system in Storage.tla, for any number of    *)
(* threads, enumerations, names and files: the directory in memory is the  *)
(* one on disk between two operations, no two objects have the same file,  *)
(* and ree_fs_dirh_refcount counts those who need the directory.           *)
(***************************************************************************)
EXTENDS Storage, FiniteSetTheorems, SequenceTheorems, WellFoundedInduction, TLAPS

-----------------------------------------------------------------------------
(* The inductive invariant of the file system.                             *)
Handle == [ents : Seq(Entry \cup {Free}), files : SUBSET Nums, dead : BOOLEAN]

(* Every file of the directory has its bit.                                *)
HandleOK(h) == /\ h \in Handle
               /\ WellFormed(h.ents) /\ NumsOf(h.ents) \subseteq h.files

(* An operation under way keeps the handle; once it has worked the disk    *)
(* has what is in memory.                                                  *)
OpOK == /\ op \in Operation
        /\ op.kind \in {"create", "write"} => op.fh \in FileHandle
        /\ op.pc = "commit" => op.res = "ok"
        /\ dirh # Closed
        /\ op.pc = "end" /\ op.res = "ok" => dirf = dirh.ents

FsInv ==
  /\ WellFormed(dirf)
  /\ dirh = Closed \/ HandleOK(dirh)
  /\ op = NoOp /\ dirh # Closed => dirh.ents = dirf
  /\ op # NoOp => OpOK
  /\ file \in [Nums -> FileVersions \cup {NoFile}]

(* What the system calls add: where a thread is says what it has.          *)
WithoutFile == {"open", "create", "creating", "release"}
WithFile == {"idle", "writing", "rename", "renaming", "renamed", "rename_failed", "unreserve"}
OpKind == [creating |-> "create", writing |-> "write", deleting |-> "remove",
           renaming |-> "rename"]

ThreadOK(t) ==
  /\ pc[t] \in PCs \ {"peek"}
  /\ obj[t] \in Object \cup {NoObj}
  /\ obj[t] = NoObj => pc[t] = "idle"
  /\ pc[t] \in WithoutFile => obj[t].fh = NoHandle
  /\ pc[t] \in WithFile /\ obj[t] # NoObj => obj[t].fh \in FileHandle
  /\ pc[t] \in DOMAIN OpKind <=> op # NoOp /\ op.by = t
  /\ pc[t] \in DOMAIN OpKind => op.kind = OpKind[pc[t]]

EnumOK(e) ==
  /\ pc[e] \in {"idle", "peek"}
  /\ dirs[e] \in Nat \cup {Closed, Stale}
  /\ started[e] \in BOOLEAN
  /\ ~started[e] => dirs[e] = Closed

CallInv ==
  /\ DOMAIN pc = Threads \cup Enums /\ pc = [x \in Threads \cup Enums |-> pc[x]]
  /\ obj = [t \in Threads |-> obj[t]]
  /\ dirs = [e \in Enums |-> dirs[e]] /\ started = [e \in Enums |-> started[e]]
  /\ \A t \in Threads : ThreadOK(t)
  /\ \A e \in Enums : EnumOK(e)
  /\ op # NoOp => op.by \in Threads

(* The references to the directory.                                        *)
Having == {t \in Threads : HasFile(t)}
Listing == {e \in Enums : dirs[e] # Closed}
Pending == IF op = NoOp THEN 0 ELSE 1
CountInv == /\ refcount = Cardinality(Having) + Cardinality(Listing) + Pending
            /\ refcount = 0 => dirh = Closed

(* Entries of tee_pobjs. *)
Users(p) == {t \in Threads : obj[t] # NoObj /\ obj[t].po = p}
Reservers(p) == {t \in Threads : dst[t] = p}
Renaming == {"rename", "renaming", "renamed", "rename_failed", "unreserve"}
InUse == {p \in Pobjs : pobj[p] # NoPobj}
Fits(o, n) == o = n \/ tee_pobj_check_access(o, n)

RenameOK(t) ==
  /\ dst[t] \in Pobjs \cup {0}
  /\ dst[t] # 0 <=> pc[t] \in Renaming
  /\ dst[t] # 0 => /\ "META" \in obj[t].flags
                   /\ dst[t] \in InUse /\ pobj[dst[t]].flags = {"META"}
                   /\ Users(dst[t]) = {} /\ Reservers(dst[t]) = {t}

PobjInv ==
  /\ pobj \in [Pobjs -> Pobj \cup {NoPobj}]
  /\ dst = [t \in Threads |-> dst[t]]
  /\ \A t \in Threads : RenameOK(t)
  /\ \A t \in Threads : obj[t] # NoObj =>
       /\ obj[t].po \in InUse
       /\ Fits(pobj[obj[t].po].flags, obj[t].flags)
  /\ \A t, u \in Threads : t # u /\ obj[t] # NoObj /\ obj[u] # NoObj /\ obj[t].po = obj[u].po =>
       tee_pobj_check_access(obj[t].flags, obj[u].flags)
  /\ \A p \in InUse : /\ pobj[p].refcnt > 0
                      /\ pobj[p].refcnt = Cardinality(Users(p)) + Cardinality(Reservers(p))
  /\ \A p, q \in InUse : p # q /\ pobj[p].name = pobj[q].name =>
       \E t \in Threads : pc[t] = "unreserve" /\ {p, q} = {obj[t].po, dst[t]}

-----------------------------------------------------------------------------
(* Operators of the directory file.                                        *)

LEMMA MinLemma ==
  ASSUME NEW I \in SUBSET Nat, I # {}
  PROVE  Min(I) \in I /\ \A j \in I : Min(I) <= j
<1> DEFINE R == OpToRel(<, Nat)
<1>1. \A x, y \in Nat : <<y, x>> \in R <=> y < x
  BY DEF OpToRel
<1>2. \E i \in I : \A j \in I : ~ (<<j, i>> \in R)
  <2> HIDE DEF R
  <2>1. IsWellFoundedOn(R, Nat)
    BY NatLessThanWellFounded DEF R
  <2> QED BY <2>1, WFMin
<1> HIDE DEF R
<1>3. PICK i \in I : \A j \in I : ~ (<<j, i>> \in R)
  BY <1>2
<1>4. ASSUME NEW j \in I PROVE i <= j
  <2>1. i \in Nat /\ j \in Nat /\ ~ (<<j, i>> \in R)
    BY <1>3
  <2> QED BY <1>1, <2>1
<1> QED BY <1>3, <1>4 DEF Min

(* The entries of a directory.                                             *)
LEMMA DirType ==
  ASSUME NEW d, WellFormed(d)
  PROVE  /\ Len(d) \in 0..MaxFiles /\ DOMAIN d = 1..Len(d)
         /\ d \in [1..Len(d) -> Entry \cup {Free}]
         /\ \A i \in Live(d) : i \in 1..Len(d) /\ i \in 1..MaxFiles /\ d[i] \in Entry
         /\ NumsOf(d) \subseteq Nums
<1>1. d \in Seq(Entry \cup {Free}) /\ Len(d) <= MaxFiles
  BY DEF WellFormed
<1>2. Len(d) \in Nat /\ d \in [1..Len(d) -> Entry \cup {Free}] /\ DOMAIN d = 1..Len(d)
  BY <1>1, LenProperties
<1>3. ASSUME NEW i \in Live(d) PROVE i \in 1..Len(d) /\ i \in 1..MaxFiles /\ d[i] \in Entry
  BY <1>1, <1>2, SetsAssumption DEF Live
<1>4. NumsOf(d) \subseteq Nums
  BY <1>3 DEF NumsOf, Entry
<1> QED BY <1>1, <1>2, <1>3, <1>4, SetsAssumption

LEMMA IsDir ==
  ASSUME NEW n \in 0..MaxFiles, NEW d \in [1..n -> Entry \cup {Free}],
         \A i, j \in Live(d) : i # j => d[i].num # d[j].num /\ d[i].name # d[j].name
  PROVE  WellFormed(d) /\ Len(d) = n
<1>1. n \in Nat /\ d \in Seq(Entry \cup {Free})
  BY SeqDef, SetsAssumption
<1>2. DOMAIN d = 1..n /\ DOMAIN d = 1..Len(d) /\ Len(d) \in Nat
  BY <1>1, LenProperties
<1>3. Len(d) = n
  BY <1>1, <1>2
<1> QED BY <1>1, <1>3, SetsAssumption DEF WellFormed

(* tee_fs_dirfile_find finds an entry of that name when there is one.      *)
LEMMA FindLemma ==
  ASSUME NEW d, WellFormed(d), NEW n, NEW i, i = tee_fs_dirfile_find(d, n)
  PROVE  \/ i = 0 /\ \A j \in Live(d) : d[j].name # n
         \/ i # 0 /\ i \in Live(d) /\ d[i].name = n
<1> DEFINE I == {j \in Live(d) : d[j].name = n}
<1>1. i = IF I = {} THEN 0 ELSE Min(I)
  BY DEF tee_fs_dirfile_find
<1>2. I \in SUBSET Nat /\ 0 \notin I
  BY DirType
<1>3. I # {} => Min(I) \in I
  BY <1>2, MinLemma
<1> QED BY <1>1, <1>2, <1>3

(* One entry is written over, or added at the end.                         *)
LEMMA WriteDent ==
  ASSUME NEW d, WellFormed(d), NEW i \in 1..MaxFiles, i <= Len(d) + 1,
         NEW x \in Entry \cup {Free},
         x # Free => \A j \in Live(d) : j # i => d[j].num # x.num /\ d[j].name # x.name
  PROVE  LET r == write_dent(d, i, x) IN
         /\ WellFormed(r)
         /\ Live(r) = IF x = Free THEN Live(d) \ {i} ELSE Live(d) \cup {i}
         /\ r[i] = x /\ \A j \in Live(r) : j # i => r[j] = d[j]
<1> DEFINE n == IF i > Len(d) THEN i ELSE Len(d)
           r == write_dent(d, i, x)
<1>1. Len(d) \in 0..MaxFiles /\ DOMAIN d = 1..Len(d) /\ d \in [1..Len(d) -> Entry \cup {Free}]
  BY DirType
<1>2. n \in 0..MaxFiles /\ i \in 1..n /\ 1..n = 1..Len(d) \cup {i}
  BY <1>1, SetsAssumption
<1>3. r = [j \in 1..n |-> IF j = i THEN x ELSE d[j]]
  BY DEF write_dent
<1> HIDE DEF n, r
<1>4. r \in [1..n -> Entry \cup {Free}] /\ DOMAIN r = 1..n
  BY <1>1, <1>2, <1>3
<1>5. r[i] = x /\ \A j \in 1..n : j # i => r[j] = d[j] /\ j \in 1..Len(d)
  BY <1>2, <1>3
<1>6. Live(r) = IF x = Free THEN Live(d) \ {i} ELSE Live(d) \cup {i}
  BY <1>1, <1>2, <1>4, <1>5 DEF Live
<1>7. \A j \in Live(r) : j # i => r[j] = d[j] /\ j \in Live(d)
  BY <1>4, <1>5, <1>6 DEF Live
<1>8. \A k, j \in Live(r) : k # j => r[k].num # r[j].num /\ r[k].name # r[j].name
  BY <1>5, <1>6, <1>7 DEF WellFormed
<1>9. WellFormed(r)
  BY <1>2, <1>4, <1>8, IsDir
<1> QED BY <1>5, <1>6, <1>7, <1>9 DEF r

(* The number of an entry, or the hash or name of it, is changed.          *)
LEMMA ExceptDir ==
  ASSUME NEW d, WellFormed(d), NEW i \in Live(d), NEW x \in Entry,
         \A j \in Live(d) : j # i => d[j].num # x.num /\ d[j].name # x.name
  PROVE  /\ WellFormed([d EXCEPT ![i] = x])
         /\ Live([d EXCEPT ![i] = x]) = Live(d)
         /\ \A j \in Live(d) : [d EXCEPT ![i] = x][j] = IF j = i THEN x ELSE d[j]
<1> DEFINE r == [d EXCEPT ![i] = x]
<1>1. Len(d) \in 0..MaxFiles /\ DOMAIN d = 1..Len(d) /\ d \in [1..Len(d) -> Entry \cup {Free}]
      /\ i \in 1..Len(d)
  BY DirType
<1>2. r \in [1..Len(d) -> Entry \cup {Free}] /\ \A j \in 1..Len(d) : r[j] = IF j = i THEN x ELSE d[j]
  BY <1>1
<1> HIDE DEF r
<1>3. Live(r) = Live(d)
  BY <1>1, <1>2, NonesAssumption DEF Live
<1>4. \A j \in Live(d) : r[j] = IF j = i THEN x ELSE d[j]
  BY <1>1, <1>2 DEF Live
<1>5. \A k, j \in Live(r) : k # j => r[k].num # r[j].num /\ r[k].name # r[j].name
  BY <1>3, <1>4 DEF WellFormed
<1>6. WellFormed(r)
  BY <1>1, <1>2, <1>5, IsDir
<1> QED BY <1>3, <1>4, <1>6 DEF r

(* There is room for one more object when a number is free.                *)
LEMMA FreeIndexLemma ==
  ASSUME NEW d, WellFormed(d), NEW k \in Nums, k \notin NumsOf(d), NEW i, i = FreeIndex(d)
  PROVE  i \in 1..MaxFiles /\ i <= Len(d) + 1 /\ i \notin Live(d)
<1> DEFINE I == (DOMAIN d \cup {Len(d) + 1}) \ Live(d)
<1>1. Len(d) \in 0..MaxFiles /\ DOMAIN d = 1..Len(d) /\ Live(d) \subseteq 1..Len(d)
      /\ NumsOf(d) \subseteq Nums
  BY DirType
<1>2. Len(d) \in Nat /\ Len(d) + 1 \in I /\ I \in SUBSET Nat /\ I \subseteq 1..Len(d) + 1
  BY <1>1
<1>3. i \in I /\ \A j \in I : i <= j
  BY <1>2, MinLemma DEF FreeIndex
<1>4. i \in 1..Len(d) + 1 /\ 1..i - 1 \subseteq Live(d)
  BY <1>1, <1>2, <1>3
<1>5. i - 1 <= MaxFiles - 1
  <2> DEFINE f == [j \in 1..i - 1 |-> d[j].num]
             T == Nums \ {k}
  <2>1. f \in Injection(1..i - 1, T)
    <3>1. \A j \in 1..i - 1 : d[j].num \in T
      BY <1>1, <1>4 DEF NumsOf
    <3>2. \A j, l \in 1..i - 1 : f[j] = f[l] => j = l
      BY <1>4 DEF WellFormed
    <3> QED BY <3>1, <3>2 DEF Injection, IsInjective
  <2>2. IsFiniteSet(Nums) /\ Cardinality(Nums) = MaxFiles
    BY FS_Interval, SetsAssumption DEF Nums
  <2>3. IsFiniteSet(T) /\ Cardinality(T) = MaxFiles - 1
    BY <2>2, FS_RemoveElement
  <2>4. Cardinality(1..i - 1) <= Cardinality(T)
    <3> HIDE DEF f, T
    <3> QED BY <2>1, <2>3, FS_Injection
  <2>5. Cardinality(1..i - 1) = i - 1
    BY <1>4, FS_Interval
  <2> QED BY <2>3, <2>4, <2>5
<1> QED BY <1>3, <1>4, <1>5, SetsAssumption

(* tee_fs_dirfile_open clears no entry of a well-formed directory.         *)
LEMMA OpenDir ==
  ASSUME NEW d, WellFormed(d)
  PROVE  HandleOK(tee_fs_dirfile_open(d)) /\ tee_fs_dirfile_open(d).ents = d
<1>1. d \in [1..Len(d) -> Entry \cup {Free}] /\ DOMAIN d = 1..Len(d) /\ NumsOf(d) \subseteq Nums
      /\ Live(d) \subseteq 1..Len(d) /\ Len(d) \in Nat
  BY DirType
<1>2. \A i \in DOMAIN d :
        ~ (i \in Live(d) /\ \E j \in Live(d) : j < i /\ d[j].num = d[i].num)
  BY <1>1 DEF WellFormed
<1>3. tee_fs_dirfile_open(d) = [ents |-> [i \in DOMAIN d |-> d[i]], files |-> NumsOf(d), dead |-> FALSE]
  BY <1>2 DEF tee_fs_dirfile_open
<1>4. d = [i \in DOMAIN d |-> d[i]]
  BY <1>1
<1>5. tee_fs_dirfile_open(d) = [ents |-> d, files |-> NumsOf(d), dead |-> FALSE]
  BY <1>3, <1>4
<1> QED BY <1>1, <1>5 DEF HandleOK, Handle, WellFormed

LEMMA GetDirh ==
  ASSUME FsInv, op = NoOp
  PROVE  /\ HandleOK(get_dirh) /\ get_dirh.ents = dirf /\ get_dirh # Closed
         /\ get_dirh = [ents |-> dirf, files |-> get_dirh.files, dead |-> get_dirh.dead]
<1>1. HandleOK(get_dirh) /\ get_dirh.ents = dirf
  BY OpenDir DEF FsInv, get_dirh
<1> HIDE DEF get_dirh
<1>2. get_dirh \in Handle
  BY <1>1 DEF HandleOK
<1> QED BY <1>1, <1>2, NonesAssumption DEF Handle

(* A number that tee_fs_dirfile_get_tmp returns is not taken.              *)
LEMMA TmpLemma ==
  ASSUME NEW h, HandleOK(h), NEW k, k = tee_fs_dirfile_get_tmp(h)
  PROVE  k \in 0..MaxFiles /\ k \notin h.files
<1>1. h.files \subseteq Nums
  BY DEF HandleOK, Handle
<1>2. MaxFiles \in (0..MaxFiles) \ h.files
  BY <1>1, SetsAssumption DEF Nums
<1> QED BY <1>2, MinLemma, SetsAssumption DEF tee_fs_dirfile_get_tmp

(* There are enough contents for a new one.                                *)
LEMMA FreshLemma ==
  ASSUME FsInv, op = NoOp, NEW k, NEW l
  PROVE  /\ FreshContent(k, l) \in Contents
         /\ \A i \in Live(dirf) : dirf[i].num = k => FreshContent(k, l) # dirf[i].hash
<1> DEFINE A == {dirf[i].hash : i \in {j \in Live(dirf) : dirf[j].num = k}}
<1>1. FreshContent(k, l) = Min(Contents \ ({l} \cup A \cup A))
  BY GetDirh DEF FreshContent
<1>2. \E a : A \subseteq {a}
  <2>1. WellFormed(dirf)
    BY DEF FsInv
  <2>2. \A i, j \in Live(dirf) : dirf[i].num = k /\ dirf[j].num = k => i = j
    BY <2>1 DEF WellFormed
  <2> QED BY <2>2
<1>3. PICK a : A \subseteq {a}
  BY <1>2
<1> DEFINE C == Contents \ ({l} \cup A \cup A)
<1>4. C \in SUBSET Nat /\ C # {}
  BY <1>3 DEF Contents
<1>5. C \subseteq Contents
  OBVIOUS
<1> HIDE DEF C, A
<1>6. Min(C) \in C
  BY <1>4, MinLemma
<1>7. FreshContent(k, l) \in Contents /\ FreshContent(k, l) \notin A
  BY <1>1, <1>5, <1>6 DEF C
<1> QED BY <1>7 DEF A

-----------------------------------------------------------------------------
(* The kinds of steps of the file system.                                  *)
Files == [Nums -> FileVersions \cup {NoFile}]

(* The handle is used, closed, or loses its tree; the directory stays.     *)
LEMMA MemoryStep ==
  ASSUME FsInv, op = NoOp, UNCHANGED <<dirf, op>>, file' \in Files,
         dirh' \in {Closed, dirh, get_dirh, [get_dirh EXCEPT !.dead = TRUE]}
  PROVE  FsInv'
<1> DEFINE h == get_dirh
<1>1. HandleOK(h) /\ h.ents = dirf /\ h = [ents |-> dirf, files |-> h.files, dead |-> h.dead]
  BY GetDirh
<1> HIDE DEF h
<1>2. HandleOK([h EXCEPT !.dead = TRUE]) /\ [h EXCEPT !.dead = TRUE].ents = dirf
  BY <1>1 DEF HandleOK, Handle
<1>3. dirh' = Closed \/ (HandleOK(dirh') /\ dirh'.ents = dirf)
  BY <1>1, <1>2 DEF h, FsInv
<1> QED BY <1>3 DEF FsInv, Files, HandleOK

(* An operation has changed the directory in memory.                       *)
LEMMA BeginStep ==
  ASSUME FsInv, op = NoOp, NEW t \in Threads,
         NEW k \in {"create", "write", "rename", "remove"},
         NEW n \in Names \cup {Free}, NEW m \in Names \cup {Free},
         NEW h, HandleOK(h), NEW f \in FileHandle \cup {Closed},
         k \in {"create", "write"} => f \in FileHandle,
         NEW old \in Nums \cup {NoNum}, file' \in Files,
         ToCommit(t, k, n, m, h, f, old)
  PROVE  FsInv' /\ op' # NoOp /\ op'.by = t /\ op'.kind = k /\ dirh' # Closed
<1>1. dirh' = h /\ dirf' = dirf
  BY DEF ToCommit, SetDirh
<1>2. op' = [by |-> t, kind |-> k, name |-> n, to |-> m, fh |-> f, old |-> old,
             pc |-> "commit", done |-> FALSE, res |-> "ok"]
  BY DEF ToCommit
<1>3. op' \in Operation
  BY <1>2 DEF Operation
<1>4. op' # NoOp
  BY <1>3, NoOpAssumption
<1>5. h # Closed
  BY NonesAssumption DEF HandleOK, Handle
<1>6. OpOK'
  BY <1>1, <1>2, <1>3, <1>5 DEF OpOK
<1> QED BY <1>1, <1>2, <1>4, <1>5, <1>6 DEF FsInv, Files, HandleOK

(* What an operation that modifies the store has done before its commit:   *)
(* the directories d and e differ at i at most.                            *)
Beside(d, e, i) == Live(e) \ {i} = Live(d) \ {i} /\ \A l \in Live(d) \ {i} : e[l] = d[l]

NoName(d, n) == \A i \in Live(d) : d[i].name # n

Begun(t, k, n, m, f, old) ==
  /\ op' = [by |-> t, kind |-> k, name |-> n, to |-> m, fh |-> f, old |-> old,
            pc |-> "commit", done |-> FALSE, res |-> "ok"]
  /\ dirf' = dirf

Created(t, n) ==
  \E k \in Nums, i \in 1..MaxFiles, c \in Contents :
    /\ k \notin NumsOf(dirf) /\ file' = [file EXCEPT ![k] = NewFile(c)]
    /\ Beside(dirf, dirh'.ents, i)
    /\ i \in Live(dirh'.ents) /\ dirh'.ents[i] = [name |-> n, num |-> k, hash |-> c]
    /\ i \in Live(dirf) => dirf[i].name = n
    /\ Begun(t, "create", n, n, [num |-> k, idx |-> i, ver |-> 0, bad |-> FALSE],
             IF i \in Live(dirf) THEN dirf[i].num ELSE NoNum)

Written(t, f) ==
  \E c \in Contents :
    /\ file' = [file EXCEPT ![f.num][1 - f.ver] = c]
    /\ f.idx \in Live(dirf) =>
         /\ Beside(dirf, dirh'.ents, f.idx) /\ f.idx \in Live(dirh'.ents)
         /\ dirh'.ents[f.idx] = [dirf[f.idx] EXCEPT !.hash = c]
         /\ dirf[f.idx].num = f.num => c # dirf[f.idx].hash
         /\ Begun(t, "write", dirf[f.idx].name, dirf[f.idx].name,
                  [f EXCEPT !.ver = 1 - f.ver], NoNum)

Renamed(t, n, m) ==
  \E i \in Live(dirf) :
    /\ dirf[i].name = n /\ NoName(dirf, m) /\ UNCHANGED file
    /\ Beside(dirf, dirh'.ents, i)
    /\ i \in Live(dirh'.ents) /\ dirh'.ents[i] = [dirf[i] EXCEPT !.name = m]
    /\ Begun(t, "rename", n, m, Closed, NoNum)

Removed(t, n) ==
  \E i \in Live(dirf) :
    /\ dirf[i].name = n /\ UNCHANGED file
    /\ Beside(dirf, dirh'.ents, i) /\ i \notin Live(dirh'.ents)
    /\ Begun(t, "remove", n, n, Closed, dirf[i].num)

(* commit_dirh_writes, with or without success.                            *)
LEMMA CommitStep ==
  ASSUME FsInv, commit_dirh_writes \/ commit_dirh_writes_fails
  PROVE  FsInv' /\ op # NoOp /\ op' # NoOp /\ op'.by = op.by /\ op'.kind = op.kind
<1>1. op # NoOp /\ op \in Operation /\ dirh # Closed /\ HandleOK(dirh) /\ OpOK
  BY DEF FsInv, OpOK, commit_dirh_writes, commit_dirh_writes_fails
<1>2. PICK done \in BOOLEAN, res \in {"ok", "error"} :
        /\ op' = [op EXCEPT !.pc = "end", !.done = done, !.res = res]
        /\ dirf' \in {dirf, dirh.ents}
        /\ res = "ok" => dirf' = dirh.ents
  <2>1. CASE commit_dirh_writes
    <3>1. op.res = "ok"
      BY <1>1, <2>1 DEF OpOK, commit_dirh_writes
    <3>2. op' = [op EXCEPT !.pc = "end", !.done = TRUE, !.res = "ok"]
      BY <1>1, <2>1, <3>1 DEF Operation, commit_dirh_writes
    <3> QED BY <2>1, <3>2 DEF commit_dirh_writes
  <2>2. CASE commit_dirh_writes_fails
    BY <2>2 DEF commit_dirh_writes_fails
  <2> QED BY <2>1, <2>2
<1>3. UNCHANGED <<file, dirh>>
  BY DEF commit_dirh_writes, commit_dirh_writes_fails
<1>4. op' \in Operation /\ op'.by = op.by /\ op'.kind = op.kind /\ op'.fh = op.fh
      /\ op'.pc = "end" /\ op'.res = res
  BY <1>1, <1>2 DEF Operation
<1>5. op' # NoOp
  BY <1>4, NoOpAssumption
<1>6. OpOK'
  BY <1>1, <1>2, <1>3, <1>4 DEF OpOK
<1>7. WellFormed(dirf')
  BY <1>1, <1>2 DEF FsInv, HandleOK
<1> QED BY <1>1, <1>3, <1>4, <1>5, <1>6, <1>7 DEF FsInv

(* The operation is over; after an error the handle is closed.             *)
LEMMA EndStep ==
  ASSUME FsInv, NEW k, Returns(k), file' \in Files,
         dirh' = Closed \/ (dirh' = dirh /\ op.res = "ok")
  PROVE  FsInv' /\ op # NoOp /\ op' = NoOp /\ OpOK
<1>1. op # NoOp /\ op.pc = "end" /\ op' = NoOp /\ dirf' = dirf /\ OpOK
  BY DEF Returns, FsInv
<1>2. dirh' # Closed => dirh'.ents = dirf /\ HandleOK(dirh')
  BY <1>1 DEF OpOK, FsInv
<1> QED BY <1>1, <1>2 DEF FsInv, Files, HandleOK

(* Files stay what they are.                                               *)
LEMMA UnlinkLemma ==
  ASSUME FsInv, NEW k \in Nums \cup {NoNum}, Unlink(k)
  PROVE  file' \in Files
BY DEF FsInv, Unlink, Files

LEMMA NewFileLemma ==
  ASSUME FsInv, NEW k, NEW c \in Contents
  PROVE  [file EXCEPT ![k] = NewFile(c)] \in Files
<1>1. NewFile(c) \in FileVersions
  BY DEF NewFile, FileVersions, Contents
<1> QED BY <1>1 DEF FsInv, Files

LEMMA SyncedLemma ==
  ASSUME FsInv, op = NoOp, NEW f \in FileHandle, file[f.num] # NoFile
  PROVE  synced(f) \in Files
<1>1. NextContent(f) \in Contents
  BY FreshLemma DEF NextContent
<1>2. f.num \in Nums
  BY DEF FileHandle
<1>3. file \in [Nums -> FileVersions \cup {NoFile}] /\ file[f.num] \in FileVersions
  BY <1>2 DEF FsInv
<1>4. [file[f.num] EXCEPT ![1 - f.ver] = NextContent(f)] \in FileVersions
  BY <1>1, <1>3 DEF FileVersions
<1>5. synced(f) = [file EXCEPT ![f.num] = [file[f.num] EXCEPT ![1 - f.ver] = NextContent(f)]]
  BY <1>2, <1>3 DEF synced
<1> QED BY <1>3, <1>4, <1>5 DEF Files

LEMMA IsHandle ==
  ASSUME NEW d, WellFormed(d), NEW F \in SUBSET Nums, NumsOf(d) \subseteq F, NEW D \in BOOLEAN
  PROVE  HandleOK([ents |-> d, files |-> F, dead |-> D])
<1>1. d \in Seq(Entry \cup {Free})
  BY DEF WellFormed
<1> QED BY <1>1 DEF HandleOK, Handle

(* What the operations do to the directory in memory.                      *)
LEMMA CreateLemma ==
  ASSUME FsInv, NEW t \in Threads, NEW n \in Names, ree_fs_create(t, n)
  PROVE  /\ op = NoOp /\ FsInv' /\ op' # NoOp /\ op'.by = t /\ op'.kind = "create"
         /\ dirh' # Closed /\ (\E h : SetDirh(h, refcount + 1)) /\ Created(t, n)
<1> DEFINE h == get_dirh
           k == tee_fs_dirfile_get_tmp(h)
           i == tee_fs_dirfile_find(h.ents, n)
           j == IF i = 0 THEN FreeIndex(h.ents) ELSE i
           c == FreshContent(k, 0)
           x == [name |-> n, num |-> k, hash |-> c]
           g == [h EXCEPT !.files = @ \cup {k}, !.ents = write_dent(@, j, x)]
           f == [num |-> k, idx |-> j, ver |-> 0, bad |-> FALSE]
           old == IF i = 0 THEN NoNum ELSE h.ents[i].num
<1>1. /\ op = NoOp /\ k \in Nums
      /\ file' = [file EXCEPT ![k] = NewFile(c)]
      /\ ToCommit(t, "create", n, n, g, f, old)
  BY DEF ree_fs_create, Usable, Unlocked
<1>2. HandleOK(h) /\ h.ents = dirf /\ h = [ents |-> dirf, files |-> h.files, dead |-> h.dead]
  BY <1>1, GetDirh
<1>3. c \in Contents
  BY <1>1, FreshLemma
<1>4. k \notin h.files
  BY <1>2, TmpLemma
<1>5. \/ i = 0 /\ \A l \in Live(dirf) : dirf[l].name # n
      \/ i # 0 /\ i \in Live(dirf) /\ dirf[i].name = n
  BY <1>2, FindLemma DEF HandleOK
<1> HIDE DEF h, k, i, c
<1>6. WellFormed(dirf) /\ NumsOf(dirf) \subseteq h.files /\ k \notin NumsOf(dirf)
  BY <1>2, <1>4 DEF HandleOK
<1>7. j \in 1..MaxFiles /\ j <= Len(dirf) + 1 /\ (j \in Live(dirf) => j = i)
  <2>1. CASE i = 0
    BY <1>1, <1>2, <1>6, <2>1, FreeIndexLemma
  <2>2. CASE i # 0
    BY <1>5, <1>6, <2>2, DirType, SetsAssumption
  <2> QED BY <2>1, <2>2
<1>8. \A l \in Live(dirf) : l # j => dirf[l].num # k /\ dirf[l].name # n
  BY <1>5, <1>6 DEF NumsOf, WellFormed
<1>9. x \in Entry
  BY <1>1, <1>3 DEF Entry
<1>10. LET r == write_dent(dirf, j, x) IN
       /\ WellFormed(r) /\ Live(r) = Live(dirf) \cup {j}
       /\ r[j] = x /\ \A l \in Live(r) : l # j => r[l] = dirf[l]
  <2>1. x # Free /\ x.num = k /\ x.name = n
    BY <1>9, NonesAssumption
  <2> HIDE DEF j, x
  <2> QED BY <1>6, <1>7, <1>8, <1>9, <2>1, WriteDent
<1> HIDE DEF j
<1>11. HandleOK(g)
  <2> DEFINE r == write_dent(dirf, j, x)
  <2>1. g = [ents |-> r, files |-> h.files \cup {k}, dead |-> h.dead]
    <3>1. PICK F, D : h = [ents |-> dirf, files |-> F, dead |-> D]
      BY <1>2
    <3>2. write_dent(h.ents, j, x) = r
      BY <3>1
    <3>3. g = [h EXCEPT !.files = h.files \cup {k}, !.ents = r]
      BY <3>2
    <3> HIDE DEF r, g
    <3> QED BY <3>1, <3>3
  <2>2. WellFormed(r) /\ NumsOf(r) \subseteq h.files \cup {k}
    BY <1>6, <1>10 DEF NumsOf
  <2>3. h.files \cup {k} \in SUBSET Nums /\ h.dead \in BOOLEAN
    BY <1>1, <1>2 DEF HandleOK, Handle
  <2> HIDE DEF r, g
  <2> QED BY <2>1, <2>2, <2>3, IsHandle
<1>12. f \in FileHandle
  BY <1>1, <1>7 DEF FileHandle, Vers
<1>13. old \in Nums \cup {NoNum}
  BY <1>2, <1>5, <1>6, DirType DEF Entry
<1>14. file' \in Files
  BY <1>1, <1>3, NewFileLemma
<1>15. SetDirh(g, refcount + 1)
  BY <1>1 DEF ToCommit
<1>16. Created(t, n)
  <2> DEFINE r == write_dent(dirf, j, x)
  <2>1. dirh' = g /\ dirf' = dirf
    BY <1>1 DEF ToCommit, SetDirh
  <2>2. g.ents = r
    <3>1. PICK F, D : h = [ents |-> dirf, files |-> F, dead |-> D]
      BY <1>2
    <3> QED BY <3>1
  <2>3. Begun(t, "create", n, n, f, old)
    BY <1>1 DEF ToCommit, Begun
  <2>4. i \in Live(dirf) <=> i # 0
    BY <1>5, <1>6, DirType
  <2>5. j \in Live(dirf) <=> i # 0
    BY <1>7, <2>4 DEF j
  <2>6. old = IF j \in Live(dirf) THEN dirf[j].num ELSE NoNum
    BY <1>2, <1>7, <2>5
  <2>7. j \in Live(dirf) => dirf[j].name = n
    BY <1>5, <1>7, <2>5
  <2> HIDE DEF r, old
  <2>8. Beside(dirf, r, j) /\ j \in Live(r) /\ r[j] = x
    BY <1>10 DEF r, Beside
  <2>9. dirh'.ents = r
    BY <2>1, <2>2
  <2>10. Begun(t, "create", n, n, [num |-> k, idx |-> j, ver |-> 0, bad |-> FALSE],
               IF j \in Live(dirf) THEN dirf[j].num ELSE NoNum)
    BY <2>3, <2>6
  <2> HIDE DEF g, f
  <2> QED BY <1>1, <1>3, <1>6, <1>7, <2>7, <2>8, <2>9, <2>10 DEF Created
<1> HIDE DEF g, f, old
<1> QED BY <1>1, <1>11, <1>12, <1>13, <1>14, <1>15, <1>16, BeginStep

LEMMA WriteLemma ==
  ASSUME FsInv, NEW t \in Threads, NEW f \in FileHandle, ree_fs_write(t, f)
  PROVE  /\ op = NoOp /\ FsInv' /\ op' # NoOp /\ op'.by = t /\ op'.kind = "write"
         /\ dirh' # Closed /\ (\E h : SetDirh(h, refcount + 1)) /\ Written(t, f)
<1> DEFINE h == get_dirh
           c == NextContent(f)
           n == IF h.ents[f.idx] = Free THEN Free ELSE h.ents[f.idx].name
           g == tee_fs_dirfile_update_hash(h, f, c)
           w == [f EXCEPT !.ver = 1 - f.ver]
<1>1. /\ op = NoOp /\ file[f.num] # NoFile /\ f.idx \in DOMAIN h.ents
      /\ file' = synced(f)
      /\ ToCommit(t, "write", n, n, g, w, NoNum)
  BY DEF ree_fs_write, Usable, Unlocked
<1>2. HandleOK(h) /\ h.ents = dirf /\ h = [ents |-> dirf, files |-> h.files, dead |-> h.dead]
  BY <1>1, GetDirh
<1>3. c \in Contents
  BY <1>1, FreshLemma DEF NextContent
<1> HIDE DEF h, c
<1>4. WellFormed(dirf) /\ NumsOf(dirf) \subseteq h.files
  BY <1>2 DEF HandleOK
<1>5. HandleOK(g) /\ n \in Names \cup {Free}
  <2>1. CASE dirf[f.idx] = Free
    BY <1>2, <2>1 DEF tee_fs_dirfile_update_hash
  <2>2. CASE dirf[f.idx] # Free
    <3> DEFINE i == f.idx
               x == [dirf[i] EXCEPT !.hash = c]
               r == [dirf EXCEPT ![i] = x]
    <3>1. i \in Live(dirf) /\ dirf[i] \in Entry
      BY <1>1, <1>2, <1>4, <2>2, DirType DEF Live
    <3>2. x \in Entry /\ x.num = dirf[i].num /\ x.name = dirf[i].name
      BY <1>3, <3>1 DEF Entry
    <3>3. g = [ents |-> r, files |-> h.files, dead |-> h.dead]
      BY <1>2, <2>2 DEF tee_fs_dirfile_update_hash
    <3>4. \A l \in Live(dirf) : l # i => dirf[l].num # x.num /\ dirf[l].name # x.name
      BY <1>4, <3>1, <3>2 DEF WellFormed
    <3> HIDE DEF x, i
    <3>5. /\ WellFormed(r) /\ Live(r) = Live(dirf)
          /\ \A l \in Live(dirf) : r[l] = IF l = i THEN x ELSE dirf[l]
      BY <1>4, <3>1, <3>2, <3>4, ExceptDir
    <3> HIDE DEF r
    <3>6. NumsOf(r) = NumsOf(dirf)
      BY <3>1, <3>2, <3>5 DEF NumsOf
    <3>7. HandleOK(g)
      BY <1>2, <1>4, <3>3, <3>5, <3>6 DEF HandleOK, Handle, WellFormed
    <3>8. n \in Names
      BY <1>2, <2>2, <3>1 DEF Entry, i
    <3> QED BY <3>7, <3>8
  <2> QED BY <2>1, <2>2
<1>6. w \in FileHandle
  BY DEF FileHandle, Vers
<1>7. file' \in Files
  BY <1>1, SyncedLemma
<1>8. SetDirh(g, refcount + 1)
  BY <1>1 DEF ToCommit
<1>9. Written(t, f)
  <2>1. file' = [file EXCEPT ![f.num][1 - f.ver] = c]
    BY <1>1 DEF synced, c
  <2>2. ASSUME f.idx \in Live(dirf)
        PROVE  /\ Beside(dirf, dirh'.ents, f.idx) /\ f.idx \in Live(dirh'.ents)
               /\ dirh'.ents[f.idx] = [dirf[f.idx] EXCEPT !.hash = c]
               /\ dirf[f.idx].num = f.num => c # dirf[f.idx].hash
               /\ Begun(t, "write", dirf[f.idx].name, dirf[f.idx].name,
                        [f EXCEPT !.ver = 1 - f.ver], NoNum)
    <3> DEFINE i == f.idx
               x == [dirf[i] EXCEPT !.hash = c]
               r == [dirf EXCEPT ![i] = x]
    <3>1. dirf[i] \in Entry /\ dirf[i] # Free /\ i \in Live(dirf)
      BY <1>4, <2>2, DirType, NonesAssumption
    <3>2. x \in Entry /\ x.num = dirf[i].num /\ x.name = dirf[i].name
      BY <1>3, <3>1 DEF Entry
    <3>3. dirh' = g /\ g.ents = r
      <4>1. dirh' = g
        BY <1>1 DEF ToCommit, SetDirh
      <4>2. g = [ents |-> r, files |-> h.files, dead |-> h.dead]
        BY <1>2, <3>1 DEF tee_fs_dirfile_update_hash
      <4> HIDE DEF g
      <4> QED BY <4>1, <4>2
    <3>4. \A l \in Live(dirf) : l # i => dirf[l].num # x.num /\ dirf[l].name # x.name
      BY <1>4, <3>1, <3>2 DEF WellFormed
    <3>5. n = dirf[i].name
      BY <1>2, <3>1
    <3>6. Begun(t, "write", n, n, w, NoNum)
      BY <1>1 DEF ToCommit, Begun
    <3>7. dirf[i].num = f.num => c # dirf[i].hash
      BY <1>1, <3>1, FreshLemma DEF NextContent, c
    <3> HIDE DEF x, i
    <3>8. /\ Live(r) = Live(dirf)
          /\ \A l \in Live(dirf) : r[l] = IF l = i THEN x ELSE dirf[l]
      BY <1>4, <3>1, <3>2, <3>4, ExceptDir
    <3> HIDE DEF r
    <3>9. Beside(dirf, r, i) /\ i \in Live(r) /\ r[i] = x
      BY <3>1, <3>8 DEF Beside
    <3>10. dirh'.ents = r
      BY <3>3
    <3> HIDE DEF g, n
    <3> QED BY <3>5, <3>6, <3>7, <3>9, <3>10 DEF i, x
  <2> HIDE DEF n, g, w
  <2> QED BY <1>3, <2>1, <2>2 DEF Written
<1> HIDE DEF g, w, n
<1> QED BY <1>1, <1>5, <1>6, <1>7, <1>8, <1>9, BeginStep

LEMMA RenameLemma ==
  ASSUME FsInv, NEW t \in Threads, NEW n \in Names, NEW m \in Names, ree_fs_rename(t, n, m)
  PROVE  /\ op = NoOp /\ FsInv' /\ op' # NoOp /\ op'.by = t /\ op'.kind = "rename"
         /\ dirh' # Closed /\ (\E h : SetDirh(h, refcount + 1)) /\ Renamed(t, n, m)
<1> DEFINE h == get_dirh
           i == tee_fs_dirfile_find(h.ents, n)
           g == [h EXCEPT !.ents[i].name = m]
<1>1. /\ op = NoOp /\ i # 0 /\ tee_fs_dirfile_find(h.ents, m) = 0
      /\ ToCommit(t, "rename", n, m, g, Closed, NoNum) /\ UNCHANGED file
  BY DEF ree_fs_rename, Usable, Unlocked
<1>2. HandleOK(h) /\ h.ents = dirf /\ h = [ents |-> dirf, files |-> h.files, dead |-> h.dead]
  BY <1>1, GetDirh
<1>3. WellFormed(dirf) /\ NumsOf(dirf) \subseteq h.files
  BY <1>2 DEF HandleOK
<1>4. i \in Live(dirf) /\ \A l \in Live(dirf) : dirf[l].name # m
  <2> HIDE DEF h
  <2> QED BY <1>1, <1>2, <1>3, FindLemma
<1> HIDE DEF h, i
<1>5. HandleOK(g)
  <2> DEFINE x == [dirf[i] EXCEPT !.name = m]
             r == [dirf EXCEPT ![i] = x]
  <2>1. dirf[i] \in Entry
    BY <1>3, <1>4, DirType
  <2>2. x \in Entry /\ x.num = dirf[i].num /\ x.name = m
    BY <2>1 DEF Entry
  <2>3. g = [ents |-> r, files |-> h.files, dead |-> h.dead]
    BY <1>2
  <2>4. \A l \in Live(dirf) : l # i => dirf[l].num # x.num /\ dirf[l].name # x.name
    BY <1>3, <1>4, <2>2 DEF WellFormed
  <2> HIDE DEF x
  <2>5. /\ WellFormed(r) /\ Live(r) = Live(dirf)
        /\ \A l \in Live(dirf) : r[l] = IF l = i THEN x ELSE dirf[l]
    BY <1>3, <1>4, <2>2, <2>4, ExceptDir
  <2> HIDE DEF r
  <2>6. NumsOf(r) = NumsOf(dirf)
    BY <1>4, <2>2, <2>5 DEF NumsOf
  <2>7. h.files \in SUBSET Nums /\ h.dead \in BOOLEAN
    BY <1>2 DEF HandleOK, Handle
  <2> HIDE DEF g
  <2> QED BY <1>3, <2>3, <2>5, <2>6, <2>7, IsHandle
<1>6. file' \in Files
  BY <1>1 DEF FsInv, Files
<1>7. SetDirh(g, refcount + 1)
  BY <1>1 DEF ToCommit
<1>8. Renamed(t, n, m)
  <2> DEFINE x == [dirf[i] EXCEPT !.name = m]
             r == [dirf EXCEPT ![i] = x]
  <2>1. dirf[i] \in Entry
    BY <1>3, <1>4, DirType
  <2>2. x \in Entry /\ x.num = dirf[i].num /\ x.name = m
    BY <2>1 DEF Entry
  <2>3. dirh'.ents = r
    <3>1. dirh' = g
      BY <1>1 DEF ToCommit, SetDirh
    <3>2. g = [ents |-> r, files |-> h.files, dead |-> h.dead]
      BY <1>2
    <3> HIDE DEF g
    <3> QED BY <3>1, <3>2
  <2>4. \A l \in Live(dirf) : l # i => dirf[l].num # x.num /\ dirf[l].name # x.name
    BY <1>3, <1>4, <2>2 DEF WellFormed
  <2>5. dirf[i].name = n
    <3> HIDE DEF h
    <3> QED BY <1>1, <1>2, <1>3, FindLemma DEF i
  <2>6. Begun(t, "rename", n, m, Closed, NoNum)
    BY <1>1 DEF ToCommit, Begun
  <2> HIDE DEF x
  <2>7. Live(r) = Live(dirf) /\ \A l \in Live(dirf) : r[l] = IF l = i THEN x ELSE dirf[l]
    BY <1>3, <1>4, <2>2, <2>4, ExceptDir
  <2> HIDE DEF r
  <2>8. Beside(dirf, r, i) /\ i \in Live(r) /\ r[i] = x
    BY <1>4, <2>7 DEF Beside
  <2> HIDE DEF g
  <2> QED BY <1>1, <1>4, <2>3, <2>5, <2>6, <2>8 DEF Renamed, NoName, x
<1> HIDE DEF g
<1> QED BY <1>1, <1>5, <1>6, <1>7, <1>8, BeginStep

LEMMA RemoveLemma ==
  ASSUME FsInv, NEW t \in Threads, NEW n \in Names, ree_fs_remove(t, n)
  PROVE  /\ op = NoOp /\ FsInv' /\ op' # NoOp /\ op'.by = t /\ op'.kind = "remove"
         /\ dirh' # Closed /\ (\E h : SetDirh(h, refcount + 1)) /\ Removed(t, n)
<1> DEFINE h == get_dirh
           i == tee_fs_dirfile_find(h.ents, n)
           k == h.ents[i].num
           g == tee_fs_dirfile_remove(h, i)
<1>1. /\ op = NoOp /\ i # 0
      /\ ToCommit(t, "remove", n, n, g, Closed, k) /\ UNCHANGED file
  BY DEF ree_fs_remove, Usable, Unlocked
<1>2. HandleOK(h) /\ h.ents = dirf /\ h = [ents |-> dirf, files |-> h.files, dead |-> h.dead]
  BY <1>1, GetDirh
<1>3. WellFormed(dirf) /\ NumsOf(dirf) \subseteq h.files
  BY <1>2 DEF HandleOK
<1>4. i \in Live(dirf)
  <2> HIDE DEF h
  <2> QED BY <1>1, <1>2, <1>3, FindLemma
<1>5. dirf[i] \in Entry /\ i \in 1..MaxFiles /\ i \in 1..Len(dirf) /\ Len(dirf) \in Nat
  BY <1>3, <1>4, DirType
<1> HIDE DEF h, i
<1>6. HandleOK(g)
  <2> DEFINE r == write_dent(dirf, i, Free)
  <2>1. g = [ents |-> r, files |-> h.files \ {dirf[i].num}, dead |-> h.dead]
    <3>1. PICK F, D : h = [ents |-> dirf, files |-> F, dead |-> D]
      BY <1>2
    <3>2. write_dent(h.ents, i, Free) = r
      BY <3>1
    <3>3. g = [h EXCEPT !.ents = r, !.files = h.files \ {dirf[i].num}]
      BY <3>1, <3>2 DEF tee_fs_dirfile_remove
    <3> HIDE DEF r, g
    <3> QED BY <3>1, <3>3
  <2>2. /\ WellFormed(r) /\ Live(r) = Live(dirf) \ {i}
        /\ \A l \in Live(r) : l # i => r[l] = dirf[l]
    <3>1. i <= Len(dirf) + 1
      BY <1>5
    <3> HIDE DEF r
    <3> QED BY <1>3, <1>5, <3>1, WriteDent DEF r
  <2> HIDE DEF r
  <2>3. NumsOf(r) \subseteq NumsOf(dirf) \ {dirf[i].num}
    BY <1>3, <1>4, <2>2 DEF NumsOf, WellFormed
  <2> QED BY <1>2, <1>3, <2>1, <2>2, <2>3 DEF HandleOK, Handle, WellFormed
<1>7. k \in Nums
  BY <1>2, <1>5 DEF Entry
<1>8. file' \in Files
  BY <1>1 DEF FsInv, Files
<1>9. SetDirh(g, refcount + 1)
  BY <1>1 DEF ToCommit
<1>10. Removed(t, n)
  <2> DEFINE r == write_dent(dirf, i, Free)
  <2>1. dirh'.ents = r
    <3>1. dirh' = g
      BY <1>1 DEF ToCommit, SetDirh
    <3>2. PICK F, D : h = [ents |-> dirf, files |-> F, dead |-> D]
      BY <1>2
    <3>3. g.ents = r
      BY <3>2 DEF tee_fs_dirfile_remove
    <3> QED BY <3>1, <3>3
  <2>2. Live(r) = Live(dirf) \ {i} /\ \A l \in Live(r) : l # i => r[l] = dirf[l]
    <3>1. i <= Len(dirf) + 1
      BY <1>5
    <3> HIDE DEF r
    <3> QED BY <1>3, <1>5, <3>1, WriteDent DEF r
  <2>3. dirf[i].name = n
    <3> HIDE DEF h
    <3> QED BY <1>1, <1>2, <1>3, FindLemma DEF i
  <2>4. Begun(t, "remove", n, n, Closed, dirf[i].num)
    BY <1>1, <1>2 DEF ToCommit, Begun
  <2> HIDE DEF r
  <2>5. Beside(dirf, r, i) /\ i \notin Live(r)
    BY <2>2 DEF Beside
  <2> HIDE DEF g
  <2> QED BY <1>1, <1>4, <2>1, <2>3, <2>4, <2>5 DEF Removed
<1> HIDE DEF g, k
<1> QED BY <1>1, <1>6, <1>7, <1>8, <1>9, <1>10, BeginStep

-----------------------------------------------------------------------------
(* The kinds of steps of the system calls.                                 *)
One(b) == IF b THEN 1 ELSE 0

(* One element enters or leaves a finite set, or does neither.             *)
LEMMA CountLemma ==
  ASSUME NEW X, IsFiniteSet(X), NEW S \in SUBSET X, NEW T \in SUBSET X, NEW w,
         S \ {w} = T \ {w}
  PROVE  /\ Cardinality(S) \in Nat /\ Cardinality(T) \in Nat
         /\ Cardinality(T) = Cardinality(S) - One(w \in S) + One(w \in T)
         /\ Cardinality(S) >= One(w \in S)
<1>1. IsFiniteSet(S) /\ IsFiniteSet(T)
  BY FS_Subset
<1> DEFINE U == S \ {w}
<1>2. IsFiniteSet(U)
  BY <1>1, FS_RemoveElement
<1>3. Cardinality(S) \in Nat /\ Cardinality(T) \in Nat /\ Cardinality(U) \in Nat
  BY <1>1, <1>2, FS_CardinalityType
<1>4. Cardinality(U \cup {w}) = Cardinality(U) + 1
  BY <1>2, FS_AddElement
<1>5. S = IF w \in S THEN U \cup {w} ELSE U
  OBVIOUS
<1>6. T = IF w \in T THEN U \cup {w} ELSE U
  OBVIOUS
<1> HIDE DEF U
<1>7. Cardinality(S) = Cardinality(U) + One(w \in S)
  <2>1. CASE w \in S
    BY <1>3, <1>4, <1>5, <2>1 DEF One
  <2>2. CASE w \notin S
    BY <1>3, <1>5, <2>2 DEF One
  <2> QED BY <2>1, <2>2
<1>8. Cardinality(T) = Cardinality(U) + One(w \in T)
  <2>1. CASE w \in T
    BY <1>3, <1>4, <1>6, <2>1 DEF One
  <2>2. CASE w \notin T
    BY <1>3, <1>6, <2>2 DEF One
  <2> QED BY <2>1, <2>2
<1> QED BY <1>3, <1>7, <1>8 DEF One

(* An enumeration stays open, though its handle may be gone.               *)
DirsKept == dirs' \in {dirs, [e \in Enums |-> IF dirs[e] # Closed THEN Stale ELSE dirs[e]]}

LEMMA SetDirhLemma ==
  ASSUME CallInv, NEW h, NEW n, SetDirh(h, n)
  PROVE  dirh' = h /\ refcount' = n /\ DirsKept
<1>1. dirs = [e \in Enums |-> dirs[e]]
  BY DEF CallInv
<1>2. CASE h = Closed
  BY <1>2 DEF SetDirh, DirsKept
<1>3. CASE h # Closed
  BY <1>1, <1>3 DEF SetDirh, DirsKept
<1> QED BY <1>2, <1>3 DEF SetDirh

LEMMA PutDirhLemma ==
  ASSUME CallInv, NEW h, NEW n, NEW close \in BOOLEAN, put_dirh(h, n, close)
  PROVE  /\ refcount' = n /\ DirsKept /\ dirh' \in {Closed, h}
         /\ n = 0 \/ close => dirh' = Closed
BY SetDirhLemma DEF put_dirh

LEMMA KeptLemma ==
  ASSUME CallInv, DirsKept
  PROVE  /\ dirs' = [e \in Enums |-> dirs'[e]] /\ Listing' = Listing
         /\ \A e \in Enums : /\ dirs'[e] \in Nat \cup {Closed, Stale}
                             /\ dirs'[e] = Closed <=> dirs[e] = Closed
<1>1. /\ dirs = [e \in Enums |-> dirs[e]]
      /\ \A e \in Enums : dirs[e] \in Nat \cup {Closed, Stale}
  BY DEF CallInv, EnumOK
<1>2. CASE dirs' = dirs
  BY <1>1, <1>2 DEF Listing
<1>3. CASE dirs' = [e \in Enums |-> IF dirs[e] # Closed THEN Stale ELSE dirs[e]]
  BY <1>1, <1>3, NonesAssumption DEF Listing
<1> QED BY <1>2, <1>3 DEF DirsKept

FileIn(x) == x # NoObj /\ x.fh.num # NoNum

(* A step of thread t, which leaves the others and their operations alone. *)
LEMMA ThreadStep ==
  ASSUME CallInv, CountInv, NEW t \in Threads, NEW x, NEW l,
         obj' = [obj EXCEPT ![t] = x], pc' = [pc EXCEPT ![t] = l],
         UNCHANGED started, DirsKept,
         \/ op' = op
         \/ op = NoOp /\ op' # NoOp /\ op'.by = t
         \/ op # NoOp /\ op.by = t /\ op' = NoOp,
         ThreadOK(t)',
         refcount' = refcount - One(FileIn(obj[t])) + One(FileIn(x))
                     - One(op # NoOp) + One(op' # NoOp),
         refcount' = 0 => dirh' = Closed
  PROVE  CallInv' /\ CountInv'
<1>1. /\ pc = [y \in Threads \cup Enums |-> pc[y]] /\ obj = [y \in Threads |-> obj[y]]
      /\ \A y \in Threads : ThreadOK(y)
      /\ \A e \in Enums : EnumOK(e)
  BY DEF CallInv
<1>2. /\ pc' = [y \in Threads \cup Enums |-> pc'[y]] /\ obj' = [y \in Threads |-> obj'[y]]
      /\ obj'[t] = x /\ \A y \in Threads : y # t => pc'[y] = pc[y] /\ obj'[y] = obj[y]
      /\ \A e \in Enums : pc'[e] = pc[e]
  BY <1>1, SetsAssumption
<1>3. ASSUME NEW u \in Threads, u # t PROVE ThreadOK(u)'
  <2>1. ThreadOK(u) /\ obj'[u] = obj[u] /\ pc'[u] = pc[u]
    BY <1>1, <1>2, <1>3
  <2>2. op' # NoOp /\ op'.by = u <=> op # NoOp /\ op.by = u
    BY <1>3
  <2>3. op # NoOp /\ op.by = u => op' = op
    BY <1>3
  <2> QED BY <2>1, <2>2, <2>3 DEF ThreadOK
<1>4. /\ dirs' = [e \in Enums |-> dirs'[e]] /\ Listing' = Listing
      /\ \A e \in Enums : /\ dirs'[e] \in Nat \cup {Closed, Stale}
                          /\ dirs'[e] = Closed <=> dirs[e] = Closed
  BY KeptLemma
<1>5. \A e \in Enums : EnumOK(e)'
  BY <1>1, <1>2, <1>4 DEF EnumOK
<1>6. CallInv'
  <2>1. op' # NoOp => op'.by \in Threads
    BY DEF CallInv
  <2>2. \A u \in Threads : ThreadOK(u)'
    BY <1>3
  <2>3. DOMAIN pc' = Threads \cup Enums /\ started' = [e \in Enums |-> started'[e]]
    BY <1>2 DEF CallInv
  <2> QED BY <1>2, <1>4, <1>5, <2>1, <2>2, <2>3 DEF CallInv
<1>7. CountInv'
  <2>1. /\ Cardinality(Having) \in Nat /\ Cardinality(Having)' \in Nat
        /\ Cardinality(Having)' = Cardinality(Having) - One(t \in Having) + One(t \in Having')
    <3>1. Having \ {t} = Having' \ {t}
      BY <1>2 DEF Having, HasFile
    <3>2. Having \in SUBSET Threads /\ Having' \in SUBSET Threads
      BY DEF Having
    <3> QED BY <3>1, <3>2, CountLemma, SetsAssumption
  <2>2. One(t \in Having) = One(FileIn(obj[t])) /\ One(t \in Having') = One(FileIn(x))
    BY <1>2 DEF Having, HasFile, FileIn, One
  <2>3. Cardinality(Listing) \in Nat /\ Cardinality(Listing)' = Cardinality(Listing)
    BY <1>4, FS_Subset, FS_CardinalityType, SetsAssumption DEF Listing
  <2>4. Pending = One(op # NoOp) /\ Pending' = One(op' # NoOp)
    BY DEF Pending, One
  <2>5. refcount = Cardinality(Having) + Cardinality(Listing) + Pending
    BY DEF CountInv
  <2>6. /\ One(FileIn(obj[t])) \in Nat /\ One(FileIn(x)) \in Nat
        /\ One(op # NoOp) \in Nat /\ One(op' # NoOp) \in Nat
    BY DEF One
  <2>7. refcount' = Cardinality(Having)' + Cardinality(Listing)' + Pending'
    BY <2>1, <2>2, <2>3, <2>4, <2>5, <2>6
  <2> QED BY <2>7 DEF CountInv
<1> QED BY <1>6, <1>7

OpPcs == DOMAIN OpKind

LEMMA OpPcsAre == OpPcs = {"creating", "writing", "deleting", "renaming"}
BY DEF OpPcs, OpKind

(* The thread has no operation under way and begins none.                  *)
LEMMA PlainStep ==
  ASSUME CallInv, CountInv, NEW t \in Threads, NEW x \in Object \cup {NoObj},
         NEW l \in PCs \ {"peek"},
         pc[t] \notin OpPcs, l \notin OpPcs, x = NoObj => l = "idle",
         l \in WithoutFile => x.fh = NoHandle,
         l \in WithFile /\ x # NoObj => x.fh \in FileHandle,
         obj' = [obj EXCEPT ![t] = x], pc' = [pc EXCEPT ![t] = l],
         UNCHANGED <<started, op>>, DirsKept,
         refcount' = refcount - One(FileIn(obj[t])) + One(FileIn(x)),
         refcount' = 0 => dirh' = Closed
  PROVE  CallInv' /\ CountInv'
<1>1. obj'[t] = x /\ pc'[t] = l
  BY DEF CallInv
<1>2. ~ (op # NoOp /\ op.by = t)
  BY DEF CallInv, ThreadOK, OpPcs
<1>3. ThreadOK(t)'
  BY <1>1, <1>2 DEF ThreadOK, OpPcs
<1>4. refcount' = refcount - One(FileIn(obj[t])) + One(FileIn(x)) - One(op # NoOp) + One(op' # NoOp)
  <2>1. refcount \in Int
    <3>1. Cardinality(Having) \in Nat /\ Cardinality(Listing) \in Nat
      BY FS_Subset, FS_CardinalityType, SetsAssumption DEF Having, Listing
    <3> QED BY <3>1 DEF CountInv, Pending
  <2> QED BY <2>1 DEF One
<1> QED BY <1>3, <1>4, ThreadStep

(* The thread begins an operation, or ends it.                             *)
LEMMA OpBegins ==
  ASSUME CallInv, CountInv, NEW t \in Threads, NEW l \in OpPcs,
         obj[t] # NoObj,
         l = "creating" => obj[t].fh = NoHandle,
         l \in {"writing", "renaming"} => obj[t].fh \in FileHandle,
         pc' = [pc EXCEPT ![t] = l], UNCHANGED <<started, obj>>, DirsKept,
         op = NoOp, op' # NoOp, op'.by = t, op'.kind = OpKind[l],
         refcount' = refcount + 1, dirh' # Closed
  PROVE  CallInv' /\ CountInv'
<1>1. obj'[t] = obj[t] /\ pc'[t] = l /\ obj' = [obj EXCEPT ![t] = obj[t]]
  BY DEF CallInv
<1>2. ThreadOK(t)'
  <2>1. obj[t] \in Object
    BY DEF CallInv, ThreadOK
  <2>2. l \in PCs \ {"peek"}
    BY OpPcsAre DEF PCs
  <2>3. l \in {"creating", "writing", "deleting", "renaming"}
    BY OpPcsAre
  <2> QED BY <1>1, <2>1, <2>2, <2>3 DEF ThreadOK, OpPcs, WithoutFile, WithFile
<1>3. refcount \in Nat
  <2>1. Cardinality(Having) \in Nat /\ Cardinality(Listing) \in Nat
    BY FS_Subset, FS_CardinalityType, SetsAssumption DEF Having, Listing
  <2> QED BY <2>1 DEF CountInv, Pending
<1>4. refcount' = refcount - One(FileIn(obj[t])) + One(FileIn(obj[t])) - One(op # NoOp) + One(op' # NoOp)
  BY <1>3 DEF One
<1>5. refcount' # 0
  BY <1>3
<1> QED BY <1>1, <1>2, <1>4, <1>5, ThreadStep

LEMMA OpEnds ==
  ASSUME CallInv, CountInv, NEW t \in Threads, NEW x \in Object,
         NEW l \in PCs \ {"peek"},
         pc[t] \in OpPcs, l \notin OpPcs,
         l \in WithoutFile => x.fh = NoHandle, l \in WithFile => x.fh \in FileHandle,
         obj' = [obj EXCEPT ![t] = x], pc' = [pc EXCEPT ![t] = l],
         UNCHANGED started, DirsKept, op' = NoOp,
         refcount' = refcount - 1 - One(FileIn(obj[t])) + One(FileIn(x)),
         refcount' = 0 => dirh' = Closed
  PROVE  CallInv' /\ CountInv'
<1>1. obj'[t] = x /\ pc'[t] = l
  BY DEF CallInv
<1>2. op # NoOp /\ op.by = t
  BY DEF CallInv, ThreadOK, OpPcs
<1>3. ThreadOK(t)'
  BY <1>1, <1>2, NoObjAssumption DEF ThreadOK, OpPcs
<1>4. refcount' = refcount - One(FileIn(obj[t])) + One(FileIn(x)) - One(op # NoOp) + One(op' # NoOp)
  <2>1. refcount \in Int
    <3>1. Cardinality(Having) \in Nat /\ Cardinality(Listing) \in Nat
      BY FS_Subset, FS_CardinalityType, SetsAssumption DEF Having, Listing
    <3> QED BY <3>1 DEF CountInv, Pending
  <2> QED BY <1>2, <2>1 DEF One
<1> QED BY <1>2, <1>3, <1>4, ThreadStep

(* A step of enumeration e.                                                *)
LEMMA EnumStep ==
  ASSUME CallInv, CountInv, NEW e \in Enums, UNCHANGED <<obj, op>>,
         NEW l \in {"idle", "peek"}, pc' = [pc EXCEPT ![e] = l],
         dirs' = [d \in Enums |-> dirs'[d]], started' = [d \in Enums |-> started'[d]],
         \A d \in Enums : d # e => /\ started'[d] = started[d]
                                   /\ dirs'[d] \in Nat \cup {Closed, Stale}
                                   /\ dirs'[d] = Closed <=> dirs[d] = Closed,
         dirs'[e] \in Nat \cup {Closed, Stale}, started'[e] \in BOOLEAN,
         ~started'[e] => dirs'[e] = Closed,
         refcount' = refcount - One(dirs[e] # Closed) + One(dirs'[e] # Closed),
         refcount' = 0 => dirh' = Closed
  PROVE  CallInv' /\ CountInv'
<1>1. /\ pc = [y \in Threads \cup Enums |-> pc[y]]
      /\ \A y \in Threads : ThreadOK(y)
      /\ \A d \in Enums : EnumOK(d)
  BY DEF CallInv
<1>2. /\ pc' = [y \in Threads \cup Enums |-> pc'[y]] /\ pc'[e] = l
      /\ \A y \in Threads : pc'[y] = pc[y]
      /\ \A d \in Enums : d # e => pc'[d] = pc[d]
  BY <1>1, SetsAssumption
<1>3. ASSUME NEW y \in Threads PROVE ThreadOK(y)'
  <2>1. ThreadOK(y) /\ pc'[y] = pc[y] /\ obj'[y] = obj[y] /\ op' = op
    BY <1>1, <1>2
  <2> QED BY <2>1 DEF ThreadOK
<1>4. \A d \in Enums : EnumOK(d)'
  <2>1. ASSUME NEW d \in Enums, d # e PROVE EnumOK(d)'
    BY <1>1, <1>2, <2>1 DEF EnumOK
  <2>2. EnumOK(e)'
    BY <1>2 DEF EnumOK
  <2> QED BY <2>1, <2>2
<1>5. CallInv'
  BY <1>2, <1>3, <1>4 DEF CallInv
<1>6. CountInv'
  <2>1. /\ Cardinality(Listing) \in Nat /\ Cardinality(Listing)' \in Nat
        /\ Cardinality(Listing)' = Cardinality(Listing) - One(e \in Listing) + One(e \in Listing')
    <3>1. Listing \ {e} = Listing' \ {e}
      BY DEF Listing
    <3>2. Listing \in SUBSET Enums /\ Listing' \in SUBSET Enums
      BY DEF Listing
    <3> QED BY <3>1, <3>2, CountLemma, SetsAssumption
  <2>2. One(e \in Listing) = One(dirs[e] # Closed) /\ One(e \in Listing') = One(dirs'[e] # Closed)
    BY DEF Listing, One
  <2>3. Cardinality(Having) \in Nat /\ Having' = Having
    BY FS_Subset, FS_CardinalityType, SetsAssumption DEF Having, HasFile
  <2>4. refcount = Cardinality(Having) + Cardinality(Listing) + Pending /\ Pending' = Pending
        /\ Pending \in Nat
    BY DEF CountInv, Pending
  <2>5. One(dirs[e] # Closed) \in Nat /\ One(dirs'[e] # Closed) \in Nat
    BY DEF One
  <2>6. refcount' = Cardinality(Having)' + Cardinality(Listing)' + Pending'
    BY <2>1, <2>2, <2>3, <2>4, <2>5
  <2> QED BY <2>6 DEF CountInv
<1> QED BY <1>5, <1>6

-----------------------------------------------------------------------------
(* The steps, each of one of these kinds.                                  *)
SInv == FsInv /\ CallInv /\ CountInv

(* The names threads use are names of objects.                             *)
NamesKnown ==
  \A t \in Threads : /\ obj[t] # NoObj => NameOf(t) \in Names
                     /\ pc[t] = "rename" => pobj[dst[t]].name \in Names

LEMMA ObjectLemma ==
  ASSUME NEW x \in Object
  PROVE  /\ x # NoObj /\ x.fh \in Handles
         /\ FileIn(x) <=> x.fh \in FileHandle
         /\ x.fh = NoHandle => ~FileIn(x)
         /\ \A f \in Handles : [x EXCEPT !.fh = f] \in Object /\ [x EXCEPT !.fh = f].fh = f
         /\ \A f \in FileHandle, b \in BOOLEAN : [f EXCEPT !.bad = b] \in FileHandle
<1>1. NoNum \notin Nums
  BY SetsAssumption DEF NoNum, Nums
<1>2. x # NoObj /\ x.fh \in Handles
  BY NoObjAssumption DEF Object
<1>3. FileIn(x) <=> x.fh \in FileHandle
  BY <1>1, <1>2 DEF FileIn, Handles, FileHandle, NoHandle
<1>4. x.fh = NoHandle => ~FileIn(x)
  BY <1>2 DEF FileIn, NoHandle
<1>5. \A f \in Handles : [x EXCEPT !.fh = f] \in Object /\ [x EXCEPT !.fh = f].fh = f
  BY DEF Object
<1>6. \A f \in FileHandle, b \in BOOLEAN : [f EXCEPT !.bad = b] \in FileHandle
  BY DEF FileHandle
<1> QED BY <1>2, <1>3, <1>4, <1>5, <1>6

LEMMA StayFs == FsInv /\ UNCHANGED <<dirf, file, dirh, op>> => FsInv'
BY DEF FsInv, OpOK

LEMMA RefsType ==
  ASSUME CountInv
  PROVE  /\ refcount \in Nat
         /\ \A t \in Threads : FileIn(obj[t]) => refcount >= 1
         /\ \A e \in Enums : dirs[e] # Closed => refcount >= 1
         /\ op # NoOp => refcount >= 1
<1>1. Cardinality(Having) \in Nat /\ Cardinality(Listing) \in Nat
      /\ IsFiniteSet(Having) /\ IsFiniteSet(Listing)
  BY FS_Subset, FS_CardinalityType, SetsAssumption DEF Having, Listing
<1>2. refcount \in Nat /\ refcount >= Cardinality(Having) /\ refcount >= Cardinality(Listing)
      /\ (op # NoOp => refcount >= 1)
  BY <1>1 DEF CountInv, Pending
<1>3. ASSUME NEW t \in Threads, FileIn(obj[t]) PROVE Cardinality(Having) # 0
  <2>1. t \in Having
    BY <1>3 DEF FileIn, Having, HasFile
  <2> QED BY <1>1, <2>1, FS_EmptySet
<1>4. ASSUME NEW e \in Enums, dirs[e] # Closed PROVE Cardinality(Listing) # 0
  <2>1. e \in Listing
    BY <1>4 DEF Listing
  <2> QED BY <1>1, <2>1, FS_EmptySet
<1> QED BY <1>1, <1>2, <1>3, <1>4

LEMMA ThreadFacts ==
  ASSUME SInv, NEW t \in Threads
  PROVE  /\ ThreadOK(t)
         /\ obj' = obj => obj' = [obj EXCEPT ![t] = obj[t]]
         /\ pc' = pc => pc' = [pc EXCEPT ![t] = pc[t]]
         /\ \A f : SetHandle(t, f) => obj' = [obj EXCEPT ![t] = [obj[t] EXCEPT !.fh = f]]
         /\ Spoil(t) => obj' = [obj EXCEPT ![t] = [obj[t] EXCEPT !.fh = [obj[t].fh EXCEPT !.bad = TRUE]]]
         /\ refcount \in Nat /\ (refcount = 0 => dirh = Closed)
<1>1. ThreadOK(t) /\ obj = [y \in Threads |-> obj[y]] /\ pc = [y \in Threads \cup Enums |-> pc[y]]
  BY DEF SInv, CallInv
<1>2. refcount \in Nat /\ (refcount = 0 => dirh = Closed)
  BY RefsType DEF SInv, CountInv
<1> QED BY <1>1, <1>2 DEF SetHandle, Spoil

(* The thread goes on; it and the reference count keep their files.        *)
LEMMA QuietStep ==
  ASSUME SInv, NEW t \in Threads, NEW l \in PCs \ {"peek"}, obj[t] # NoObj,
         pc[t] \notin OpPcs, l \notin OpPcs,
         l \in WithoutFile => obj[t].fh = NoHandle,
         l \in WithFile => obj[t].fh \in FileHandle,
         UNCHANGED <<obj, started, op>>, pc' = [pc EXCEPT ![t] = l], DirsKept,
         refcount' = refcount, refcount' = 0 => dirh' = Closed
  PROVE  CallInv' /\ CountInv'
<1>1. obj[t] \in Object /\ obj' = [obj EXCEPT ![t] = obj[t]] /\ refcount \in Nat
  BY ThreadFacts DEF ThreadOK
<1>2. refcount' = refcount - One(FileIn(obj[t])) + One(FileIn(obj[t]))
  BY <1>1 DEF One
<1>3. obj[t] \in Object \cup {NoObj} /\ CallInv /\ CountInv
  BY <1>1 DEF SInv
<1> QED BY <1>1, <1>2, <1>3, PlainStep

(* The same, and its handle is another one.                                *)
LEMMA HandleStep ==
  ASSUME SInv, NEW t \in Threads, obj[t] # NoObj, pc[t] \in WithFile, pc[t] \notin OpPcs,
         NEW f \in FileHandle, obj' = [obj EXCEPT ![t] = [obj[t] EXCEPT !.fh = f]],
         UNCHANGED <<started, op>>, pc' = [pc EXCEPT ![t] = "idle"], DirsKept,
         refcount' = refcount, refcount' = 0 => dirh' = Closed
  PROVE  CallInv' /\ CountInv'
<1> DEFINE x == [obj[t] EXCEPT !.fh = f]
<1>1. obj[t] \in Object /\ obj[t].fh \in FileHandle /\ obj' = [obj EXCEPT ![t] = x]
      /\ refcount \in Nat
  BY ThreadFacts DEF ThreadOK
<1>2. f \in FileHandle
  OBVIOUS
<1>3. x \in Object /\ x.fh = f
  BY <1>1, <1>2, ObjectLemma DEF Handles
<1> HIDE DEF x
<1>4. FileIn(obj[t]) /\ FileIn(x) /\ x # NoObj
  BY <1>1, <1>2, <1>3, ObjectLemma
<1>5. refcount' = refcount - One(FileIn(obj[t])) + One(FileIn(x))
  BY <1>1, <1>4 DEF One
<1>6. x \in Object \cup {NoObj} /\ CallInv /\ CountInv /\ "idle" \in PCs \ {"peek"}
      /\ "idle" \notin OpPcs /\ "idle" \notin WithoutFile
  BY <1>3, OpPcsAre DEF SInv, PCs, WithoutFile
<1> QED BY <1>1, <1>2, <1>3, <1>4, <1>5, <1>6, PlainStep

(* The same, and its handle is lost.                                       *)
LEMMA SpoilStep ==
  ASSUME SInv, NEW t \in Threads, obj[t] # NoObj, pc[t] \in WithFile, pc[t] \notin OpPcs,
         Spoil(t), UNCHANGED <<started, op>>, pc' = [pc EXCEPT ![t] = "idle"], DirsKept,
         refcount' = refcount, refcount' = 0 => dirh' = Closed
  PROVE  CallInv' /\ CountInv'
<1> DEFINE f == [obj[t].fh EXCEPT !.bad = TRUE]
<1>1. /\ obj[t] \in Object /\ obj[t].fh \in FileHandle
      /\ obj' = [obj EXCEPT ![t] = [obj[t] EXCEPT !.fh = f]]
  BY ThreadFacts DEF ThreadOK
<1>2. f \in FileHandle
  BY <1>1, ObjectLemma
<1> HIDE DEF f
<1> QED BY <1>1, <1>2, HandleStep

(* Refused: the handle is closed.                                          *)
LEMMA RefusedLemma ==
  ASSUME SInv, Unlocked, Refused, file' \in Files
  PROVE  /\ FsInv' /\ refcount' = refcount /\ dirh' = Closed /\ DirsKept
         /\ UNCHANGED op
<1>1. CallInv /\ put_dirh(get_dirh, refcount, TRUE) /\ UNCHANGED <<dirf, op>>
  BY DEF SInv, Refused
<1>2. refcount' = refcount /\ dirh' = Closed /\ DirsKept
  BY <1>1, PutDirhLemma
<1>3. FsInv'
  BY <1>1, <1>2, MemoryStep DEF SInv, Unlocked
<1> QED BY <1>1, <1>2, <1>3

(* put_dirh of the handle that was got, or of one that lost its tree.      *)
LEMMA PutFiles ==
  ASSUME SInv, Unlocked, UNCHANGED <<dirf, op>>, file' \in Files, NEW h \in {get_dirh, [get_dirh EXCEPT !.dead = TRUE]},
         put_dirh(h, refcount, FALSE)
  PROVE  /\ FsInv' /\ refcount' = refcount /\ (refcount' = 0 => dirh' = Closed) /\ DirsKept
         /\ UNCHANGED op
<1>1. CallInv
  BY DEF SInv
<1>2. refcount' = refcount /\ dirh' \in {Closed, h} /\ DirsKept /\ (refcount = 0 => dirh' = Closed)
  BY <1>1, PutDirhLemma
<1>3. FsInv'
  BY <1>2, MemoryStep DEF SInv, Unlocked
<1> QED BY <1>2, <1>3

LEMMA PutLemma ==
  ASSUME SInv, Unlocked, OnlyMemory, NEW h \in {get_dirh, [get_dirh EXCEPT !.dead = TRUE]},
         put_dirh(h, refcount, FALSE)
  PROVE  /\ FsInv' /\ refcount' = refcount /\ (refcount' = 0 => dirh' = Closed) /\ DirsKept
         /\ UNCHANGED op
<1>1. UNCHANGED <<dirf, op>> /\ file' \in Files
  BY DEF SInv, OnlyMemory, FsInv, Files
<1> QED BY <1>1, PutFiles

LEMMA PcFacts ==
  /\ OpPcs = {"creating", "writing", "deleting", "renaming"}
  /\ OpKind["creating"] = "create" /\ OpKind["writing"] = "write"
  /\ OpKind["deleting"] = "remove" /\ OpKind["renaming"] = "rename"
BY DEF OpPcs, OpKind

-----------------------------------------------------------------------------
LEMMA GetStep ==
  ASSUME SInv, NEW t \in Threads, NEW n, NEW flags \in FlagSets, NEW l \in {"open", "create"},
         obj_get(t, n, flags, l)
  PROVE  SInv'
<1>1. PICK p \in Pobjs : obj' = [obj EXCEPT ![t] = [flags |-> flags, po |-> p, fh |-> NoHandle]]
  BY DEF obj_get
<1> DEFINE x == [flags |-> flags, po |-> p, fh |-> NoHandle]
<1>2. x \in Object /\ x.fh = NoHandle
  BY FlagsAssumption DEF Object, Handles
<1> HIDE DEF x
<1>3. ~FileIn(x) /\ x # NoObj
  BY <1>2, ObjectLemma
<1>4. /\ pc[t] = "idle" /\ obj[t] = NoObj /\ pc' = [pc EXCEPT ![t] = l]
      /\ UNCHANGED <<dirf, file, dirh, op, refcount, dirs, started>>
  BY DEF obj_get, Idle, Goto, Stay, fsvars
<1>5. refcount \in Nat /\ (refcount = 0 => dirh = Closed)
  BY ThreadFacts
<1>6. refcount' = refcount - One(FileIn(obj[t])) + One(FileIn(x))
  BY <1>3, <1>4, <1>5 DEF One, FileIn
<1>7. x \in Object \cup {NoObj} /\ CallInv /\ CountInv /\ DirsKept
      /\ l \in PCs \ {"peek"} /\ pc[t] \notin OpPcs /\ l \notin OpPcs /\ l \notin WithFile
  BY <1>2, <1>4, PcFacts DEF SInv, PCs, WithFile, DirsKept
<1>8. CallInv' /\ CountInv'
  BY <1>1, <1>2, <1>3, <1>4, <1>5, <1>6, <1>7, PlainStep DEF x
<1>9. FsInv'
  BY <1>4, StayFs DEF SInv
<1> QED BY <1>8, <1>9 DEF SInv

LEMMA ReadHeadStep ==
  ASSUME SInv, NEW t \in Threads, read_head(t)
  PROVE  SInv'
<1> DEFINE n == NameOf(t)
<1>1. /\ pc[t] = "open" /\ UNCHANGED started /\ ThreadOK(t)
      /\ refcount \in Nat /\ (refcount = 0 => dirh = Closed)
  BY ThreadFacts DEF read_head
<1>2. obj[t] \in Object /\ obj[t] # NoObj /\ obj[t].fh = NoHandle
  BY <1>1 DEF ThreadOK, WithoutFile
<1>3. CASE \E k \in Nums, i \in DOMAIN get_dirh.ents, v \in Vers :
             LET f == [num |-> k, idx |-> i, ver |-> v, bad |-> FALSE]
             IN /\ ree_fs_open(n, f) /\ SetHandle(t, f)
                /\ \/ Goto(t, "idle") /\ Works
                   \/ (Goto(t, "close") \/ Goto(t, "purge")) /\ Fails
  <2>1. PICK k \in Nums, i \in DOMAIN get_dirh.ents, v \in Vers :
             LET f == [num |-> k, idx |-> i, ver |-> v, bad |-> FALSE]
             IN /\ ree_fs_open(n, f) /\ SetHandle(t, f)
                /\ \/ Goto(t, "idle") /\ Works
                   \/ (Goto(t, "close") \/ Goto(t, "purge")) /\ Fails
    BY <1>3
  <2> DEFINE f == [num |-> k, idx |-> i, ver |-> v, bad |-> FALSE]
             x == [obj[t] EXCEPT !.fh = f]
  <2>2. ree_fs_open(n, f) /\ SetHandle(t, f)
        /\ \E l \in {"idle", "close", "purge"} : Goto(t, l)
    BY <2>1
  <2>3. op = NoOp /\ SetDirh(get_dirh, refcount + 1) /\ UNCHANGED <<dirf, file, op>>
    BY <2>2 DEF ree_fs_open, Usable, Unlocked, OnlyMemory
  <2>4. HandleOK(get_dirh) /\ WellFormed(get_dirh.ents)
    BY <2>3, GetDirh DEF SInv, HandleOK
  <2>5. i \in 1..MaxFiles
    <3> DEFINE d == get_dirh.ents
    <3>1. DOMAIN d = 1..Len(d) /\ Len(d) \in 0..MaxFiles
      <4> HIDE DEF d
      <4> QED BY <2>4, DirType DEF d
    <3> QED BY <3>1, SetsAssumption
  <2>6. f \in FileHandle
    BY <2>5 DEF FileHandle
  <2> HIDE DEF f
  <2>7. x \in Object /\ x.fh = f /\ obj' = [obj EXCEPT ![t] = x]
    BY <1>2, <2>2, <2>6, ObjectLemma, ThreadFacts DEF Handles
  <2> HIDE DEF x
  <2>8. ~FileIn(obj[t]) /\ FileIn(x) /\ x # NoObj
    BY <1>2, <2>6, <2>7, ObjectLemma
  <2>9. dirh' = get_dirh /\ refcount' = refcount + 1 /\ DirsKept
    BY <2>3, SetDirhLemma DEF SInv
  <2>10. refcount' = refcount - One(FileIn(obj[t])) + One(FileIn(x)) /\ refcount' # 0
    BY <1>1, <2>8, <2>9 DEF One
  <2>11. PICK l \in {"idle", "close", "purge"} : pc' = [pc EXCEPT ![t] = l]
    BY <2>2 DEF Goto
  <2>12. x \in Object \cup {NoObj} /\ CallInv /\ CountInv
         /\ l \in PCs \ {"peek"} /\ pc[t] \notin OpPcs /\ l \notin OpPcs /\ l \notin WithoutFile
    BY <1>1, <2>7, PcFacts DEF SInv, PCs, WithoutFile
  <2>13. CallInv' /\ CountInv'
    BY <1>1, <2>3, <2>6, <2>7, <2>8, <2>9, <2>10, <2>11, <2>12, PlainStep
  <2>14. FsInv'
    <3>1. file' \in Files
      BY <2>3 DEF SInv, FsInv, Files
    <3> QED BY <2>3, <2>9, <3>1, MemoryStep DEF SInv
  <2> QED BY <2>13, <2>14 DEF SInv
<1>4. CASE \/ ree_fs_open_not_found(n) /\ Goto(t, "release") /\ UNCHANGED obj
           \/ ree_fs_open_corrupt(n) /\ Goto(t, "purge") /\ UNCHANGED obj
           \/ ree_fs_open_fails /\ Goto(t, "release") /\ UNCHANGED obj
  <2>1. PICK l \in {"release", "purge"} : pc' = [pc EXCEPT ![t] = l]
    BY <1>4 DEF Goto
  <2>2. Unlocked /\ OnlyMemory /\ UNCHANGED obj
        /\ \E h \in {get_dirh, [get_dirh EXCEPT !.dead = TRUE]} : put_dirh(h, refcount, FALSE)
    BY <1>4 DEF ree_fs_open_not_found, ree_fs_open_corrupt, ree_fs_open_fails, Usable
  <2>3. FsInv' /\ refcount' = refcount /\ (refcount' = 0 => dirh' = Closed) /\ DirsKept
        /\ UNCHANGED op
    BY <2>2, PutLemma
  <2>4. l \in PCs \ {"peek"} /\ l \notin OpPcs /\ l \notin WithFile /\ pc[t] \notin OpPcs
    BY <1>1, PcFacts DEF PCs, WithFile
  <2> QED BY <1>1, <1>2, <2>1, <2>2, <2>3, <2>4, QuietStep DEF SInv
<1> QED BY <1>3, <1>4 DEF read_head

(* The thread begins an operation; it is refused one.                      *)
LEMMA BeginsStep ==
  ASSUME SInv, NEW t \in Threads, NEW l \in OpPcs, obj[t] # NoObj,
         l = "creating" => obj[t].fh = NoHandle,
         l \in {"writing", "renaming"} => obj[t].fh \in FileHandle,
         pc' = [pc EXCEPT ![t] = l], UNCHANGED <<started, obj>>,
         op = NoOp, FsInv', op' # NoOp, op'.by = t, op'.kind = OpKind[l],
         dirh' # Closed, \E h : SetDirh(h, refcount + 1)
  PROVE  SInv'
<1>1. CallInv /\ CountInv
  BY DEF SInv
<1>2. PICK h : SetDirh(h, refcount + 1)
  OBVIOUS
<1>3. refcount' = refcount + 1 /\ DirsKept
  BY <1>1, <1>2, SetDirhLemma
<1>4. CallInv' /\ CountInv'
  BY <1>1, <1>3, OpBegins
<1> QED BY <1>4 DEF SInv

LEMMA RefusedStep ==
  ASSUME SInv, NEW t \in Threads, NEW l \in PCs \ {"peek"}, obj[t] # NoObj,
         pc[t] \notin OpPcs, l \notin OpPcs,
         l \in WithoutFile => obj[t].fh = NoHandle,
         l \in WithFile => obj[t].fh \in FileHandle,
         pc' = [pc EXCEPT ![t] = l], UNCHANGED <<started, obj>>,
         Unlocked, Refused, file' \in Files
  PROVE  SInv'
<1>1. FsInv' /\ refcount' = refcount /\ dirh' = Closed /\ DirsKept /\ UNCHANGED op
  BY RefusedLemma
<1>2. CallInv' /\ CountInv'
  BY <1>1, QuietStep
<1> QED BY <1>1, <1>2 DEF SInv

LEMMA InitFileStep ==
  ASSUME SInv, NamesKnown, NEW t \in Threads, init_file(t)
  PROVE  SInv'
<1>1. /\ pc[t] = "create" /\ ThreadOK(t) /\ UNCHANGED <<obj, started>> /\ FsInv
  BY ThreadFacts DEF init_file, SInv
<1>2. obj[t] # NoObj /\ obj[t].fh = NoHandle
  BY <1>1 DEF ThreadOK, WithoutFile
<1>3. CASE ree_fs_create(t, NameOf(t)) /\ Goto(t, "creating")
  <2>1. NameOf(t) \in Names
    BY <1>2 DEF NamesKnown
  <2>2. /\ op = NoOp /\ FsInv' /\ op' # NoOp /\ op'.by = t /\ op'.kind = "create"
        /\ dirh' # Closed /\ \E h : SetDirh(h, refcount + 1)
    BY <1>1, <1>3, <2>1, CreateLemma
  <2>3. "creating" \in OpPcs /\ OpKind["creating"] = "create"
    BY PcFacts
  <2>4. pc' = [pc EXCEPT ![t] = "creating"]
    BY <1>3 DEF Goto
  <2> QED BY <1>1, <1>2, <2>2, <2>3, <2>4, BeginsStep
<1>4. CASE ree_fs_create_fails /\ (Goto(t, "release") \/ Goto(t, "purge"))
  <2> DEFINE k == tee_fs_dirfile_get_tmp(get_dirh)
  <2>1. k \in Nums /\ Unlink(k) /\ Refused /\ Unlocked
    BY <1>4 DEF ree_fs_create_fails, Usable
  <2> HIDE DEF k
  <2>2. file' \in Files
    BY <1>1, <2>1, UnlinkLemma
  <2>3. PICK l \in {"release", "purge"} : pc' = [pc EXCEPT ![t] = l]
    BY <1>4 DEF Goto
  <2>4. l \in PCs \ {"peek"} /\ l \notin OpPcs /\ l \notin WithFile /\ pc[t] \notin OpPcs
    BY <1>1, <2>3, PcFacts DEF PCs, WithFile
  <2> QED BY <1>1, <1>2, <2>1, <2>2, <2>3, <2>4, RefusedStep
<1> QED BY <1>3, <1>4 DEF init_file

(* An operation returns to the system call that began it.                  *)
LEMMA ReturnsLemma ==
  ASSUME SInv, NEW t \in Threads, pc[t] \in OpPcs
  PROVE  /\ op # NoOp /\ op.by = t /\ op.kind = OpKind[pc[t]] /\ OpOK /\ op \in Operation
         /\ obj[t] \in Object /\ refcount \in Nat
         /\ pc[t] = "creating" => obj[t].fh = NoHandle
         /\ pc[t] \in {"writing", "renaming"} => obj[t].fh \in FileHandle
         /\ op.kind \in {"create", "write"} => op.fh \in FileHandle
         /\ op.res \in {"ok", "error"} /\ op.old \in Nums \cup {NoNum}
<1>1. ThreadOK(t) /\ refcount \in Nat
  BY ThreadFacts
<1>2. op # NoOp /\ op.by = t /\ op.kind = OpKind[pc[t]]
  BY <1>1 DEF ThreadOK, OpPcs
<1>3. OpOK /\ op \in Operation /\ (op.kind \in {"create", "write"} => op.fh \in FileHandle)
  BY <1>2 DEF SInv, FsInv, OpOK
<1>4. obj[t] \in Object
  BY <1>1, PcFacts DEF ThreadOK
<1>5. pc[t] = "creating" => obj[t].fh = NoHandle
  BY <1>1 DEF ThreadOK, WithoutFile
<1>6. pc[t] \in {"writing", "renaming"} => obj[t].fh \in FileHandle
  BY <1>1, <1>4, ObjectLemma DEF ThreadOK, WithFile
<1>7. op.res \in {"ok", "error"} /\ op.old \in Nums \cup {NoNum}
  BY <1>3 DEF Operation
<1> QED BY <1>1, <1>2, <1>3, <1>4, <1>5, <1>6, <1>7

LEMMA InitFileEndStep ==
  ASSUME SInv, NEW t \in Threads, init_file_end(t)
  PROVE  SInv'
<1>1. pc[t] = "creating" /\ Returns("create") /\ UNCHANGED started
  BY DEF init_file_end, ree_fs_create_end
<1>2. /\ op # NoOp /\ obj[t] \in Object /\ obj[t].fh = NoHandle /\ op.fh \in FileHandle
      /\ op.res \in {"ok", "error"} /\ op.old \in Nums \cup {NoNum} /\ pc[t] \in OpPcs
      /\ dirh # Closed /\ refcount \in Nat
  BY <1>1, ReturnsLemma, PcFacts DEF OpOK
<1>3. CallInv /\ CountInv /\ FsInv /\ op' = NoOp
  BY <1>1 DEF SInv, Returns
<1>4. ~FileIn(obj[t])
  BY <1>2, ObjectLemma
<1>5. CASE op.res = "ok"
  <2> DEFINE x == [obj[t] EXCEPT !.fh = op.fh]
  <2>1. /\ SetHandle(t, op.fh) /\ pc' = [pc EXCEPT ![t] = "idle"]
        /\ Unlink(op.old) /\ UNCHANGED <<dirh, refcount, dirs>>
    BY <1>5 DEF init_file_end, ree_fs_create_end, Goto
  <2>2. x \in Object /\ x.fh = op.fh /\ obj' = [obj EXCEPT ![t] = x]
    BY <1>2, <2>1, ObjectLemma, ThreadFacts DEF Handles
  <2> HIDE DEF x
  <2>3. FileIn(x)
    BY <1>2, <2>2, ObjectLemma
  <2>4. refcount' = refcount - 1 - One(FileIn(obj[t])) + One(FileIn(x)) /\ DirsKept
    BY <1>2, <1>4, <2>1, <2>3 DEF One, DirsKept
  <2>5. refcount' = 0 => dirh' = Closed
    BY <1>3, <2>1 DEF CountInv
  <2>6. "idle" \in PCs \ {"peek"} /\ "idle" \notin OpPcs /\ "idle" \notin WithoutFile
    BY PcFacts DEF PCs, WithoutFile
  <2>7. CallInv' /\ CountInv'
    BY <1>1, <1>2, <1>3, <2>1, <2>2, <2>4, <2>5, <2>6, OpEnds
  <2>8. FsInv'
    BY <1>1, <1>2, <1>3, <1>5, <2>1, UnlinkLemma, EndStep
  <2> QED BY <2>7, <2>8 DEF SInv
<1>6. CASE op.res # "ok"
  <2>1. /\ UNCHANGED obj /\ \E l \in {"release", "purge"} : pc' = [pc EXCEPT ![t] = l]
        /\ file' = [file EXCEPT ![op.fh.num] = NoFile]
        /\ put_dirh(dirh, refcount - 1, TRUE)
    BY <1>6 DEF init_file_end, ree_fs_create_end, Goto
  <2>2. refcount' = refcount - 1 /\ dirh' = Closed /\ DirsKept
    BY <1>3, <2>1, PutDirhLemma
  <2>3. file' \in Files
    BY <1>3, <2>1 DEF FsInv, Files
  <2>4. refcount' = refcount - 1 - One(FileIn(obj[t])) + One(FileIn(obj[t]))
    BY <1>2, <2>2 DEF One
  <2>5. PICK l \in {"release", "purge"} : pc' = [pc EXCEPT ![t] = l]
    BY <2>1
  <2>9. l \in PCs \ {"peek"} /\ l \notin OpPcs /\ l \notin WithFile
    BY <2>5, PcFacts DEF PCs, WithFile
  <2>6. obj' = [obj EXCEPT ![t] = obj[t]]
    BY <2>1, ThreadFacts
  <2>7. CallInv' /\ CountInv'
    BY <1>1, <1>2, <1>3, <2>2, <2>4, <2>5, <2>6, <2>9, OpEnds
  <2>8. FsInv'
    BY <1>1, <1>3, <2>2, <2>3, EndStep
  <2> QED BY <2>7, <2>8 DEF SInv
<1> QED BY <1>5, <1>6

(* The handles a truncation that fails may leave.                          *)
Cut(f) == {f, [f EXCEPT !.bad = TRUE], [f EXCEPT !.ver = 1 - f.ver]}

LEMMA CutLemma == \A f \in FileHandle : Cut(f) \subseteq FileHandle
<1> SUFFICES ASSUME NEW f \in FileHandle PROVE Cut(f) \subseteq FileHandle
  OBVIOUS
<1>1. [f EXCEPT !.bad = TRUE] \in FileHandle
  BY DEF FileHandle
<1>2. 1 - f.ver \in Vers
  BY DEF FileHandle, Vers
<1>3. [f EXCEPT !.ver = 1 - f.ver] \in FileHandle
  BY <1>2 DEF FileHandle
<1> QED BY <1>1, <1>3 DEF Cut

(* What a thread at rest that uses its object has.                         *)
LEMMA UseLemma ==
  ASSUME SInv, NEW t \in Threads, NEW right, Use(t, right)
  PROVE  /\ pc[t] = "idle" /\ pc[t] \in WithFile /\ pc[t] \notin OpPcs /\ pc[t] \in PCs \ {"peek"}
         /\ pc[t] \notin WithoutFile
         /\ obj[t] # NoObj /\ obj[t] \in Object /\ obj[t].fh \in FileHandle
BY ThreadFacts, PcFacts DEF Use, Idle, ThreadOK, WithFile, WithoutFile, PCs

LEMMA ReadFailsStep ==
  ASSUME SInv, NEW t \in Threads, syscall_storage_obj_read_fails(t)
  PROVE  SInv'
<1>1. Use(t, "READ") /\ UNCHANGED <<dirf, file, dirh, refcount, dirs, op, started>>
  BY DEF syscall_storage_obj_read_fails
<1>2. FsInv' /\ DirsKept /\ (refcount' = 0 => dirh' = Closed)
  BY <1>1, StayFs, ThreadFacts DEF SInv, DirsKept
<1>3. CASE Spoil(t) /\ UNCHANGED pc
  <2>1. pc' = [pc EXCEPT ![t] = "idle"]
    BY <1>1, <1>3, UseLemma, ThreadFacts
  <2> QED BY <1>1, <1>2, <1>3, <2>1, UseLemma, SpoilStep DEF SInv
<1>4. CASE Goto(t, "purge") /\ UNCHANGED obj
  <2>1. pc' = [pc EXCEPT ![t] = "purge"]
    BY <1>4 DEF Goto
  <2>2. "purge" \in PCs \ {"peek"} /\ "purge" \notin OpPcs
        /\ "purge" \notin WithFile /\ "purge" \notin WithoutFile
    BY PcFacts DEF PCs, WithFile, WithoutFile
  <2> QED BY <1>1, <1>2, <1>4, <2>1, <2>2, UseLemma, QuietStep DEF SInv
<1> QED BY <1>3, <1>4 DEF syscall_storage_obj_read_fails

LEMMA SyncedFiles ==
  ASSUME FsInv, Unlocked, NEW f \in FileHandle, MaybeSynced(f)
  PROVE  file' \in Files
<1>1. file' = file \/ (file[f.num] # NoFile /\ file' = synced(f))
  BY DEF MaybeSynced
<1> QED BY <1>1, SyncedLemma DEF FsInv, Files, Unlocked

LEMMA WriteFailsStep ==
  ASSUME SInv, NEW t \in Threads, Use(t, "WRITE"), ree_fs_write_fails(obj[t].fh), Spoil(t),
         UNCHANGED <<pc, started>>
  PROVE  SInv'
<1>1. /\ pc[t] = "idle" /\ pc[t] \in WithFile /\ pc[t] \notin OpPcs
      /\ obj[t] # NoObj /\ obj[t].fh \in FileHandle
  BY UseLemma
<1>2. Unlocked /\ Refused
  BY DEF ree_fs_write_fails, Usable
<1>3. file' \in Files
  BY <1>1, <1>2, SyncedFiles DEF SInv, ree_fs_write_fails
<1>4. FsInv' /\ refcount' = refcount /\ dirh' = Closed /\ DirsKept /\ UNCHANGED op
  BY <1>2, <1>3, RefusedLemma
<1>5. pc' = [pc EXCEPT ![t] = "idle"]
  BY <1>1, ThreadFacts
<1>6. CallInv' /\ CountInv'
  BY <1>1, <1>4, <1>5, SpoilStep
<1> QED BY <1>4, <1>6 DEF SInv

LEMMA WriteStep ==
  ASSUME SInv, NEW t \in Threads, syscall_storage_obj_write(t)
  PROVE  SInv'
<1>1. Use(t, "WRITE") /\ UNCHANGED started
  BY DEF syscall_storage_obj_write
<1>2. /\ pc[t] = "idle" /\ pc[t] \in WithFile /\ pc[t] \notin OpPcs
      /\ obj[t] # NoObj /\ obj[t].fh \in FileHandle
  BY <1>1, UseLemma
<1>3. CASE ree_fs_write(t, obj[t].fh) /\ Goto(t, "writing") /\ UNCHANGED obj
  <2>1. /\ op = NoOp /\ FsInv' /\ op' # NoOp /\ op'.by = t /\ op'.kind = "write"
        /\ dirh' # Closed /\ \E h : SetDirh(h, refcount + 1)
    BY <1>2, <1>3, WriteLemma DEF SInv
  <2>2. "writing" \in OpPcs /\ OpKind["writing"] = "write"
    BY PcFacts
  <2>3. pc' = [pc EXCEPT ![t] = "writing"]
    BY <1>3 DEF Goto
  <2> QED BY <1>1, <1>2, <1>3, <2>1, <2>2, <2>3, BeginsStep
<1>4. CASE ree_fs_write_fails(obj[t].fh) /\ Spoil(t) /\ UNCHANGED pc
  BY <1>1, <1>4, WriteFailsStep
<1> QED BY <1>3, <1>4 DEF syscall_storage_obj_write

LEMMA WriteEndStep ==
  ASSUME SInv, NEW t \in Threads, write_end(t)
  PROVE  SInv'
<1> DEFINE f == [op.fh EXCEPT !.bad = (op.res # "ok")]
           x == [obj[t] EXCEPT !.fh = f]
<1>1. /\ pc[t] = "writing" /\ Returns("write") /\ UNCHANGED <<started, file>>
      /\ put_dirh(dirh, refcount - 1, op.res # "ok") /\ SetHandle(t, f)
      /\ pc' = [pc EXCEPT ![t] = "idle"]
  BY DEF write_end, ree_fs_write_end, Goto
<1>2. /\ op # NoOp /\ obj[t] \in Object /\ obj[t].fh \in FileHandle /\ op.fh \in FileHandle
      /\ pc[t] \in OpPcs /\ refcount \in Nat
  BY <1>1, ReturnsLemma, PcFacts
<1>3. CallInv /\ CountInv /\ FsInv /\ op' = NoOp
  BY <1>1 DEF SInv, Returns
<1>4. f \in FileHandle
  BY <1>2, ObjectLemma
<1> HIDE DEF f
<1>5. x \in Object /\ x.fh = f /\ obj' = [obj EXCEPT ![t] = x]
  BY <1>1, <1>2, <1>4, ObjectLemma, ThreadFacts DEF Handles
<1> HIDE DEF x
<1>6. FileIn(x) /\ FileIn(obj[t])
  BY <1>2, <1>4, <1>5, ObjectLemma
<1>7. /\ refcount' = refcount - 1 /\ DirsKept /\ dirh' \in {Closed, dirh}
      /\ (refcount' = 0 => dirh' = Closed) /\ (op.res # "ok" => dirh' = Closed)
  BY <1>1, <1>3, PutDirhLemma
<1>8. refcount' = refcount - 1 - One(FileIn(obj[t])) + One(FileIn(x))
  BY <1>2, <1>6, <1>7 DEF One
<1>9. "idle" \in PCs \ {"peek"} /\ "idle" \notin OpPcs /\ "idle" \notin WithoutFile
  BY PcFacts DEF PCs, WithoutFile
<1>10. CallInv' /\ CountInv'
  BY <1>1, <1>2, <1>3, <1>4, <1>5, <1>7, <1>8, <1>9, OpEnds
<1>11. FsInv'
  <2>1. file' \in Files
    BY <1>1, <1>3 DEF FsInv, Files
  <2> QED BY <1>1, <1>3, <1>7, <2>1, EndStep
<1> QED BY <1>10, <1>11 DEF SInv

LEMMA TruncStep ==
  ASSUME SInv, NEW t \in Threads, syscall_storage_obj_trunc(t)
  PROVE  SInv'
<1>1. /\ Use(t, "WRITE") /\ UNCHANGED started
      /\ pc[t] = "idle" /\ pc[t] \in WithFile /\ pc[t] \notin OpPcs
      /\ obj[t] # NoObj /\ obj[t].fh \in FileHandle
  BY UseLemma DEF syscall_storage_obj_trunc
<1>2. CASE ree_fs_truncate(obj[t].fh) /\ UNCHANGED <<obj, pc>>
  <2>1. Unlocked /\ OnlyMemory /\ put_dirh(get_dirh, refcount, FALSE)
    BY <1>2 DEF ree_fs_truncate, Usable
  <2>2. FsInv' /\ refcount' = refcount /\ (refcount' = 0 => dirh' = Closed) /\ DirsKept
        /\ UNCHANGED op
    BY <2>1, PutLemma
  <2>3. pc' = [pc EXCEPT ![t] = pc[t]]
    BY <1>2, ThreadFacts
  <2>4. CallInv' /\ CountInv'
    BY <1>1, <1>2, <2>2, <2>3, UseLemma, QuietStep
  <2> QED BY <2>2, <2>4 DEF SInv
<1>3. ASSUME NEW g \in Cut(obj[t].fh),
             ree_fs_truncate_fails(obj[t].fh, g), SetHandle(t, g), UNCHANGED pc
      PROVE  SInv'
  <2>1. g \in FileHandle
    BY <1>1, CutLemma
  <2>2. /\ Unlocked /\ UNCHANGED <<dirf, op>> /\ put_dirh(get_dirh, refcount, FALSE)
        /\ file' = file \/ MaybeSynced(obj[t].fh)
    BY <1>3 DEF ree_fs_truncate_fails, MaybeSynced, Usable
  <2>3. file' \in Files
    BY <1>1, <2>2, SyncedFiles DEF SInv, FsInv, Files
  <2>4. FsInv' /\ refcount' = refcount /\ (refcount' = 0 => dirh' = Closed) /\ DirsKept
        /\ UNCHANGED op
    BY <2>2, <2>3, PutFiles
  <2>5. pc' = [pc EXCEPT ![t] = "idle"] /\ obj' = [obj EXCEPT ![t] = [obj[t] EXCEPT !.fh = g]]
    BY <1>1, <1>3, ThreadFacts
  <2>6. CallInv' /\ CountInv'
    BY <1>1, <2>1, <2>4, <2>5, HandleStep
  <2> QED BY <2>4, <2>6 DEF SInv
<1>4. CASE ree_fs_write_fails(obj[t].fh) /\ Spoil(t) /\ UNCHANGED pc
  BY <1>1, <1>4, WriteFailsStep
<1>5. CASE ree_fs_write_fails(obj[t].fh) /\ Goto(t, "purge") /\ UNCHANGED obj
  <2>1. Unlocked /\ Refused
    BY <1>5 DEF ree_fs_write_fails, Usable
  <2>2. file' \in Files
    BY <1>1, <1>5, <2>1, SyncedFiles DEF SInv, ree_fs_write_fails
  <2>3. /\ "purge" \in PCs \ {"peek"} /\ "purge" \notin OpPcs
        /\ "purge" \notin WithFile /\ "purge" \notin WithoutFile
    BY PcFacts DEF PCs, WithFile, WithoutFile
  <2>4. pc' = [pc EXCEPT ![t] = "purge"]
    BY <1>5 DEF Goto
  <2> QED BY <1>1, <1>5, <2>1, <2>2, <2>3, <2>4, RefusedStep
<1> QED BY <1>2, <1>3, <1>4, <1>5 DEF syscall_storage_obj_trunc, Cut

LEMMA DelStep ==
  ASSUME SInv, NamesKnown, NEW t \in Threads, syscall_storage_obj_del(t)
  PROVE  SInv'
<1>1. CanDelete(t) /\ UNCHANGED <<obj, started>> /\ ThreadOK(t)
  BY ThreadFacts DEF syscall_storage_obj_del
<1>2. pc[t] \in {"idle", "purge"} /\ obj[t] # NoObj
  BY <1>1 DEF CanDelete, Use, Idle, ThreadOK
<1>3. CASE ree_fs_remove(t, NameOf(t)) /\ Goto(t, "deleting")
  <2>1. NameOf(t) \in Names
    BY <1>2 DEF NamesKnown
  <2>2. /\ op = NoOp /\ FsInv' /\ op' # NoOp /\ op'.by = t /\ op'.kind = "remove"
        /\ dirh' # Closed /\ \E h : SetDirh(h, refcount + 1)
    BY <1>3, <2>1, RemoveLemma DEF SInv
  <2>3. "deleting" \in OpPcs /\ OpKind["deleting"] = "remove"
    BY PcFacts
  <2>4. pc' = [pc EXCEPT ![t] = "deleting"]
    BY <1>3 DEF Goto
  <2> QED BY <1>1, <1>2, <2>2, <2>3, <2>4, BeginsStep
<1>4. CASE ree_fs_remove_fails /\ Goto(t, "close")
  <2>1. Unlocked /\ Refused /\ file' \in Files
    BY <1>4 DEF ree_fs_remove_fails, Usable, SInv, FsInv, Files
  <2>2. /\ "close" \in PCs \ {"peek"} /\ "close" \notin OpPcs /\ "close" \notin WithFile
        /\ "close" \notin WithoutFile /\ pc[t] \notin OpPcs
    BY <1>2, PcFacts DEF PCs, WithFile, WithoutFile
  <2>3. pc' = [pc EXCEPT ![t] = "close"]
    BY <1>4 DEF Goto
  <2> QED BY <1>1, <1>2, <2>1, <2>2, <2>3, RefusedStep
<1> QED BY <1>3, <1>4 DEF syscall_storage_obj_del

(* The end of a remove or rename.                                          *)
LEMMA EndsStep ==
  ASSUME SInv, NEW t \in Threads, NEW k, NEW l \in PCs \ {"peek"}, Returns(k),
         pc[t] \in OpPcs, l \notin OpPcs, l \notin WithoutFile,
         l \in WithFile => obj[t].fh \in FileHandle,
         pc' = [pc EXCEPT ![t] = l], UNCHANGED <<obj, started>>,
         put_dirh(dirh, refcount - 1, op.res # "ok"), file' \in Files
  PROVE  SInv'
<1>1. op # NoOp /\ obj[t] \in Object /\ refcount \in Nat
  BY ReturnsLemma
<1>2. CallInv /\ CountInv /\ FsInv /\ op' = NoOp
  BY DEF SInv, Returns
<1>3. /\ refcount' = refcount - 1 /\ DirsKept /\ dirh' \in {Closed, dirh}
      /\ (refcount' = 0 => dirh' = Closed) /\ (op.res # "ok" => dirh' = Closed)
  BY <1>2, PutDirhLemma
<1>4. refcount' = refcount - 1 - One(FileIn(obj[t])) + One(FileIn(obj[t]))
  BY <1>1, <1>3 DEF One
<1>5. obj' = [obj EXCEPT ![t] = obj[t]]
  BY ThreadFacts
<1>6. CallInv' /\ CountInv'
  BY <1>1, <1>2, <1>3, <1>4, <1>5, OpEnds
<1>7. FsInv'
  BY <1>2, <1>3, EndStep
<1> QED BY <1>6, <1>7 DEF SInv

LEMMA DelEndStep ==
  ASSUME SInv, NEW t \in Threads, del_end(t)
  PROVE  SInv'
<1>1. /\ pc[t] = "deleting" /\ Returns("remove") /\ UNCHANGED <<obj, started>>
      /\ pc' = [pc EXCEPT ![t] = "close"] /\ put_dirh(dirh, refcount - 1, op.res # "ok")
      /\ IF op.res = "ok" THEN Unlink(op.old) ELSE UNCHANGED file
  BY DEF del_end, ree_fs_remove_end, Goto
<1>2. /\ "close" \in PCs \ {"peek"} /\ "close" \notin OpPcs /\ "close" \notin WithFile
      /\ "close" \notin WithoutFile /\ pc[t] \in OpPcs
  BY <1>1, PcFacts DEF PCs, WithFile, WithoutFile
<1>3. op.old \in Nums \cup {NoNum}
  BY <1>2, ReturnsLemma
<1>4. file' \in Files
  BY <1>1, <1>3, UnlinkLemma DEF SInv, FsInv, Files
<1> QED BY <1>1, <1>2, <1>4, EndsStep

LEMMA CloseStep ==
  ASSUME SInv, NEW t \in Threads, tee_obj_close(t)
  PROVE  SInv'
<1> DEFINE x == [obj[t] EXCEPT !.fh = NoHandle]
<1>1. /\ obj[t] # NoObj /\ pc[t] \in {"idle", "close"} /\ SetHandle(t, NoHandle)
      /\ pc' = [pc EXCEPT ![t] = "release"] /\ UNCHANGED started
  BY DEF tee_obj_close, Idle, Goto
<1>2. obj[t] \in Object /\ refcount \in Nat /\ (refcount = 0 => dirh = Closed)
  BY <1>1, ThreadFacts DEF ThreadOK
<1>3. x \in Object /\ x.fh = NoHandle /\ obj' = [obj EXCEPT ![t] = x]
  BY <1>1, <1>2, ObjectLemma, ThreadFacts DEF Handles
<1> HIDE DEF x
<1>4. ~FileIn(x) /\ x # NoObj
  BY <1>3, ObjectLemma
<1>5. /\ "release" \in PCs \ {"peek"} /\ "release" \notin OpPcs /\ "release" \notin WithFile
      /\ pc[t] \notin OpPcs
  BY <1>1, PcFacts DEF PCs, WithFile
<1>6. /\ FsInv' /\ UNCHANGED op /\ DirsKept /\ (refcount' = 0 => dirh' = Closed)
      /\ refcount' = refcount - One(FileIn(obj[t])) + One(FileIn(x))
  <2>1. CASE obj[t].fh.num = NoNum
    <3>1. UNCHANGED <<dirf, file, dirh, refcount, dirs, op>>
      BY <2>1 DEF tee_obj_close, Stay, fsvars
    <3>2. ~FileIn(obj[t])
      BY <2>1 DEF FileIn
    <3> QED BY <1>2, <1>4, <3>1, <3>2, StayFs DEF One, DirsKept, SInv
  <2>2. CASE obj[t].fh.num # NoNum
    <3>1. Unlocked /\ put_dirh(dirh, refcount - 1, FALSE) /\ UNCHANGED <<dirf, file, op>>
      BY <2>2 DEF tee_obj_close, ree_fs_close, OnlyMemory
    <3>2. FileIn(obj[t])
      BY <1>1, <2>2 DEF FileIn
    <3>3. /\ refcount' = refcount - 1 /\ DirsKept /\ dirh' \in {Closed, dirh}
          /\ (refcount' = 0 => dirh' = Closed)
      BY <3>1, PutDirhLemma DEF SInv
    <3>4. FsInv'
      BY <3>1, <3>3, MemoryStep DEF SInv, FsInv, Files, Unlocked
    <3> QED BY <1>2, <1>4, <3>1, <3>2, <3>3, <3>4 DEF One
  <2> QED BY <2>1, <2>2
<1>7. x \in Object \cup {NoObj} /\ CallInv /\ CountInv
  BY <1>3 DEF SInv
<1>8. CallInv' /\ CountInv'
  BY <1>1, <1>3, <1>4, <1>5, <1>6, <1>7, PlainStep
<1> QED BY <1>6, <1>8 DEF SInv

(* Steps that leave the file system alone.                                 *)
LEMMA StayStep ==
  ASSUME SInv, NEW t \in Threads, Stay, UNCHANGED started
  PROVE  /\ FsInv' /\ UNCHANGED op /\ DirsKept /\ refcount' = refcount
         /\ (refcount' = 0 => dirh' = Closed)
<1>1. UNCHANGED <<dirf, file, dirh, refcount, dirs, op>>
  BY DEF Stay, fsvars
<1> QED BY <1>1, StayFs, ThreadFacts DEF DirsKept, SInv

LEMMA ReleaseStep ==
  ASSUME SInv, NEW t \in Threads, obj_release(t)
  PROVE  SInv'
<1>1. /\ pc[t] = "release" /\ obj' = [obj EXCEPT ![t] = NoObj]
      /\ pc' = [pc EXCEPT ![t] = "idle"] /\ Stay /\ UNCHANGED started
  BY DEF obj_release, Goto
<1>2. /\ FsInv' /\ UNCHANGED op /\ DirsKept /\ refcount' = refcount
      /\ (refcount' = 0 => dirh' = Closed)
  BY <1>1, StayStep
<1>3. ThreadOK(t) /\ refcount \in Nat
  BY ThreadFacts
<1>4. obj[t] \in Object /\ obj[t].fh = NoHandle
  BY <1>1, <1>3 DEF ThreadOK, WithoutFile
<1>5. ~FileIn(obj[t]) /\ ~FileIn(NoObj)
  BY <1>4, ObjectLemma DEF FileIn
<1>6. refcount' = refcount - One(FileIn(obj[t])) + One(FileIn(NoObj))
  BY <1>2, <1>3, <1>5 DEF One
<1>7. /\ "idle" \in PCs \ {"peek"} /\ "idle" \notin OpPcs /\ "idle" \notin WithoutFile
      /\ pc[t] \notin OpPcs /\ NoObj \in Object \cup {NoObj} /\ CallInv /\ CountInv
  BY <1>1, PcFacts DEF PCs, WithoutFile, SInv
<1>8. CallInv' /\ CountInv'
  BY <1>1, <1>2, <1>6, <1>7, PlainStep
<1> QED BY <1>2, <1>8 DEF SInv

LEMMA RenameStep ==
  ASSUME SInv, NEW t \in Threads, NEW m, syscall_storage_obj_rename(t, m)
  PROVE  SInv'
<1>1. /\ Use(t, "META") /\ UNCHANGED <<obj, started>> /\ pc' = [pc EXCEPT ![t] = "rename"] /\ Stay
  BY DEF syscall_storage_obj_rename, Goto
<1>2. /\ FsInv' /\ UNCHANGED op /\ DirsKept /\ refcount' = refcount
      /\ (refcount' = 0 => dirh' = Closed)
  BY <1>1, StayStep
<1>3. "rename" \in PCs \ {"peek"} /\ "rename" \notin OpPcs /\ "rename" \notin WithoutFile
  BY PcFacts DEF PCs, WithoutFile
<1>4. CallInv' /\ CountInv'
  BY <1>1, <1>2, <1>3, UseLemma, QuietStep
<1> QED BY <1>2, <1>4 DEF SInv

(* The rest of a rename.                                                   *)
LEMMA RenamingLemma ==
  ASSUME SInv, NEW t \in Threads, pc[t] \in Renaming
  PROVE  /\ obj[t] # NoObj /\ obj[t].fh \in FileHandle /\ pc[t] \in WithFile
         /\ pc[t] # "renaming" => pc[t] \notin OpPcs
         /\ \A l \in Renaming \ {"renaming"} :
              l \in PCs \ {"peek"} /\ l \notin OpPcs /\ l \notin WithoutFile
<1>1. ThreadOK(t)
  BY ThreadFacts
<1>2. pc[t] \in WithFile /\ obj[t] # NoObj
  BY <1>1 DEF ThreadOK, WithFile, Renaming
<1>3. obj[t].fh \in FileHandle
  BY <1>1, <1>2 DEF ThreadOK
<1>4. \A l \in Renaming \ {"renaming"} :
        l \in PCs \ {"peek"} /\ l \notin OpPcs /\ l \notin WithoutFile
  BY PcFacts DEF Renaming, PCs, WithoutFile
<1> QED BY <1>2, <1>3, <1>4

LEMMA MoveStep ==
  ASSUME SInv, NamesKnown, NEW t \in Threads, rename_move(t)
  PROVE  SInv'
<1>1. pc[t] = "rename" /\ UNCHANGED <<obj, started>>
  BY DEF rename_move
<1>2. /\ obj[t] # NoObj /\ obj[t].fh \in FileHandle /\ pc[t] \notin OpPcs
      /\ \A l \in Renaming \ {"renaming"} :
           l \in PCs \ {"peek"} /\ l \notin OpPcs /\ l \notin WithoutFile
  BY <1>1, RenamingLemma DEF Renaming
<1>3. CASE ree_fs_rename(t, NameOf(t), pobj[dst[t]].name) /\ Goto(t, "renaming")
  <2>1. NameOf(t) \in Names /\ pobj[dst[t]].name \in Names
    BY <1>1, <1>2 DEF NamesKnown
  <2>2. /\ op = NoOp /\ FsInv' /\ op' # NoOp /\ op'.by = t /\ op'.kind = "rename"
        /\ dirh' # Closed /\ \E h : SetDirh(h, refcount + 1)
    BY <1>3, <2>1, RenameLemma DEF SInv
  <2>3. "renaming" \in OpPcs /\ OpKind["renaming"] = "rename"
    BY PcFacts
  <2>4. pc' = [pc EXCEPT ![t] = "renaming"]
    BY <1>3 DEF Goto
  <2> QED BY <1>1, <1>2, <2>2, <2>3, <2>4, BeginsStep
<1>4. CASE /\ ree_fs_rename_fails
           /\ \E l \in {"rename_failed", "renamed"} : Goto(t, l)
  <2>1. PICK l \in {"rename_failed", "renamed"} : pc' = [pc EXCEPT ![t] = l]
    BY <1>4 DEF Goto
  <2>2. l \in Renaming \ {"renaming"}
    BY DEF Renaming
  <2>3. Unlocked /\ Refused /\ file' \in Files
    BY <1>4 DEF ree_fs_rename_fails, Usable, SInv, FsInv, Files
  <2> QED BY <1>1, <1>2, <2>1, <2>2, <2>3, RefusedStep
<1> QED BY <1>3, <1>4 DEF rename_move

LEMMA RenameEndStep ==
  ASSUME SInv, NEW t \in Threads, rename_end(t)
  PROVE  SInv'
<1>1. /\ pc[t] = "renaming" /\ Returns("rename") /\ UNCHANGED <<obj, started, file>>
      /\ put_dirh(dirh, refcount - 1, op.res # "ok")
      /\ \E l \in {"rename_failed", "renamed"} : pc' = [pc EXCEPT ![t] = l]
  BY DEF rename_end, ree_fs_rename_end, Goto
<1>2. PICK l \in {"rename_failed", "renamed"} : pc' = [pc EXCEPT ![t] = l]
  BY <1>1
<1>3. /\ obj[t].fh \in FileHandle /\ pc[t] \in OpPcs
      /\ l \in PCs \ {"peek"} /\ l \notin OpPcs /\ l \notin WithoutFile
  BY <1>1, RenamingLemma, PcFacts DEF Renaming
<1>4. file' \in Files
  BY <1>1 DEF SInv, FsInv, Files
<1> QED BY <1>1, <1>2, <1>3, <1>4, EndsStep

LEMMA RenamePobjStep ==
  ASSUME SInv, NEW t \in Threads, rename_pobj(t)
  PROVE  SInv'
<1>1. /\ pc[t] = "renamed" /\ UNCHANGED <<obj, started>>
      /\ pc' = [pc EXCEPT ![t] = "unreserve"] /\ Stay
  BY DEF rename_pobj, Goto
<1>2. /\ FsInv' /\ UNCHANGED op /\ DirsKept /\ refcount' = refcount
      /\ (refcount' = 0 => dirh' = Closed)
  BY <1>1, StayStep
<1>3. /\ obj[t] # NoObj /\ obj[t].fh \in FileHandle /\ pc[t] \notin OpPcs
      /\ "unreserve" \in PCs \ {"peek"} /\ "unreserve" \notin OpPcs /\ "unreserve" \notin WithoutFile
  BY <1>1, RenamingLemma DEF Renaming
<1>4. CallInv' /\ CountInv'
  BY <1>1, <1>2, <1>3, QuietStep
<1> QED BY <1>2, <1>4 DEF SInv

LEMMA UnreserveStep ==
  ASSUME SInv, NEW t \in Threads, rename_unreserve(t)
  PROVE  SInv'
<1>1. /\ pc[t] \in {"unreserve", "rename_failed"} /\ UNCHANGED started
      /\ pc' = [pc EXCEPT ![t] = "idle"] /\ Stay
      /\ UNCHANGED obj \/ Spoil(t)
  BY DEF rename_unreserve, Goto
<1>2. /\ FsInv' /\ UNCHANGED op /\ DirsKept /\ refcount' = refcount
      /\ (refcount' = 0 => dirh' = Closed)
  BY <1>1, StayStep
<1>3. obj[t] # NoObj /\ obj[t].fh \in FileHandle /\ pc[t] \notin OpPcs /\ pc[t] \in WithFile
  BY <1>1, RenamingLemma DEF Renaming
<1>4. "idle" \in PCs \ {"peek"} /\ "idle" \notin OpPcs /\ "idle" \notin WithoutFile
  BY PcFacts DEF PCs, WithoutFile
<1>5. CASE UNCHANGED obj
  BY <1>1, <1>2, <1>3, <1>4, <1>5, QuietStep DEF SInv
<1>6. CASE Spoil(t)
  BY <1>1, <1>2, <1>3, <1>6, SpoilStep DEF SInv
<1> QED BY <1>1, <1>5, <1>6

-----------------------------------------------------------------------------
(* Enumerations.                                                           *)
LEMMA EnumFacts ==
  ASSUME SInv, NEW e \in Enums
  PROVE  /\ EnumOK(e) /\ dirs = [d \in Enums |-> dirs[d]] /\ started = [d \in Enums |-> started[d]]
         /\ pc' = pc => pc' = [pc EXCEPT ![e] = pc[e]]
         /\ \A d \in Enums : dirs[d] \in Nat \cup {Closed, Stale}
         /\ refcount \in Nat /\ (refcount = 0 => dirh = Closed)
         /\ dirs[e] # Closed => refcount >= 1
         /\ CallInv /\ CountInv /\ FsInv
<1>1. CallInv /\ CountInv /\ FsInv
  BY DEF SInv
<1>2. refcount \in Nat /\ (refcount = 0 => dirh = Closed) /\ (dirs[e] # Closed => refcount >= 1)
  BY <1>1, RefsType DEF CountInv
<1> QED BY <1>1, <1>2 DEF CallInv, EnumOK

(* The enumeration goes on; its handle may be closed by the step.          *)
LEMMA EnumKept ==
  ASSUME SInv, NEW e \in Enums, NEW b \in BOOLEAN, NEW l \in {"idle", "peek"},
         UNCHANGED <<obj, op>>, pc' = [pc EXCEPT ![e] = l],
         started' = [started EXCEPT ![e] = b], DirsKept,
         b \/ dirs[e] = Closed,
         refcount' = refcount, refcount' = 0 => dirh' = Closed
  PROVE  CallInv' /\ CountInv'
<1>1. CallInv /\ CountInv /\ started = [d \in Enums |-> started[d]] /\ refcount \in Nat
  BY EnumFacts
<1>2. /\ dirs' = [d \in Enums |-> dirs'[d]]
      /\ \A d \in Enums : /\ dirs'[d] \in Nat \cup {Closed, Stale}
                          /\ dirs'[d] = Closed <=> dirs[d] = Closed
  BY <1>1, KeptLemma
<1>3. /\ started' = [d \in Enums |-> started'[d]] /\ started'[e] = b
      /\ \A d \in Enums : d # e => started'[d] = started[d]
  BY <1>1
<1>4. refcount' = refcount - One(dirs[e] # Closed) + One(dirs'[e] # Closed)
  BY <1>1, <1>2 DEF One
<1>5. \A d \in Enums : d # e => /\ started'[d] = started[d]
                                /\ dirs'[d] \in Nat \cup {Closed, Stale}
                                /\ dirs'[d] = Closed <=> dirs[d] = Closed
  BY <1>2, <1>3
<1> QED BY <1>1, <1>2, <1>3, <1>4, <1>5, EnumStep

LEMMA StartEnumStep ==
  ASSUME SInv, NEW e \in Enums, syscall_storage_start_enum(e)
  PROVE  SInv'
<1>1. /\ pc[e] = "idle" /\ ~started[e] /\ UNCHANGED <<obj, pc>>
      /\ started' = [started EXCEPT ![e] = TRUE]
  BY DEF syscall_storage_start_enum, Idle
<1>2. /\ dirs[e] = Closed /\ pc' = [pc EXCEPT ![e] = "idle"]
      /\ CallInv /\ CountInv /\ FsInv /\ refcount \in Nat
      /\ dirs = [d \in Enums |-> dirs[d]] /\ started = [d \in Enums |-> started[d]]
      /\ \A d \in Enums : dirs[d] \in Nat \cup {Closed, Stale}
  BY <1>1, EnumFacts DEF EnumOK
<1>3. CASE ree_fs_opendir(e)
  <2>1. /\ op = NoOp /\ dirh' = get_dirh /\ refcount' = refcount + 1
        /\ dirs' = [dirs EXCEPT ![e] = 0] /\ UNCHANGED <<dirf, file, op>>
    BY <1>3 DEF ree_fs_opendir, Usable, Unlocked, OnlyMemory
  <2>2. FsInv'
    <3>1. file' \in Files
      BY <1>2, <2>1 DEF FsInv, Files
    <3> QED BY <1>2, <2>1, <3>1, MemoryStep
  <2>3. /\ dirs' = [d \in Enums |-> dirs'[d]] /\ dirs'[e] = 0
        /\ \A d \in Enums : d # e => dirs'[d] = dirs[d]
        /\ started' = [d \in Enums |-> started'[d]] /\ started'[e] = TRUE
        /\ \A d \in Enums : d # e => started'[d] = started[d]
    BY <1>1, <1>2, <2>1
  <2>4. refcount' = refcount - One(dirs[e] # Closed) + One(dirs'[e] # Closed) /\ refcount' # 0
    BY <1>2, <2>1, <2>3, NonesAssumption DEF One
  <2>5. \A d \in Enums : d # e => /\ started'[d] = started[d]
                                  /\ dirs'[d] \in Nat \cup {Closed, Stale}
                                  /\ dirs'[d] = Closed <=> dirs[d] = Closed
    BY <1>2, <2>3
  <2>6. CallInv' /\ CountInv'
    BY <1>1, <1>2, <2>1, <2>3, <2>4, <2>5, EnumStep
  <2> QED BY <2>2, <2>6 DEF SInv
<1>4. CASE ree_fs_opendir_fails
  <2>1. Unlocked /\ OnlyMemory
        /\ \E h \in {get_dirh, [get_dirh EXCEPT !.dead = TRUE]} : put_dirh(h, refcount, FALSE)
    BY <1>4 DEF ree_fs_opendir_fails, Usable
  <2>2. FsInv' /\ refcount' = refcount /\ (refcount' = 0 => dirh' = Closed) /\ DirsKept
        /\ UNCHANGED op
    BY <2>1, PutLemma
  <2> QED BY <1>1, <1>2, <2>2, EnumKept DEF SInv
<1> QED BY <1>3, <1>4 DEF syscall_storage_start_enum

LEMMA NextEnumStep ==
  ASSUME SInv, NEW e \in Enums, syscall_storage_next_enum(e)
  PROVE  SInv'
<1>1. pc[e] = "idle" /\ dirs[e] # Closed /\ UNCHANGED <<obj, started>>
  BY DEF syscall_storage_next_enum, Idle
<1>2. /\ started[e] = TRUE /\ refcount >= 1
      /\ CallInv /\ CountInv /\ FsInv /\ refcount \in Nat
      /\ dirs = [d \in Enums |-> dirs[d]] /\ started = [d \in Enums |-> started[d]]
      /\ \A d \in Enums : dirs[d] \in Nat \cup {Closed, Stale}
  BY <1>1, EnumFacts DEF EnumOK
<1>3. started' = [started EXCEPT ![e] = TRUE] /\ refcount # 0
  <2>1. started = [started EXCEPT ![e] = started[e]] /\ refcount # 0
    <3>1. started = [d \in Enums |-> started[d]]
      BY EnumFacts
    <3>2. refcount # 0
      BY <1>2
    <3> QED BY <3>1, <3>2
  <2>2. started = [started EXCEPT ![e] = TRUE]
    BY <1>2, <2>1, Zenon
  <2> QED BY <1>1, <2>1, <2>2
<1>4. ASSUME NEW n \in Names, ree_fs_readdir(e, n), Goto(e, "peek")
      PROVE  SInv'
  <2>1. /\ op = NoOp /\ UNCHANGED <<dirf, file, op, dirh, refcount>> /\ dirh # Closed
        /\ pc' = [pc EXCEPT ![e] = "peek"]
    BY <1>4 DEF ree_fs_readdir, Unlocked, OnlyMemory, Goto
  <2>2. FsInv'
    BY <1>2, <2>1, StayFs
  <2>3. CASE dirs[e] = Stale
    <3>1. DirsKept
      BY <1>4, <2>3 DEF ree_fs_readdir, DirsKept
    <3> QED BY <1>1, <1>2, <1>3, <2>1, <2>2, <3>1, EnumKept DEF SInv
  <2>4. CASE dirs[e] # Stale
    <3> DEFINE R == Remaining(dirh.ents, dirs[e])
               i == Min(R)
    <3>1. R # {} /\ dirs' = [dirs EXCEPT ![e] = i]
      BY <1>4, <2>4 DEF ree_fs_readdir
    <3>2. R \in SUBSET Nat
      <4>1. WellFormed(dirh.ents)
        BY <1>2, <2>1 DEF FsInv, HandleOK
      <4>2. \A j \in Live(dirh.ents) : j \in 1..MaxFiles
        BY <4>1, DirType
      <4> QED BY <4>2, SetsAssumption DEF Remaining
    <3>3. i \in Nat
      <4> HIDE DEF R
      <4> QED BY <3>1, <3>2, MinLemma
    <3> HIDE DEF i
    <3>4. /\ dirs' = [d \in Enums |-> dirs'[d]] /\ dirs'[e] = i
          /\ \A d \in Enums : d # e => dirs'[d] = dirs[d]
      BY <1>2, <3>1
    <3>5. refcount' = refcount - One(dirs[e] # Closed) + One(dirs'[e] # Closed)
      BY <1>1, <1>2, <2>1, <3>3, <3>4, NonesAssumption DEF One
    <3>6. \A d \in Enums : d # e => /\ started'[d] = started[d]
                                    /\ dirs'[d] \in Nat \cup {Closed, Stale}
                                    /\ dirs'[d] = Closed <=> dirs[d] = Closed
      BY <1>1, <1>2, <3>4
    <3>7. CallInv' /\ CountInv'
      BY <1>1, <1>2, <1>3, <2>1, <3>3, <3>4, <3>5, <3>6, EnumStep
    <3> QED BY <2>2, <3>7 DEF SInv
  <2> QED BY <2>3, <2>4
<1>5. ASSUME ree_fs_readdir_ends(e), UNCHANGED pc
      PROVE  SInv'
  <2>1. op = NoOp /\ UNCHANGED <<dirf, file, op, dirs, refcount>>
    BY <1>5 DEF ree_fs_readdir_ends, Unlocked, OnlyMemory
  <2>2. dirh' = dirh \/ (dirh # Closed /\ dirh' = [dirh EXCEPT !.dead = TRUE])
    BY <1>5 DEF ree_fs_readdir_ends
  <2>3. FsInv'
    <3>1. file' \in Files
      BY <1>2, <2>1 DEF FsInv, Files
    <3>2. dirh' = dirh \/ dirh' = [get_dirh EXCEPT !.dead = TRUE]
      BY <2>2 DEF get_dirh
    <3> QED BY <1>2, <2>1, <3>1, <3>2, MemoryStep
  <2>4. DirsKept /\ pc' = [pc EXCEPT ![e] = "idle"]
    BY <1>1, <1>5, <2>1, EnumFacts DEF DirsKept
  <2>5. CallInv' /\ CountInv'
    BY <1>1, <1>2, <1>3, <2>1, <2>4, EnumKept
  <2> QED BY <2>3, <2>5 DEF SInv
<1> QED BY <1>4, <1>5 DEF syscall_storage_next_enum

LEMMA EnumReadHeadStep ==
  ASSUME SInv, NEW e \in Enums, enum_read_head(e)
  PROVE  SInv'
<1>1. pc' = [pc EXCEPT ![e] = "idle"] /\ UNCHANGED <<obj, started>>
  BY DEF enum_read_head, Goto
<1>2. Unlocked /\ OnlyMemory
      /\ \E h \in {get_dirh, [get_dirh EXCEPT !.dead = TRUE]} : put_dirh(h, refcount, FALSE)
  BY DEF enum_read_head, ree_fs_open_close, ree_fs_open_fails, Usable
<1>3. FsInv' /\ refcount' = refcount /\ (refcount' = 0 => dirh' = Closed) /\ DirsKept
      /\ UNCHANGED op
  BY <1>2, PutLemma
<1>4. started' = [started EXCEPT ![e] = started[e]] /\ started[e] \in BOOLEAN
      /\ (started[e] \/ dirs[e] = Closed)
  BY <1>1, EnumFacts DEF EnumOK
<1>5. CallInv' /\ CountInv'
  BY <1>1, <1>3, <1>4, EnumKept
<1> QED BY <1>3, <1>5 DEF SInv

LEMMA ResetEnumStep ==
  ASSUME SInv, NEW e \in Enums, syscall_storage_reset_enum(e)
  PROVE  SInv'
<1>1. /\ pc[e] = "idle" /\ UNCHANGED <<obj, pc>> /\ started' = [started EXCEPT ![e] = FALSE]
  BY DEF syscall_storage_reset_enum, Idle
<1>2. /\ pc' = [pc EXCEPT ![e] = "idle"]
      /\ CallInv /\ CountInv /\ FsInv /\ refcount \in Nat /\ (refcount = 0 => dirh = Closed)
      /\ dirs = [d \in Enums |-> dirs[d]] /\ started = [d \in Enums |-> started[d]]
      /\ \A d \in Enums : dirs[d] \in Nat \cup {Closed, Stale}
  BY <1>1, EnumFacts
<1>3. CASE dirs[e] = Closed
  <2>1. UNCHANGED <<dirf, file, dirh, refcount, dirs, op>>
    BY <1>3 DEF syscall_storage_reset_enum, Stay, fsvars
  <2>2. FsInv' /\ DirsKept
    BY <1>2, <2>1, StayFs DEF DirsKept
  <2> QED BY <1>1, <1>2, <1>3, <2>1, <2>2, EnumKept DEF SInv
<1>4. CASE dirs[e] # Closed
  <2>1. /\ op = NoOp /\ dirh # Closed /\ refcount' = refcount - 1
        /\ dirh' = (IF refcount - 1 = 0 THEN Closed ELSE dirh)
        /\ dirs' = [dirs EXCEPT ![e] = Closed] /\ UNCHANGED <<dirf, file, op>>
    BY <1>4 DEF syscall_storage_reset_enum, ree_fs_closedir, Unlocked, OnlyMemory
  <2>2. FsInv'
    <3>1. file' \in Files
      BY <1>2, <2>1 DEF FsInv, Files
    <3> QED BY <1>2, <2>1, <3>1, MemoryStep
  <2>3. /\ dirs' = [d \in Enums |-> dirs'[d]] /\ dirs'[e] = Closed
        /\ \A d \in Enums : d # e => dirs'[d] = dirs[d]
        /\ started' = [d \in Enums |-> started'[d]] /\ started'[e] = FALSE
        /\ \A d \in Enums : d # e => started'[d] = started[d]
    BY <1>1, <1>2, <2>1
  <2>4. refcount' = refcount - One(dirs[e] # Closed) + One(dirs'[e] # Closed)
    BY <1>2, <1>4, <2>1, <2>3 DEF One
  <2>5. \A d \in Enums : d # e => /\ started'[d] = started[d]
                                  /\ dirs'[d] \in Nat \cup {Closed, Stale}
                                  /\ dirs'[d] = Closed <=> dirs[d] = Closed
    BY <1>2, <2>3
  <2>6. CallInv' /\ CountInv'
    BY <1>1, <1>2, <2>1, <2>3, <2>4, <2>5, EnumStep
  <2> QED BY <2>2, <2>6 DEF SInv
<1> QED BY <1>3, <1>4

-----------------------------------------------------------------------------
(* The start, and the start after a power failure or an abort.             *)
Started ==
  /\ dirh = Closed /\ refcount = 0 /\ op = NoOp /\ dirs = [e \in Enums |-> Closed]
  /\ obj = [t \in Threads |-> NoObj] /\ started = [e \in Enums |-> FALSE]
  /\ pc = [t \in Threads \cup Enums |-> "idle"]

LEMMA StartedInv == Started => CallInv /\ CountInv
<1> SUFFICES ASSUME Started PROVE CallInv /\ CountInv
  OBVIOUS
<1>1. /\ obj = [t \in Threads |-> NoObj] /\ pc = [t \in Threads \cup Enums |-> "idle"]
      /\ dirs = [e \in Enums |-> Closed] /\ started = [e \in Enums |-> FALSE]
      /\ op = NoOp /\ refcount = 0 /\ dirh = Closed
  BY DEF Started
<1>2. "idle" \in PCs \ {"peek"} /\ "idle" \notin OpPcs /\ "idle" \notin WithoutFile
  BY PcFacts DEF PCs, WithoutFile
<1>3. \A t \in Threads : ThreadOK(t)
  BY <1>1, <1>2 DEF ThreadOK, OpPcs
<1>4. \A e \in Enums : EnumOK(e)
  BY <1>1 DEF EnumOK
<1>5. CallInv
  BY <1>1, <1>3, <1>4 DEF CallInv
<1>6. Having = {} /\ Listing = {} /\ Pending = 0
  BY <1>1 DEF Having, HasFile, Listing, Pending
<1>7. Cardinality({}) = 0
  BY FS_EmptySet
<1>8. CountInv
  BY <1>1, <1>6, <1>7 DEF CountInv
<1> QED BY <1>5, <1>8

LEMMA StartedNext == Started' => CallInv' /\ CountInv'
BY StartedInv, PTL

LEMMA InitSInv == Init => SInv
<1> SUFFICES ASSUME Init PROVE SInv
  OBVIOUS
<1>1. Started
  BY DEF Init, FsInit, Started
<1>2. WellFormed(dirf)
  BY InitDirsAssumption DEF Init, FsInit
<1>3. file \in [Nums -> FileVersions \cup {NoFile}]
  <2>1. NewFile(1) \in FileVersions
    BY DEF NewFile, FileVersions, Contents
  <2> QED BY <2>1 DEF Init, FsInit
<1>4. FsInv
  BY <1>1, <1>2, <1>3 DEF FsInv, Started
<1> QED BY <1>1, <1>4, StartedInv DEF SInv

LEMMA ResetStep ==
  ASSUME SInv, FsReset, Reset
  PROVE  SInv'
<1>1. Started'
  BY DEF FsReset, Reset, Started
<1>2. FsInv'
  <2>1. dirf' = dirf /\ dirh' = Closed /\ op' = NoOp
        /\ file' = [k \in Nums |-> IF k \in NumsOf(dirf) THEN file[k] ELSE NoFile]
    BY DEF FsReset
  <2>2. file' \in [Nums -> FileVersions \cup {NoFile}]
    BY <2>1 DEF SInv, FsInv
  <2> QED BY <2>1, <2>2 DEF SInv, FsInv
<1> QED BY <1>1, <1>2, StartedNext DEF SInv

LEMMA ReeFsStep ==
  ASSUME SInv, ree_fs
  PROVE  SInv'
<1>1. /\ FsInv' /\ (op' = NoOp <=> op = NoOp)
      /\ op # NoOp => op'.by = op.by /\ op'.kind = op.kind
  <2>1. CASE commit_dirh_writes \/ commit_dirh_writes_fails
    BY <2>1, CommitStep DEF SInv
  <2>2. CASE open_dirh_replaces
    <3>1. op = NoOp /\ dirf' = <<>> /\ UNCHANGED <<file, dirh, op>> /\ dirh = Closed
      BY <2>2 DEF open_dirh_replaces, Unlocked
    <3>2. WellFormed(<<>>)
      BY SetsAssumption DEF WellFormed, Live
    <3> QED BY <3>1, <3>2 DEF SInv, FsInv
  <2> QED BY <2>1, <2>2 DEF ree_fs
<1>2. UNCHANGED <<dirh, refcount, dirs, obj, started, pc>>
  BY DEF ree_fs, svars, commit_dirh_writes, commit_dirh_writes_fails, open_dirh_replaces
<1>3. CallInv'
  <2>1. \A t \in Threads : ThreadOK(t)'
    BY <1>1, <1>2 DEF SInv, CallInv, ThreadOK
  <2>2. \A e \in Enums : EnumOK(e)'
    BY <1>2 DEF SInv, CallInv, EnumOK
  <2> QED BY <1>1, <1>2, <2>1, <2>2 DEF SInv, CallInv
<1>4. CountInv'
  BY <1>1, <1>2 DEF SInv, CountInv, Having, HasFile, Listing, Pending
<1> QED BY <1>1, <1>3, <1>4 DEF SInv

(* Every step keeps the invariant.                                         *)
LEMMA NextSInv ==
  ASSUME SInv, NamesKnown, [Next]_vars
  PROVE  SInv'
<1>1. CASE crash
  BY <1>1, ResetStep DEF crash, FsCrash
<1>2. CASE ree_fs
  BY <1>2, ReeFsStep
<1>3. ASSUME NEW t \in Threads, NEW n \in Names, NEW f \in FlagSets,
             syscall_storage_obj_open(t, n, f) \/ syscall_storage_obj_create(t, n, f)
      PROVE  SInv'
  BY <1>3, GetStep DEF syscall_storage_obj_open, syscall_storage_obj_create
<1>4. ASSUME NEW t \in Threads,
             \/ read_head(t) \/ init_file(t) \/ init_file_end(t)
             \/ syscall_storage_obj_read_fails(t)
             \/ syscall_storage_obj_write(t) \/ write_end(t)
             \/ syscall_storage_obj_trunc(t)
             \/ syscall_storage_obj_del(t) \/ del_end(t)
             \/ tee_obj_close(t) \/ obj_release(t)
      PROVE  SInv'
  BY <1>4, ReadHeadStep, InitFileStep, InitFileEndStep, ReadFailsStep, WriteStep, WriteEndStep,
     TruncStep, DelStep, DelEndStep, CloseStep, ReleaseStep
<1>5. ASSUME NEW t \in Threads,
             \/ \E m \in Names : syscall_storage_obj_rename(t, m)
             \/ rename_move(t) \/ rename_end(t) \/ rename_pobj(t) \/ rename_unreserve(t)
      PROVE  SInv'
  BY <1>5, RenameStep, MoveStep, RenameEndStep, RenamePobjStep, UnreserveStep
<1>6. ASSUME NEW t \in Threads, object_aborts(t)
      PROVE  SInv'
  BY <1>6, ResetStep DEF object_aborts, Abort
<1>7. ASSUME NEW e \in Enums,
             \/ syscall_storage_start_enum(e) \/ syscall_storage_next_enum(e)
             \/ enum_read_head(e) \/ syscall_storage_reset_enum(e)
      PROVE  SInv'
  BY <1>7, StartEnumStep, NextEnumStep, EnumReadHeadStep, ResetEnumStep
<1>8. ASSUME NEW e \in Enums, enum_aborts(e)
      PROVE  SInv'
  BY <1>8, ResetStep DEF enum_aborts, Abort
<1>9. CASE UNCHANGED vars
  <2>1. UNCHANGED <<dirf, file, dirh, refcount, dirs, op, obj, started, pc>>
    BY <1>9 DEF vars, fsvars, svars
  <2>2. FsInv'
    BY <2>1, StayFs DEF SInv
  <2>3. \A t \in Threads : ThreadOK(t)'
    BY <2>1 DEF SInv, CallInv, ThreadOK
  <2>4. \A e \in Enums : EnumOK(e)'
    BY <2>1 DEF SInv, CallInv, EnumOK
  <2>5. CallInv'
    BY <2>1, <2>3, <2>4 DEF SInv, CallInv
  <2>6. CountInv'
    BY <2>1 DEF SInv, CountInv, Having, HasFile, Listing, Pending
  <2> QED BY <2>2, <2>5, <2>6 DEF SInv
<1> QED BY <1>1, <1>2, <1>3, <1>4, <1>5, <1>6, <1>7, <1>8, <1>9 DEF Next
=============================================================================
