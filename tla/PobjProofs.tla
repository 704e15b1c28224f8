----------------------------- MODULE PobjProofs -----------------------------
(***************************************************************************)
(* Theorems about Storage.tla for any number of threads, enumerations,     *)
(* names and files, from the invariant of the file system (StorageProofs)  *)
(* and that of tee_pobjs: an entry counts its users and those who reserve  *)
(* its name, users of one entry share it with one another, and two entries *)
(* have the same name only while a rename gives the second one back.       *)
(*                                                                         *)
(* For TAs that do not share objects for writing, and without the mishaps  *)
(* that each theorem names: writers find their entries (TrackInv), the     *)
(* core stops only after an error (AbortInv), and the operations are       *)
(* atomic (OpInv and the refinement of ObjStore.tla).                      *)
(***************************************************************************)
EXTENDS StorageProofs

(* The names the file system is asked for are names of objects.            *)
LEMMA PobjNames ==
  ASSUME CallInv, PobjInv
  PROVE  NamesKnown
<1>1. \A p \in InUse : pobj[p].name \in Names
  BY DEF PobjInv, InUse, Pobj
<1>2. ASSUME NEW t \in Threads, obj[t] # NoObj PROVE NameOf(t) \in Names
  BY <1>1, <1>2 DEF PobjInv, NameOf
<1>3. ASSUME NEW t \in Threads, pc[t] = "rename" PROVE pobj[dst[t]].name \in Names
  BY <1>1, <1>3 DEF PobjInv, RenameOK, Renaming
<1> QED BY <1>2, <1>3 DEF NamesKnown

(* Those who may use an object with somebody else may use it with whoever  *)
(* may too.                                                                *)
LEMMA AccessLemma ==
  ASSUME NEW o, NEW x, NEW f, Fits(o, x), tee_pobj_check_access(o, f)
  PROVE  tee_pobj_check_access(x, f) /\ tee_pobj_check_access(f, x)
<1>1. CASE o = x
  BY <1>1 DEF tee_pobj_check_access
<1>2. CASE tee_pobj_check_access(o, x)
  BY <1>2 DEF tee_pobj_check_access
<1> QED BY <1>1, <1>2 DEF Fits

LEMMA NoMeta ==
  ASSUME NEW o, NEW f, "META" \in o \/ "META" \in f
  PROVE  ~tee_pobj_check_access(o, f)
BY DEF tee_pobj_check_access

(* What the invariant says of one thread, in the forms the steps use.      *)
LEMMA PobjFacts ==
  ASSUME CallInv, PobjInv, NEW t \in Threads
  PROVE  /\ ThreadOK(t) /\ RenameOK(t) /\ obj[t] \in Object \cup {NoObj}
         /\ obj = [u \in Threads |-> obj[u]] /\ dst = [u \in Threads |-> dst[u]]
         /\ pc = [u \in Threads \cup Enums |-> pc[u]]
         /\ pobj \in [Pobjs -> Pobj \cup {NoPobj}]
BY DEF CallInv, PobjInv, ThreadOK

LEMMA UsersLemma ==
  ASSUME NEW p
  PROVE  /\ Users(p) \in SUBSET Threads /\ Reservers(p) \in SUBSET Threads
         /\ IsFiniteSet(Users(p)) /\ IsFiniteSet(Reservers(p))
         /\ Cardinality(Users(p)) \in Nat /\ Cardinality(Reservers(p)) \in Nat
<1>1. Users(p) \in SUBSET Threads /\ Reservers(p) \in SUBSET Threads
  BY DEF Users, Reservers
<1>2. IsFiniteSet(Users(p)) /\ IsFiniteSet(Reservers(p))
  BY <1>1, FS_Subset, SetsAssumption
<1> QED BY <1>1, <1>2, FS_CardinalityType

-----------------------------------------------------------------------------
(* Steps that leave the entries and who uses them alone.                   *)
Keeps ==
  /\ UNCHANGED <<pobj, dst>>
  /\ \A u \in Threads :
       /\ obj'[u] = NoObj <=> obj[u] = NoObj
       /\ obj[u] # NoObj => obj'[u].flags = obj[u].flags /\ obj'[u].po = obj[u].po
       /\ pc'[u] \in Renaming <=> pc[u] \in Renaming
       /\ pc[u] = "unreserve" => pc'[u] = "unreserve"

LEMMA KeepsStep ==
  ASSUME CallInv, PobjInv, Keeps
  PROVE  PobjInv'
<1>1. /\ UNCHANGED <<pobj, dst>> /\ InUse' = InUse
      /\ \A u \in Threads :
           /\ obj'[u] = NoObj <=> obj[u] = NoObj
           /\ obj[u] # NoObj => obj'[u].flags = obj[u].flags /\ obj'[u].po = obj[u].po
           /\ pc'[u] \in Renaming <=> pc[u] \in Renaming
           /\ pc[u] = "unreserve" => pc'[u] = "unreserve"
  BY DEF Keeps, InUse
<1>2. \A p : Users(p)' = Users(p) /\ Reservers(p)' = Reservers(p)
  BY <1>1 DEF Users, Reservers
<1>3. \A t \in Threads : pc[t] \in Renaming => obj[t] # NoObj
  BY DEF CallInv, ThreadOK, Renaming
<1>4. ASSUME NEW t \in Threads PROVE RenameOK(t)'
  <2>1. RenameOK(t) /\ (dst[t] # 0 => obj[t] # NoObj)
    BY <1>3 DEF PobjInv, RenameOK
  <2> QED BY <1>1, <1>2, <2>1 DEF RenameOK
<1>5. \A t \in Threads : obj'[t] # NoObj =>
        obj'[t].po \in InUse' /\ Fits(pobj'[obj'[t].po].flags, obj'[t].flags)
  BY <1>1 DEF PobjInv
<1>6. \A t, u \in Threads :
        t # u /\ obj'[t] # NoObj /\ obj'[u] # NoObj /\ obj'[t].po = obj'[u].po =>
          tee_pobj_check_access(obj'[t].flags, obj'[u].flags)
  BY <1>1 DEF PobjInv
<1>7. \A p \in InUse' : /\ pobj'[p].refcnt > 0
                        /\ pobj'[p].refcnt = Cardinality(Users(p)') + Cardinality(Reservers(p)')
  BY <1>1, <1>2 DEF PobjInv
<1>8. ASSUME NEW p \in InUse', NEW q \in InUse', p # q, pobj'[p].name = pobj'[q].name
      PROVE  \E t \in Threads : pc'[t] = "unreserve" /\ {p, q} = {obj'[t].po, dst'[t]}
  <2>1. PICK t \in Threads : pc[t] = "unreserve" /\ {p, q} = {obj[t].po, dst[t]}
    BY <1>1, <1>8 DEF PobjInv
  <2>2. obj[t] # NoObj
    BY <1>3, <2>1 DEF Renaming
  <2> QED BY <1>1, <2>1, <2>2
<1>9. pobj' \in [Pobjs -> Pobj \cup {NoPobj}] /\ dst' = [t \in Threads |-> dst'[t]]
  BY <1>1 DEF PobjInv
<1> QED BY <1>4, <1>5, <1>6, <1>7, <1>8, <1>9 DEF PobjInv

(* A step of thread t that is one of these.                                *)
LEMMA ThreadKeeps ==
  ASSUME CallInv, NEW t \in Threads, NEW l, UNCHANGED <<pobj, dst>>,
         pc' = [pc EXCEPT ![t] = l], pc[t] \in Renaming <=> l \in Renaming,
         pc[t] # "unreserve",
         \/ UNCHANGED obj
         \/ obj[t] # NoObj /\ \E f \in Handles : obj' = [obj EXCEPT ![t] = [obj[t] EXCEPT !.fh = f]]
  PROVE  Keeps
<1>1. /\ obj = [u \in Threads |-> obj[u]] /\ pc = [u \in Threads \cup Enums |-> pc[u]]
      /\ obj[t] \in Object \cup {NoObj}
  BY DEF CallInv, ThreadOK
<1>2. pc'[t] = l /\ \A u \in Threads : u # t => pc'[u] = pc[u]
  BY <1>1
<1>3. CASE UNCHANGED obj
  BY <1>2, <1>3 DEF Keeps
<1>4. CASE obj[t] # NoObj /\ \E f \in Handles : obj' = [obj EXCEPT ![t] = [obj[t] EXCEPT !.fh = f]]
  <2>1. PICK f \in Handles : obj' = [obj EXCEPT ![t] = [obj[t] EXCEPT !.fh = f]]
    BY <1>4
  <2> DEFINE x == [obj[t] EXCEPT !.fh = f]
  <2>2. x \in Object /\ obj[t] \in Object
    BY <1>1, <1>4, ObjectLemma
  <2>3. x.flags = obj[t].flags /\ x.po = obj[t].po
    BY <2>2 DEF Object
  <2>4. x # NoObj
    BY <2>2, ObjectLemma
  <2> HIDE DEF x
  <2>5. obj'[t] = x /\ \A u \in Threads : u # t => obj'[u] = obj[u]
    BY <1>1, <2>1 DEF x
  <2> QED BY <1>2, <1>4, <2>3, <2>4, <2>5 DEF Keeps
<1> QED BY <1>3, <1>4

(* A step of an enumeration.                                               *)
LEMMA EnumKeeps ==
  ASSUME CallInv, UNCHANGED <<pobj, obj, dst>>,
         pc' = pc \/ \E e \in Enums, l \in {"idle", "peek"} : pc' = [pc EXCEPT ![e] = l]
  PROVE  Keeps
<1>1. pc = [u \in Threads \cup Enums |-> pc[u]]
  BY DEF CallInv
<1>2. \A u \in Threads : pc'[u] = pc[u]
  BY <1>1, SetsAssumption
<1> QED BY <1>2 DEF Keeps

LEMMA HandleKept ==
  ASSUME SInv, NEW t \in Threads, obj[t] # NoObj, Spoil(t), obj[t].fh \in FileHandle
  PROVE  \E f \in Handles : obj' = [obj EXCEPT ![t] = [obj[t] EXCEPT !.fh = f]]
<1>1. obj' = [obj EXCEPT ![t] = [obj[t] EXCEPT !.fh = [obj[t].fh EXCEPT !.bad = TRUE]]]
  BY ThreadFacts
<1>2. [obj[t].fh EXCEPT !.bad = TRUE] \in Handles
  BY DEF FileHandle, Handles
<1> QED BY <1>1, <1>2

LEMMA ReadHeadKeeps ==
  ASSUME SInv, NEW t \in Threads, read_head(t)
  PROVE  Keeps
<1>1. /\ pc[t] = "open" /\ UNCHANGED <<pobj, dst>> /\ CallInv
      /\ \E l \in {"idle", "close", "purge", "release"} : pc' = [pc EXCEPT ![t] = l]
  BY DEF read_head, SInv, Goto
<1>2. PICK l \in {"idle", "close", "purge", "release"} : pc' = [pc EXCEPT ![t] = l]
  BY <1>1
<1>3. (pc[t] \in Renaming <=> l \in Renaming) /\ pc[t] # "unreserve" /\ obj[t] # NoObj
  BY <1>1, ThreadFacts DEF Renaming, ThreadOK
<1>4. CASE UNCHANGED obj
  BY <1>1, <1>2, <1>3, <1>4, ThreadKeeps
<1>5. CASE \E k \in Nums, i \in DOMAIN get_dirh.ents, v \in Vers :
             /\ op = NoOp
             /\ SetHandle(t, [num |-> k, idx |-> i, ver |-> v, bad |-> FALSE])
  <2>1. PICK k \in Nums, i \in DOMAIN get_dirh.ents, v \in Vers :
             /\ op = NoOp
             /\ SetHandle(t, [num |-> k, idx |-> i, ver |-> v, bad |-> FALSE])
    BY <1>5
  <2> DEFINE d == get_dirh.ents
             f == [num |-> k, idx |-> i, ver |-> v, bad |-> FALSE]
  <2>2. WellFormed(d)
    BY <2>1, GetDirh DEF SInv, HandleOK
  <2>3. DOMAIN d = 1..Len(d) /\ Len(d) \in 0..MaxFiles
    <3> HIDE DEF d
    <3> QED BY <2>2, DirType
  <2>4. f \in Handles
    BY <2>3, SetsAssumption DEF FileHandle, Handles
  <2>5. obj' = [obj EXCEPT ![t] = [obj[t] EXCEPT !.fh = f]]
    BY <2>1, ThreadFacts
  <2> HIDE DEF f
  <2> QED BY <1>1, <1>2, <1>3, <2>4, <2>5, ThreadKeeps
<1> QED BY <1>4, <1>5 DEF read_head, ree_fs_open, Usable, Unlocked

LEMMA FileKeeps ==
  ASSUME SInv, NEW t \in Threads,
         \/ init_file(t) \/ init_file_end(t) \/ syscall_storage_obj_read_fails(t)
         \/ syscall_storage_obj_write(t) \/ write_end(t) \/ syscall_storage_obj_trunc(t)
         \/ syscall_storage_obj_del(t) \/ del_end(t) \/ tee_obj_close(t)
  PROVE  Keeps
<1> DEFINE Ls == {"idle", "create", "creating", "release", "purge", "writing", "deleting", "close"}
           Handled == obj[t] # NoObj /\ \E f \in Handles : obj' = [obj EXCEPT ![t] = [obj[t] EXCEPT !.fh = f]]
<1>1. CallInv /\ ThreadOK(t) /\ (pc' = pc => pc' = [pc EXCEPT ![t] = pc[t]])
  BY ThreadFacts DEF SInv
<1>2. UNCHANGED <<pobj, dst>>
  BY DEF init_file, init_file_end, syscall_storage_obj_read_fails, syscall_storage_obj_write,
     write_end, syscall_storage_obj_trunc, syscall_storage_obj_del, del_end, tee_obj_close, svars
<1>3. pc[t] \in Ls /\ (pc' = pc \/ \E l \in Ls : pc' = [pc EXCEPT ![t] = l])
  BY DEF init_file, init_file_end, syscall_storage_obj_read_fails, syscall_storage_obj_write,
     write_end, syscall_storage_obj_trunc, syscall_storage_obj_del, del_end, tee_obj_close, svars,
     Goto, Use, Idle, CanDelete
<1>4. UNCHANGED obj \/ Handled
  <2>1. CASE init_file(t) \/ syscall_storage_obj_del(t) \/ del_end(t)
    BY <2>1 DEF init_file, syscall_storage_obj_del, del_end, svars
  <2>6. CASE syscall_storage_obj_trunc(t)
    <3>1. Use(t, "WRITE")
      BY <2>6 DEF syscall_storage_obj_trunc
    <3>2. obj[t] # NoObj /\ obj[t].fh \in FileHandle
      BY <3>1, UseLemma
    <3>3. UNCHANGED obj \/ Spoil(t) \/ \E g \in Cut(obj[t].fh) : SetHandle(t, g)
      BY <2>6 DEF syscall_storage_obj_trunc, Cut
    <3>4. Cut(obj[t].fh) \subseteq Handles
      BY <3>2, CutLemma DEF Handles
    <3>5. CASE \E g \in Cut(obj[t].fh) : SetHandle(t, g)
      <4>1. PICK g \in Cut(obj[t].fh) : SetHandle(t, g)
        BY <3>5
      <4>2. obj' = [obj EXCEPT ![t] = [obj[t] EXCEPT !.fh = g]] /\ g \in Handles
        BY <3>4, <4>1, ThreadFacts
      <4> QED BY <3>2, <4>2
    <3> QED BY <3>2, <3>3, <3>5, HandleKept
  <2>2. CASE init_file_end(t)
    <3>1. pc[t] = "creating" /\ (UNCHANGED obj \/ SetHandle(t, op.fh))
      BY <2>2 DEF init_file_end
    <3>2. pc[t] \in OpPcs /\ op.fh \in Handles /\ obj[t] \in Object
      BY <3>1, PcFacts, ReturnsLemma DEF Handles
    <3>3. obj[t] # NoObj
      BY <3>2, ObjectLemma
    <3> QED BY <3>1, <3>2, <3>3, ThreadFacts
  <2>3. CASE syscall_storage_obj_read_fails(t) \/ syscall_storage_obj_write(t)
    <3>1. Use(t, "READ") \/ Use(t, "WRITE")
      BY <2>3 DEF syscall_storage_obj_read_fails, syscall_storage_obj_write
    <3>2. obj[t] # NoObj /\ obj[t].fh \in FileHandle
      BY <3>1, UseLemma
    <3>3. UNCHANGED obj \/ Spoil(t)
      BY <2>3 DEF syscall_storage_obj_read_fails, syscall_storage_obj_write
    <3> QED BY <3>2, <3>3, HandleKept
  <2>4. CASE write_end(t)
    <3> DEFINE f == [op.fh EXCEPT !.bad = (op.res # "ok")]
    <3>1. pc[t] = "writing" /\ SetHandle(t, f)
      BY <2>4 DEF write_end
    <3>2. pc[t] \in OpPcs /\ op.fh \in FileHandle /\ obj[t] \in Object
      BY <3>1, PcFacts, ReturnsLemma
    <3>3. f \in Handles /\ obj[t] # NoObj
      BY <3>2, ObjectLemma DEF Handles
    <3> HIDE DEF f
    <3> QED BY <3>1, <3>3, ThreadFacts
  <2>5. CASE tee_obj_close(t)
    <3>1. obj[t] # NoObj /\ SetHandle(t, NoHandle) /\ NoHandle \in Handles
      BY <2>5 DEF tee_obj_close, Handles
    <3> QED BY <3>1, ThreadFacts
  <2> QED BY <2>1, <2>2, <2>3, <2>4, <2>5, <2>6
<1>5. PICK l \in Ls : pc' = [pc EXCEPT ![t] = l]
  BY <1>1, <1>3
<1>6. (pc[t] \in Renaming <=> l \in Renaming) /\ pc[t] # "unreserve"
  BY <1>3 DEF Renaming
<1> QED BY <1>1, <1>2, <1>4, <1>5, <1>6, ThreadKeeps

LEMMA MoveKeeps ==
  ASSUME SInv, NEW t \in Threads, rename_move(t) \/ rename_end(t)
  PROVE  Keeps
<1>1. CallInv /\ UNCHANGED <<pobj, dst, obj>> /\ pc[t] \in {"rename", "renaming"}
      /\ \E l \in {"renaming", "rename_failed", "renamed"} : pc' = [pc EXCEPT ![t] = l]
  BY DEF rename_move, rename_end, Goto, SInv
<1>2. PICK l \in {"renaming", "rename_failed", "renamed"} : pc' = [pc EXCEPT ![t] = l]
  BY <1>1
<1> QED BY <1>1, <1>2, ThreadKeeps DEF Renaming

LEMMA EnumsKeep ==
  ASSUME SInv, NEW e \in Enums,
         \/ syscall_storage_start_enum(e) \/ syscall_storage_next_enum(e)
         \/ enum_read_head(e) \/ syscall_storage_reset_enum(e)
  PROVE  Keeps
<1>1. /\ CallInv /\ UNCHANGED <<pobj, obj, dst>>
      /\ pc' = pc \/ \E l \in {"idle", "peek"} : pc' = [pc EXCEPT ![e] = l]
  BY DEF SInv, syscall_storage_start_enum, syscall_storage_next_enum, enum_read_head,
     syscall_storage_reset_enum, Goto
<1> QED BY <1>1, EnumKeeps

-----------------------------------------------------------------------------
(* tee_pobj_get finds room: not all entries are in use, since a thread has *)
(* at most its object and the name it renames to, and this one has not     *)
(* got both.                                                               *)
LEMMA RoomLemma ==
  ASSUME CallInv, PobjInv, NEW t \in Threads, obj[t] = NoObj \/ dst[t] = 0
  PROVE  \E q \in Pobjs : pobj[q] = NoPobj
<1> DEFINE W == {u \in Threads : obj[u] # NoObj}
           D == {u \in Threads : dst[u] # 0}
           f == [u \in W |-> obj[u].po]
           g == [u \in D |-> dst[u]]
           A == {f[u] : u \in W}
           B == {g[u] : u \in D}
           N == Cardinality(Threads)
<1>1. N \in Nat /\ W \in SUBSET Threads /\ D \in SUBSET Threads
  BY FS_CardinalityType, SetsAssumption
<1>2. IsFiniteSet(W) /\ IsFiniteSet(D) /\ Cardinality(W) <= N /\ Cardinality(D) <= N
      /\ Cardinality(W) \in Nat /\ Cardinality(D) \in Nat
  <2> HIDE DEF W, D
  <2>1. IsFiniteSet(W) /\ IsFiniteSet(D) /\ Cardinality(W) <= N /\ Cardinality(D) <= N
    BY <1>1, FS_Subset, SetsAssumption
  <2> QED BY <2>1, FS_CardinalityType
<1>3. Cardinality(W) + Cardinality(D) < 2 * N
  <2>1. CASE obj[t] = NoObj
    <3>1. W # Threads
      BY <2>1
    <3> HIDE DEF W, D
    <3>2. Cardinality(W) # N
      BY <1>1, <3>1, FS_Subset, SetsAssumption
    <3> HIDE DEF N
    <3> QED BY <1>1, <1>2, <3>2
  <2>2. CASE dst[t] = 0
    <3>1. D # Threads
      BY <2>2
    <3> HIDE DEF W, D
    <3>2. Cardinality(D) # N
      BY <1>1, <3>1, FS_Subset, SetsAssumption
    <3> HIDE DEF N
    <3> QED BY <1>1, <1>2, <3>2
  <2> QED BY <2>1, <2>2
<1>4. IsFiniteSet(A) /\ Cardinality(A) <= Cardinality(W)
  <2>1. f \in Surjection(W, A)
    BY DEF Surjection
  <2> HIDE DEF f, A, W
  <2> QED BY <1>2, <2>1, FS_Surjection
<1>5. IsFiniteSet(B) /\ Cardinality(B) <= Cardinality(D)
  <2>1. g \in Surjection(D, B)
    BY DEF Surjection
  <2> HIDE DEF g, B, D
  <2> QED BY <1>2, <2>1, FS_Surjection
<1>6. InUse \subseteq A \cup B
  <2>1. ASSUME NEW p \in InUse, p \notin A \cup B PROVE FALSE
    <3>1. Users(p) = {} /\ Reservers(p) = {}
      <4>1. p # 0
        BY <2>1 DEF InUse, Pobjs
      <4>2. \A u \in W : f[u] = obj[u].po
        OBVIOUS
      <4>3. \A u \in D : g[u] = dst[u]
        OBVIOUS
      <4> QED BY <2>1, <4>1, <4>2, <4>3 DEF Users, Reservers
    <3>2. Cardinality({}) = 0
      BY FS_EmptySet
    <3>3. /\ pobj[p].refcnt > 0
          /\ pobj[p].refcnt = Cardinality(Users(p)) + Cardinality(Reservers(p))
      BY <2>1 DEF PobjInv
    <3>4. pobj[p].refcnt = 0
      BY <3>1, <3>2, <3>3
    <3> QED BY <3>3, <3>4
  <2> QED BY <2>1
<1> HIDE DEF A, B, W, D
<1>7. IsFiniteSet(A \cup B) /\ Cardinality(A \cup B) < 2 * N
  <2>1. IsFiniteSet(A \cup B) /\ IsFiniteSet(A \cap B)
        /\ Cardinality(A \cup B) = Cardinality(A) + Cardinality(B) - Cardinality(A \cap B)
    <3>1. IsFiniteSet(A \cap B)
      BY <1>4, FS_Subset
    <3> QED BY <1>4, <1>5, <3>1, FS_Union
  <2>2. Cardinality(A) \in Nat /\ Cardinality(B) \in Nat /\ Cardinality(A \cap B) \in Nat
    BY <1>4, <1>5, <2>1, FS_CardinalityType
  <2> HIDE DEF N
  <2> QED BY <1>1, <1>2, <1>3, <1>4, <1>5, <2>1, <2>2
<1>8. Cardinality(InUse) <= Cardinality(A \cup B) /\ IsFiniteSet(InUse)
  BY <1>6, <1>7, FS_Subset
<1>9. Cardinality(Pobjs) = 2 * N
  <2>1. 2 * N \in Nat
    <3> HIDE DEF N
    <3> QED BY <1>1
  <2>2. Pobjs = 1..(2 * N)
    BY DEF Pobjs
  <2> HIDE DEF N
  <2>3. 2 * N \in Int /\ 1 \in Int
    BY <2>1
  <2>4. Cardinality(1..(2 * N)) = IF 1 > 2 * N THEN 0 ELSE 2 * N - 1 + 1
    BY <2>3, FS_Interval
  <2> QED BY <2>1, <2>2, <2>4, <1>1
<1>10. InUse # Pobjs
  <2>1. Cardinality(InUse) \in Nat /\ Cardinality(A \cup B) \in Nat
    BY <1>7, <1>8, FS_CardinalityType
  <2> HIDE DEF N
  <2> QED BY <1>1, <1>7, <1>8, <1>9, <2>1
<1> QED BY <1>10 DEF InUse

(* What tee_pobj_get does.                                                 *)
LEMMA GetsLemma ==
  ASSUME CallInv, PobjInv, NEW t \in Threads, obj[t] = NoObj \/ dst[t] = 0,
         NEW n \in Names, NEW flags \in SUBSET Flags, NEW b \in BOOLEAN, NEW p \in Pobjs,
         tee_pobj_get(n, flags, b, p)
  PROVE  /\ pobj' \in [Pobjs -> Pobj \cup {NoPobj}] /\ p \in InUse' /\ InUse' = InUse \cup {p}
         /\ \A q \in Pobjs : q # p => pobj'[q] = pobj[q]
         /\ \/ /\ p \in InUse /\ tee_pobj_check_access(pobj[p].flags, flags)
               /\ pobj'[p].flags = pobj[p].flags /\ pobj'[p].name = pobj[p].name
               /\ pobj'[p].refcnt = pobj[p].refcnt + 1
            \/ /\ p \notin InUse /\ pobj'[p].flags = flags /\ pobj'[p].refcnt = 1
               /\ pobj'[p].name = n /\ \A q \in InUse : pobj[q].name # n
<1>1. pobj \in [Pobjs -> Pobj \cup {NoPobj}]
  BY DEF PobjInv
<1>2. CASE /\ p \in Named(n) /\ tee_pobj_check_access(pobj[p].flags, flags)
           /\ pobj' = [pobj EXCEPT ![p].refcnt = @ + 1]
  <2> DEFINE x == [pobj[p] EXCEPT !.refcnt = @ + 1]
  <2>1. p \in InUse /\ pobj[p] \in Pobj
    BY <1>1, <1>2 DEF Named, InUse
  <2>2. x \in Pobj /\ x.flags = pobj[p].flags /\ x.name = pobj[p].name
        /\ x.refcnt = pobj[p].refcnt + 1
    BY <2>1 DEF Pobj
  <2>3. pobj' = [pobj EXCEPT ![p] = x]
    BY <1>1, <1>2
  <2>4. x # NoPobj
    BY <2>2, NoObjAssumption
  <2> HIDE DEF x
  <2>5. /\ pobj' \in [Pobjs -> Pobj \cup {NoPobj}] /\ pobj'[p] = x
        /\ \A q \in Pobjs : q # p => pobj'[q] = pobj[q]
    BY <1>1, <2>2, <2>3
  <2>6. InUse' = InUse
    BY <2>1, <2>4, <2>5 DEF InUse
  <2> QED BY <1>2, <2>1, <2>2, <2>5, <2>6
<1>3. CASE /\ Named(n) = {} /\ p = Min({q \in Pobjs : pobj[q] = NoPobj})
           /\ pobj' = [pobj EXCEPT ![p] = [name |-> n, flags |-> flags,
                                           temporary |-> b, refcnt |-> 1]]
  <2> DEFINE x == [name |-> n, flags |-> flags, temporary |-> b, refcnt |-> 1]
             Q == {q \in Pobjs : pobj[q] = NoPobj}
  <2>1. p \in Q
    <3>1. Q \in SUBSET Nat
      <4>1. Cardinality(Threads) \in Nat
        BY FS_CardinalityType, SetsAssumption
      <4> QED BY <4>1 DEF Pobjs
    <3>2. Q # {}
      BY RoomLemma
    <3>3. p = Min(Q)
      BY <1>3
    <3> HIDE DEF Q
    <3> QED BY <3>1, <3>2, <3>3, MinLemma
  <2>2. x \in Pobj
    BY DEF Pobj
  <2>3. x # NoPobj
    BY <2>2, NoObjAssumption
  <2>4. x.flags = flags /\ x.refcnt = 1 /\ x.name = n
    OBVIOUS
  <2> HIDE DEF x
  <2>5. /\ pobj' \in [Pobjs -> Pobj \cup {NoPobj}] /\ pobj'[p] = x
        /\ \A q \in Pobjs : q # p => pobj'[q] = pobj[q]
    BY <1>1, <1>3, <2>2 DEF x
  <2>6. p \notin InUse /\ InUse' = InUse \cup {p}
    BY <2>1, <2>3, <2>5 DEF InUse
  <2>7. \A q \in InUse : pobj[q].name # n
    BY <1>3 DEF Named, InUse
  <2> QED BY <2>4, <2>5, <2>6, <2>7
<1> QED BY <1>2, <1>3 DEF tee_pobj_get

(* One thread enters or leaves the users, or the reservers, of p.          *)
LEMMA RefLemma ==
  ASSUME NEW S \in SUBSET Threads, NEW t \in Threads
  PROVE  /\ Cardinality(S) \in Nat
         /\ t \notin S => Cardinality(S \cup {t}) = Cardinality(S) + 1
         /\ t \in S => Cardinality(S \ {t}) = Cardinality(S) - 1
         /\ Cardinality(S) = 0 => S = {}
         /\ Cardinality({}) = 0 /\ Cardinality({t}) = 1
<1>1. IsFiniteSet(S)
  BY FS_Subset, SetsAssumption
<1>2. Cardinality(S) \in Nat /\ (Cardinality(S) = 0 => S = {}) /\ Cardinality({}) = 0
  BY <1>1, FS_CardinalityType, FS_EmptySet
<1>3. Cardinality({t}) = 1
  BY FS_Singleton
<1>4. t \notin S => Cardinality(S \cup {t}) = Cardinality(S) + 1
  BY <1>1, FS_AddElement
<1>5. t \in S => Cardinality(S \ {t}) = Cardinality(S) - 1
  BY <1>1, FS_RemoveElement
<1> QED BY <1>2, <1>3, <1>4, <1>5

LEMMA GetPobj ==
  ASSUME SInv, PobjInv, NEW t \in Threads, NEW n \in Names, NEW flags \in FlagSets,
         NEW l \in {"open", "create"}, obj_get(t, n, flags, l)
  PROVE  PobjInv'
<1>1. /\ pc[t] = "idle" /\ obj[t] = NoObj /\ UNCHANGED dst /\ pc' = [pc EXCEPT ![t] = l]
      /\ \E p \in Pobjs : /\ tee_pobj_get(n, flags, l = "create", p)
                          /\ obj' = [obj EXCEPT ![t] = [flags |-> flags, po |-> p, fh |-> NoHandle]]
  BY DEF obj_get, Idle, Goto
<1>2. PICK b \in BOOLEAN, p \in Pobjs :
        /\ tee_pobj_get(n, flags, b, p)
        /\ obj' = [obj EXCEPT ![t] = [flags |-> flags, po |-> p, fh |-> NoHandle]]
  <2>1. (l = "create") \in BOOLEAN
    OBVIOUS
  <2> QED BY <1>1, <2>1, Zenon
<1>3. CallInv /\ flags \in SUBSET Flags
  BY FlagsAssumption DEF SInv
<1>4. /\ pobj' \in [Pobjs -> Pobj \cup {NoPobj}] /\ p \in InUse' /\ InUse' = InUse \cup {p}
      /\ \A q \in Pobjs : q # p => pobj'[q] = pobj[q]
      /\ \/ /\ p \in InUse /\ tee_pobj_check_access(pobj[p].flags, flags)
            /\ pobj'[p].flags = pobj[p].flags /\ pobj'[p].name = pobj[p].name
            /\ pobj'[p].refcnt = pobj[p].refcnt + 1
         \/ /\ p \notin InUse /\ pobj'[p].flags = flags /\ pobj'[p].refcnt = 1
            /\ pobj'[p].name = n /\ \A q \in InUse : pobj[q].name # n
  BY <1>1, <1>2, <1>3, GetsLemma
<1>5. /\ obj'[t].flags = flags /\ obj'[t].po = p /\ obj'[t] # NoObj
      /\ \A u \in Threads : u # t => obj'[u] = obj[u] /\ pc'[u] = pc[u]
      /\ pc'[t] = l /\ pc'[t] \notin Renaming
  <2> DEFINE x == [flags |-> flags, po |-> p, fh |-> NoHandle]
  <2>1. x \in Object /\ x.flags = flags /\ x.po = p
    BY <1>3 DEF Object, Handles
  <2>2. x # NoObj
    BY <2>1, ObjectLemma
  <2>3. obj' = [obj EXCEPT ![t] = x]
    BY <1>2
  <2> HIDE DEF x
  <2> QED BY <1>1, <1>3, <2>1, <2>2, <2>3, PobjFacts DEF Renaming
<1>6. /\ Users(p)' = Users(p) \cup {t} /\ t \notin Users(p)
      /\ \A q \in Pobjs : Reservers(q)' = Reservers(q) /\ (q # p => Users(q)' = Users(q))
  BY <1>1, <1>5 DEF Users, Reservers
<1>7. p \notin InUse => Users(p) = {} /\ Reservers(p) = {}
  <2>1. \A u \in Threads : (obj[u] # NoObj => obj[u].po \in InUse) /\ (dst[u] # 0 => dst[u] \in InUse)
    BY DEF PobjInv, RenameOK
  <2>2. p # 0
    BY DEF Pobjs
  <2> QED BY <2>1, <2>2 DEF Users, Reservers
<1>8. ASSUME NEW u \in Threads PROVE RenameOK(u)'
  <2>1. RenameOK(u) /\ dst' = dst
    BY <1>1 DEF PobjInv
  <2>2. CASE u = t
    <3>1. dst[t] = 0
      BY <1>1, <2>1, <2>2 DEF RenameOK, Renaming
    <3> QED BY <1>5, <2>1, <2>2, <3>1 DEF RenameOK
  <2>3. CASE u # t
    <3>1. CASE dst[u] = 0
      BY <1>5, <2>1, <2>3, <3>1 DEF RenameOK
    <3>2. CASE dst[u] # 0
      <4>0. PICK d : d = dst[u]
        OBVIOUS
      <4>1. d \in InUse /\ pobj[d].flags = {"META"} /\ d \in Pobjs
            /\ Users(d) = {} /\ Reservers(d) = {u} /\ "META" \in obj[u].flags /\ pc[u] \in Renaming
        BY <2>1, <3>2, <4>0 DEF RenameOK, InUse
      <4>2. d # p
        BY <1>4, <4>1, NoMeta
      <4>3. pobj'[d] = pobj[d] /\ d \in InUse'
        BY <1>4, <4>1, <4>2
      <4>4. Users(d)' = Users(d) /\ Reservers(d)' = Reservers(d)
        BY <1>6, <4>1, <4>2
      <4>5. obj'[u] = obj[u] /\ pc'[u] = pc[u] /\ dst'[u] = d
        BY <1>5, <2>1, <2>3, <4>0
      <4>6. Users(d)' = {} /\ Reservers(d)' = {u} /\ d # 0
        BY <3>2, <4>0, <4>1, <4>4
      <4>7. Users(dst[u])' = {} /\ Reservers(dst[u])' = {u}
        BY <4>5, <4>6 DEF Users, Reservers
      <4> QED BY <4>1, <4>3, <4>5, <4>6, <4>7 DEF RenameOK
    <3> QED BY <3>1, <3>2
  <2> QED BY <2>2, <2>3
<1>9. ASSUME NEW u \in Threads, obj'[u] # NoObj
      PROVE  obj'[u].po \in InUse' /\ Fits(pobj'[obj'[u].po].flags, obj'[u].flags)
  <2>1. CASE u = t
    BY <1>4, <1>5, <2>1 DEF Fits
  <2>2. CASE u # t
    <3>1. obj'[u] = obj[u] /\ obj[u].po \in InUse /\ Fits(pobj[obj[u].po].flags, obj[u].flags)
      BY <1>5, <1>9, <2>2 DEF PobjInv
    <3>2. pobj'[obj[u].po].flags = pobj[obj[u].po].flags
      BY <1>4, <3>1 DEF InUse
    <3> QED BY <1>4, <3>1, <3>2
  <2> QED BY <2>1, <2>2
<1>10. ASSUME NEW u \in Threads, NEW v \in Threads,
              u # v, obj'[u] # NoObj, obj'[v] # NoObj, obj'[u].po = obj'[v].po
       PROVE  tee_pobj_check_access(obj'[u].flags, obj'[v].flags)
  <2>1. ASSUME NEW w \in Threads, w # t, obj'[w] # NoObj, obj'[w].po = p
        PROVE  /\ tee_pobj_check_access(obj'[w].flags, flags)
               /\ tee_pobj_check_access(flags, obj'[w].flags)
    <3>1. obj'[w] = obj[w] /\ w \in Users(p)
      BY <1>5, <2>1 DEF Users
    <3>2. p \in InUse
      BY <1>7, <3>1
    <3>3. Fits(pobj[p].flags, obj[w].flags)
      BY <2>1, <3>1 DEF PobjInv
    <3> QED BY <1>4, <3>1, <3>2, <3>3, AccessLemma
  <2>2. CASE u # t /\ v # t
    BY <1>5, <1>10, <2>2 DEF PobjInv
  <2> QED BY <1>5, <1>10, <2>1, <2>2
<1>11. ASSUME NEW q \in InUse'
       PROVE  /\ pobj'[q].refcnt > 0
              /\ pobj'[q].refcnt = Cardinality(Users(q)') + Cardinality(Reservers(q)')
  <2>1. CASE q # p
    <3>1. q \in InUse /\ q \in Pobjs /\ pobj'[q] = pobj[q]
      BY <1>4, <2>1 DEF InUse
    <3> QED BY <1>6, <2>1, <3>1 DEF PobjInv
  <2>2. CASE q = p
    <3>1. /\ Users(p) \in SUBSET Threads /\ Reservers(p) \in SUBSET Threads
          /\ Cardinality(Users(p)) \in Nat /\ Cardinality(Reservers(p)) \in Nat
      BY UsersLemma
    <3>2. Cardinality(Users(p)') = Cardinality(Users(p)) + 1 /\ Reservers(p)' = Reservers(p)
      BY <1>6, <3>1, RefLemma
    <3>3. CASE p \in InUse
      BY <1>4, <2>2, <3>1, <3>2, <3>3 DEF PobjInv
    <3>4. CASE p \notin InUse
      <4>1. Cardinality(Users(p)) = 0 /\ Cardinality(Reservers(p)) = 0
        BY <1>7, <3>4, RefLemma
      <4> QED BY <1>4, <2>2, <3>2, <3>4, <4>1
    <3> QED BY <3>3, <3>4
  <2> QED BY <2>1, <2>2
<1>12. ASSUME NEW q \in InUse', NEW r \in InUse', q # r, pobj'[q].name = pobj'[r].name
       PROVE  \E u \in Threads : pc'[u] = "unreserve" /\ {q, r} = {obj'[u].po, dst'[u]}
  <2>1. q \in InUse /\ r \in InUse /\ pobj[q].name = pobj[r].name
    BY <1>4, <1>12 DEF InUse
  <2>2. PICK u \in Threads : pc[u] = "unreserve" /\ {q, r} = {obj[u].po, dst[u]}
    BY <1>12, <2>1 DEF PobjInv
  <2>3. u # t
    BY <1>1, <2>2
  <2> QED BY <1>1, <1>5, <2>2, <2>3
<1>13. dst' = [u \in Threads |-> dst'[u]]
  BY <1>1 DEF PobjInv
<1> QED BY <1>4, <1>8, <1>9, <1>10, <1>11, <1>12, <1>13 DEF PobjInv

(* What tee_pobj_release does.                                             *)
LEMMA ReleaseLemma ==
  ASSUME PobjInv, NEW p \in InUse, tee_pobj_release(p)
  PROVE  /\ pobj' \in [Pobjs -> Pobj \cup {NoPobj}]
         /\ \A q \in Pobjs : q # p => pobj'[q] = pobj[q]
         /\ pobj[p].refcnt = 1 => InUse' = InUse \ {p}
         /\ pobj[p].refcnt # 1 => /\ InUse' = InUse
                                  /\ pobj'[p].flags = pobj[p].flags /\ pobj'[p].name = pobj[p].name
                                  /\ pobj'[p].refcnt = pobj[p].refcnt - 1
<1>1. pobj \in [Pobjs -> Pobj \cup {NoPobj}] /\ p \in Pobjs /\ pobj[p] \in Pobj /\ pobj[p].refcnt > 0
  BY DEF PobjInv, InUse
<1>2. CASE pobj[p].refcnt = 1
  <2>1. pobj' = [pobj EXCEPT ![p] = NoPobj]
    BY <1>1, <1>2 DEF tee_pobj_release
  <2> QED BY <1>1, <1>2, <2>1 DEF InUse
<1>3. CASE pobj[p].refcnt # 1
  <2> DEFINE x == [pobj[p] EXCEPT !.refcnt = @ - 1]
  <2>1. pobj' = [pobj EXCEPT ![p] = x]
    BY <1>1, <1>3 DEF tee_pobj_release
  <2>2. x \in Pobj /\ x.flags = pobj[p].flags /\ x.name = pobj[p].name
        /\ x.refcnt = pobj[p].refcnt - 1
    BY <1>1, <1>3 DEF Pobj
  <2>3. x # NoPobj
    BY <2>2, NoObjAssumption
  <2> HIDE DEF x
  <2>4. /\ pobj' \in [Pobjs -> Pobj \cup {NoPobj}] /\ pobj'[p] = x
        /\ \A q \in Pobjs : q # p => pobj'[q] = pobj[q]
    BY <1>1, <2>1, <2>2
  <2>5. InUse' = InUse
    BY <1>1, <2>3, <2>4 DEF InUse
  <2> QED BY <1>3, <2>2, <2>4, <2>5
<1> QED BY <1>2, <1>3

LEMMA ReleasePobj ==
  ASSUME SInv, PobjInv, NEW t \in Threads, obj_release(t)
  PROVE  PobjInv'
<1>1. /\ pc[t] = "release" /\ obj' = [obj EXCEPT ![t] = NoObj]
      /\ pc' = [pc EXCEPT ![t] = "idle"] /\ UNCHANGED dst
      /\ tee_pobj_release(obj[t].po)
  BY DEF obj_release, Goto
<1>2. obj[t] # NoObj /\ CallInv
  BY <1>1, ThreadFacts DEF ThreadOK, SInv
<1>3. PICK p : p = obj[t].po
  OBVIOUS
<1>4. p \in InUse /\ p \in Pobjs
  BY <1>2, <1>3 DEF PobjInv, InUse
<1>5. /\ pobj' \in [Pobjs -> Pobj \cup {NoPobj}]
      /\ \A q \in Pobjs : q # p => pobj'[q] = pobj[q]
      /\ pobj[p].refcnt = 1 => InUse' = InUse \ {p}
      /\ pobj[p].refcnt # 1 => /\ InUse' = InUse
                               /\ pobj'[p].flags = pobj[p].flags /\ pobj'[p].name = pobj[p].name
                               /\ pobj'[p].refcnt = pobj[p].refcnt - 1
  BY <1>1, <1>3, <1>4, ReleaseLemma
<1>6. /\ obj'[t] = NoObj /\ \A u \in Threads : u # t => obj'[u] = obj[u] /\ pc'[u] = pc[u]
      /\ pc'[t] = "idle"
  BY <1>1, <1>2, PobjFacts
<1>7. /\ Users(p)' = Users(p) \ {t} /\ t \in Users(p)
      /\ \A q \in Pobjs : Reservers(q)' = Reservers(q) /\ (q # p => Users(q)' = Users(q))
  BY <1>1, <1>2, <1>3, <1>6 DEF Users, Reservers
<1>8. /\ pobj[p].refcnt = Cardinality(Users(p)) + Cardinality(Reservers(p)) /\ pobj[p].refcnt > 0
      /\ Users(p) \in SUBSET Threads /\ Reservers(p) \in SUBSET Threads
      /\ Cardinality(Users(p)) \in Nat /\ Cardinality(Reservers(p)) \in Nat
  BY <1>4, UsersLemma DEF PobjInv
<1>9. Cardinality(Users(p)') = Cardinality(Users(p)) - 1 /\ Cardinality(Users(p)') \in Nat
  <2>1. Cardinality(Users(p) \ {t}) = Cardinality(Users(p)) - 1
    BY <1>7, <1>8, RefLemma
  <2>2. Users(p) \ {t} \in SUBSET Threads
    BY <1>8
  <2>3. Cardinality(Users(p) \ {t}) \in Nat
    BY <2>2, RefLemma
  <2> QED BY <1>7, <2>1, <2>3
<1>10. ASSUME pobj[p].refcnt = 1 PROVE Users(p)' = {} /\ Reservers(p) = {}
  <2>1. Cardinality(Users(p)') = 0 /\ Cardinality(Reservers(p)) = 0
    BY <1>8, <1>9, <1>10
  <2>2. Users(p)' \in SUBSET Threads
    BY <1>7, <1>8
  <2> QED BY <1>8, <2>1, <2>2, RefLemma
<1>11. \A u \in Threads : (obj'[u] # NoObj => obj'[u].po \in InUse') /\ (dst[u] # 0 => dst[u] \in InUse')
  <2>1. ASSUME NEW u \in Threads, obj'[u] # NoObj PROVE obj'[u].po \in InUse'
    <3>1. u # t /\ obj'[u] = obj[u] /\ obj[u].po \in InUse
      BY <1>6, <2>1 DEF PobjInv
    <3>2. obj[u].po = p => u \in Users(p)'
      BY <2>1, <3>1 DEF Users
    <3> QED BY <1>5, <1>10, <3>1, <3>2
  <2>2. ASSUME NEW u \in Threads, dst[u] # 0 PROVE dst[u] \in InUse'
    <3>1. dst[u] \in InUse
      BY <2>2 DEF PobjInv, RenameOK
    <3>2. dst[u] = p => u \in Reservers(p)
      BY DEF Reservers
    <3> QED BY <1>5, <1>10, <3>1, <3>2
  <2> QED BY <2>1, <2>2
<1>12. \A q \in InUse' : /\ q \in InUse /\ q \in Pobjs
                         /\ pobj'[q].flags = pobj[q].flags /\ pobj'[q].name = pobj[q].name
  BY <1>5 DEF InUse
<1>13. ASSUME NEW u \in Threads PROVE RenameOK(u)'
  <2>1. RenameOK(u) /\ dst' = dst
    BY <1>1 DEF PobjInv
  <2>2. CASE dst[u] = 0
    BY <1>1, <1>6, <2>1, <2>2 DEF RenameOK, Renaming
  <2>3. CASE dst[u] # 0
    <3>0. PICK d : d = dst[u]
      OBVIOUS
    <3>1. d \in InUse /\ pobj[d].flags = {"META"} /\ d \in Pobjs /\ d \in InUse'
          /\ Users(d) = {} /\ Reservers(d) = {u} /\ "META" \in obj[u].flags /\ pc[u] \in Renaming
      BY <1>11, <2>1, <2>3, <3>0 DEF RenameOK, InUse
    <3>2. u # t /\ d # p
      BY <1>1, <1>7, <3>1 DEF Renaming
    <3>3. Users(d)' = {} /\ Reservers(d)' = {u} /\ pobj'[d].flags = {"META"}
      BY <1>7, <1>12, <3>1, <3>2
    <3>4. obj'[u] = obj[u] /\ pc'[u] = pc[u] /\ dst'[u] = d /\ d # 0
      BY <1>6, <2>1, <2>3, <3>0, <3>2
    <3>5. Users(dst[u])' = {} /\ Reservers(dst[u])' = {u}
      BY <3>3, <3>4 DEF Users, Reservers
    <3> QED BY <3>1, <3>3, <3>4, <3>5 DEF RenameOK
  <2> QED BY <2>2, <2>3
<1>14. ASSUME NEW u \in Threads, obj'[u] # NoObj
       PROVE  obj'[u].po \in InUse' /\ Fits(pobj'[obj'[u].po].flags, obj'[u].flags)
  <2>1. obj'[u] = obj[u] /\ obj'[u].po \in InUse' /\ Fits(pobj[obj[u].po].flags, obj[u].flags)
    BY <1>6, <1>11, <1>14 DEF PobjInv
  <2> QED BY <1>12, <2>1
<1>15. ASSUME NEW u \in Threads, NEW v \in Threads,
              u # v, obj'[u] # NoObj, obj'[v] # NoObj, obj'[u].po = obj'[v].po
       PROVE  tee_pobj_check_access(obj'[u].flags, obj'[v].flags)
  BY <1>6, <1>15 DEF PobjInv
<1>16. ASSUME NEW q \in InUse'
       PROVE  /\ pobj'[q].refcnt > 0
              /\ pobj'[q].refcnt = Cardinality(Users(q)') + Cardinality(Reservers(q)')
  <2>1. CASE q # p
    <3>1. q \in InUse /\ q \in Pobjs /\ pobj'[q] = pobj[q]
      BY <1>5, <1>12, <2>1
    <3> QED BY <1>7, <2>1, <3>1 DEF PobjInv
  <2>2. CASE q = p
    <3>1. pobj[p].refcnt # 1
      BY <1>5, <2>2
    <3>2. pobj'[p].refcnt = pobj[p].refcnt - 1 /\ Reservers(p)' = Reservers(p)
      BY <1>4, <1>5, <1>7, <3>1
    <3> QED BY <1>8, <1>9, <2>2, <3>1, <3>2
  <2> QED BY <2>1, <2>2
<1>17. ASSUME NEW q \in InUse', NEW r \in InUse', q # r, pobj'[q].name = pobj'[r].name
       PROVE  \E u \in Threads : pc'[u] = "unreserve" /\ {q, r} = {obj'[u].po, dst'[u]}
  <2>1. q \in InUse /\ r \in InUse /\ pobj[q].name = pobj[r].name
    BY <1>12, <1>17
  <2>2. PICK u \in Threads : pc[u] = "unreserve" /\ {q, r} = {obj[u].po, dst[u]}
    BY <1>17, <2>1 DEF PobjInv
  <2>3. u # t
    BY <1>1, <2>2
  <2> QED BY <1>1, <1>6, <2>2, <2>3
<1>18. dst' = [u \in Threads |-> dst'[u]]
  BY <1>1 DEF PobjInv
<1> QED BY <1>5, <1>13, <1>14, <1>15, <1>16, <1>17, <1>18 DEF PobjInv

LEMMA ReserveLemma ==
  ASSUME CallInv, PobjInv, NEW t \in Threads, dst[t] = 0,
         NEW n \in Names, NEW flags \in SUBSET Flags, "META" \in flags,
         NEW b \in BOOLEAN, NEW p \in Pobjs, tee_pobj_get(n, flags, b, p)
  PROVE  /\ pobj' \in [Pobjs -> Pobj \cup {NoPobj}] /\ p \in InUse' /\ InUse' = InUse \cup {p}
         /\ \A q \in Pobjs : q # p => pobj'[q] = pobj[q]
         /\ p \notin InUse /\ pobj'[p].flags = flags /\ pobj'[p].refcnt = 1
         /\ pobj'[p].name = n /\ \A q \in InUse : pobj[q].name # n
<1>1. ~tee_pobj_check_access(pobj[p].flags, flags)
  BY NoMeta
<1>2. obj[t] = NoObj \/ dst[t] = 0
  OBVIOUS
<1>3. /\ pobj' \in [Pobjs -> Pobj \cup {NoPobj}] /\ p \in InUse' /\ InUse' = InUse \cup {p}
      /\ \A q \in Pobjs : q # p => pobj'[q] = pobj[q]
      /\ \/ /\ p \in InUse /\ tee_pobj_check_access(pobj[p].flags, flags)
            /\ pobj'[p].flags = pobj[p].flags /\ pobj'[p].name = pobj[p].name
            /\ pobj'[p].refcnt = pobj[p].refcnt + 1
         \/ /\ p \notin InUse /\ pobj'[p].flags = flags /\ pobj'[p].refcnt = 1
            /\ pobj'[p].name = n /\ \A q \in InUse : pobj[q].name # n
  BY <1>2, GetsLemma
<1> QED BY <1>1, <1>3

(* The new name of a rename is reserved: never an entry somebody has.      *)
LEMMA ReservePobj ==
  ASSUME SInv, PobjInv, NEW t \in Threads, NEW m \in Names, syscall_storage_obj_rename(t, m)
  PROVE  PobjInv'
<1>1. /\ Use(t, "META") /\ UNCHANGED obj /\ pc' = [pc EXCEPT ![t] = "rename"]
      /\ \E p \in Pobjs : tee_pobj_get(m, {"META"}, FALSE, p) /\ dst' = [dst EXCEPT ![t] = p]
  BY DEF syscall_storage_obj_rename, Goto
<1>2. PICK F \in {{"META"}}, b \in BOOLEAN, p \in Pobjs :
        tee_pobj_get(m, F, b, p) /\ dst' = [dst EXCEPT ![t] = p]
  BY <1>1, Zenon
<1>3. CallInv /\ F \in SUBSET Flags /\ F = {"META"} /\ obj[t] # NoObj
      /\ "META" \in obj[t].flags /\ pc[t] = "idle"
  BY <1>1 DEF SInv, Flags, Use, Idle
<1>4. dst[t] = 0 /\ p # 0
  BY <1>3, PobjFacts DEF RenameOK, Renaming, Pobjs
<1>5. /\ pobj' \in [Pobjs -> Pobj \cup {NoPobj}] /\ p \in InUse' /\ InUse' = InUse \cup {p}
      /\ \A q \in Pobjs : q # p => pobj'[q] = pobj[q]
      /\ p \notin InUse /\ pobj'[p].flags = {"META"} /\ pobj'[p].refcnt = 1
      /\ pobj'[p].name = m /\ \A q \in InUse : pobj[q].name # m
  <2>1. CallInv /\ F \in SUBSET Flags /\ "META" \in F /\ tee_pobj_get(m, F, b, p) /\ dst[t] = 0
    BY <1>2, <1>3, <1>4
  <2> QED BY <1>3, <2>1, ReserveLemma
<1>6. /\ dst' = [u \in Threads |-> dst'[u]] /\ dst'[t] = p
      /\ \A u \in Threads : u # t => dst'[u] = dst[u] /\ pc'[u] = pc[u]
      /\ pc'[t] = "rename"
  BY <1>1, <1>2, <1>3, PobjFacts
<1>7. Users(p) = {} /\ Reservers(p) = {}
  <2>1. \A u \in Threads : (obj[u] # NoObj => obj[u].po \in InUse) /\ (dst[u] # 0 => dst[u] \in InUse)
    BY DEF PobjInv, RenameOK
  <2> QED BY <1>4, <1>5, <2>1 DEF Users, Reservers
<1>8. /\ Users(p)' = {} /\ Reservers(p)' = {t}
      /\ \A q \in Pobjs : q # p => Users(q)' = Users(q) /\ Reservers(q)' = Reservers(q)
  <2>1. \A q : Users(q)' = Users(q)
    BY <1>1 DEF Users
  <2>2. Reservers(p)' = {t}
    BY <1>6, <1>7 DEF Reservers
  <2>3. ASSUME NEW q \in Pobjs, q # p PROVE Reservers(q)' = Reservers(q)
    <3>1. q # 0
      BY DEF Pobjs
    <3> QED BY <1>4, <1>6, <2>3, <3>1 DEF Reservers
  <2> QED BY <1>7, <2>1, <2>2, <2>3
<1>9. ASSUME NEW u \in Threads PROVE RenameOK(u)'
  <2>1. RenameOK(u) /\ obj' = obj
    BY <1>1 DEF PobjInv
  <2>2. CASE u = t
    <3>1. Users(dst[t])' = {} /\ Reservers(dst[t])' = {t}
      BY <1>6, <1>8 DEF Users, Reservers
    <3> QED BY <1>3, <1>4, <1>5, <1>6, <2>1, <2>2, <3>1 DEF RenameOK, Renaming
  <2>3. CASE u # t /\ dst[u] = 0
    BY <1>6, <2>1, <2>3 DEF RenameOK
  <2>4. CASE u # t /\ dst[u] # 0
    <3>0. PICK d : d = dst[u]
      OBVIOUS
    <3>1. d \in InUse /\ pobj[d].flags = {"META"} /\ d \in Pobjs /\ d # p
          /\ Users(d) = {} /\ Reservers(d) = {u} /\ "META" \in obj[u].flags /\ pc[u] \in Renaming
      BY <1>5, <2>1, <2>4, <3>0 DEF RenameOK, InUse
    <3>2. Users(d)' = {} /\ Reservers(d)' = {u} /\ pobj'[d].flags = {"META"} /\ d \in InUse'
      BY <1>5, <1>8, <3>1
    <3>3. obj'[u] = obj[u] /\ pc'[u] = pc[u] /\ dst'[u] = d /\ d # 0
      BY <1>6, <2>1, <2>4, <3>0
    <3>4. Users(dst[u])' = {} /\ Reservers(dst[u])' = {u}
      BY <3>2, <3>3 DEF Users, Reservers
    <3> QED BY <3>1, <3>2, <3>3, <3>4 DEF RenameOK
  <2> QED BY <2>2, <2>3, <2>4
<1>10. ASSUME NEW u \in Threads, obj'[u] # NoObj
       PROVE  obj'[u].po \in InUse' /\ Fits(pobj'[obj'[u].po].flags, obj'[u].flags)
  <2>1. obj'[u] = obj[u] /\ obj[u].po \in InUse /\ Fits(pobj[obj[u].po].flags, obj[u].flags)
    BY <1>1, <1>10 DEF PobjInv
  <2>2. pobj'[obj[u].po] = pobj[obj[u].po]
    BY <1>5, <2>1 DEF InUse
  <2> QED BY <1>5, <2>1, <2>2
<1>11. ASSUME NEW u \in Threads, NEW v \in Threads,
              u # v, obj'[u] # NoObj, obj'[v] # NoObj, obj'[u].po = obj'[v].po
       PROVE  tee_pobj_check_access(obj'[u].flags, obj'[v].flags)
  BY <1>1, <1>11 DEF PobjInv
<1>12. ASSUME NEW q \in InUse'
       PROVE  /\ pobj'[q].refcnt > 0
              /\ pobj'[q].refcnt = Cardinality(Users(q)') + Cardinality(Reservers(q)')
  <2>1. CASE q # p
    <3>1. q \in InUse /\ q \in Pobjs /\ pobj'[q] = pobj[q]
      BY <1>5, <2>1 DEF InUse
    <3> QED BY <1>8, <2>1, <3>1 DEF PobjInv
  <2>2. CASE q = p
    <3>1. Cardinality({}) = 0 /\ Cardinality({t}) = 1
      BY RefLemma
    <3>2. Cardinality(Users(p)') = 0 /\ Cardinality(Reservers(p)') = 1
      BY <1>8, <3>1
    <3> QED BY <1>5, <2>2, <3>2
  <2> QED BY <2>1, <2>2
<1>13. ASSUME NEW q \in InUse', NEW r \in InUse', q # r, pobj'[q].name = pobj'[r].name
       PROVE  \E u \in Threads : pc'[u] = "unreserve" /\ {q, r} = {obj'[u].po, dst'[u]}
  <2>1. q \in InUse /\ r \in InUse /\ pobj[q].name = pobj[r].name
    BY <1>5, <1>13 DEF InUse
  <2>2. PICK u \in Threads : pc[u] = "unreserve" /\ {q, r} = {obj[u].po, dst[u]}
    BY <1>13, <2>1 DEF PobjInv
  <2>3. u # t
    BY <1>3, <2>2
  <2> QED BY <1>1, <1>6, <2>2, <2>3
<1>14. pobj' \in [Pobjs -> Pobj \cup {NoPobj}] /\ dst' = [u \in Threads |-> dst'[u]]
  BY <1>5, <1>6
<1>15. /\ \A u \in Threads : RenameOK(u)'
       /\ \A u \in Threads : obj'[u] # NoObj =>
            obj'[u].po \in InUse' /\ Fits(pobj'[obj'[u].po].flags, obj'[u].flags)
  BY <1>9, <1>10
<1>16. /\ \A q \in InUse' : /\ pobj'[q].refcnt > 0
                            /\ pobj'[q].refcnt = Cardinality(Users(q)') + Cardinality(Reservers(q)')
       /\ \A q, r \in InUse' : q # r /\ pobj'[q].name = pobj'[r].name =>
            \E u \in Threads : pc'[u] = "unreserve" /\ {q, r} = {obj'[u].po, dst'[u]}
  BY <1>12, <1>13
<1> QED BY <1>11, <1>14, <1>15, <1>16 DEF PobjInv

(* The entry takes its new name, which the reservation has too.            *)
LEMMA RenamePobj ==
  ASSUME SInv, PobjInv, NEW t \in Threads, rename_pobj(t)
  PROVE  PobjInv'
<1>1. /\ pc[t] = "renamed" /\ UNCHANGED <<obj, dst>> /\ pc' = [pc EXCEPT ![t] = "unreserve"]
      /\ tee_pobj_rename(obj[t].po, pobj[dst[t]].name)
  BY DEF rename_pobj, Goto
<1>2. CallInv /\ obj[t] # NoObj /\ dst[t] # 0 /\ RenameOK(t)
  <2>1. ThreadOK(t) /\ RenameOK(t)
    BY PobjFacts DEF SInv
  <2> QED BY <1>1, <2>1 DEF ThreadOK, RenameOK, Renaming, SInv
<1>3. PICK p, d : p = obj[t].po /\ d = dst[t]
  OBVIOUS
<1>4. p \in InUse /\ d \in InUse /\ p \in Pobjs /\ d \in Pobjs
      /\ Users(d) = {} /\ Reservers(d) = {t} /\ t \in Users(p)
  BY <1>2, <1>3 DEF PobjInv, InUse, RenameOK, Users
<1>5. p # d
  BY <1>4
<1>6. CASE pobj[p].refcnt # 1
  <2>1. UNCHANGED pobj
    BY <1>1, <1>3, <1>6 DEF tee_pobj_rename
  <2>2. Keeps
    BY <1>1, <1>2, <2>1, ThreadKeeps DEF Renaming
  <2> QED BY <1>2, <2>2, KeepsStep
<1>7. CASE pobj[p].refcnt = 1
  <2> DEFINE x == [pobj[p] EXCEPT !.name = pobj[d].name]
  <2>1. pobj' = [pobj EXCEPT ![p] = x]
    BY <1>1, <1>3, <1>7 DEF tee_pobj_rename
  <2>2. pobj \in [Pobjs -> Pobj \cup {NoPobj}] /\ pobj[p] \in Pobj /\ pobj[d] \in Pobj
    BY <1>4 DEF PobjInv, InUse
  <2>3. x \in Pobj /\ x.flags = pobj[p].flags /\ x.name = pobj[d].name
        /\ x.refcnt = pobj[p].refcnt
    BY <2>2 DEF Pobj
  <2>4. x # NoPobj
    BY <2>3, NoObjAssumption
  <2> HIDE DEF x
  <2>5. /\ pobj' \in [Pobjs -> Pobj \cup {NoPobj}] /\ pobj'[p] = x
        /\ \A q \in Pobjs : q # p => pobj'[q] = pobj[q]
    BY <1>4, <2>1, <2>2, <2>3
  <2>6. InUse' = InUse
    BY <1>4, <2>4, <2>5 DEF InUse
  <2>7. \A q \in InUse : pobj'[q].flags = pobj[q].flags /\ pobj'[q].refcnt = pobj[q].refcnt
                         /\ q \in Pobjs
    BY <2>3, <2>5 DEF InUse
  <2>8. \A q : Users(q)' = Users(q) /\ Reservers(q)' = Reservers(q)
    BY <1>1 DEF Users, Reservers
  <2>9. pc'[t] = "unreserve" /\ \A u \in Threads : u # t => pc'[u] = pc[u]
    BY <1>1, <1>2, PobjFacts
  <2>10. ASSUME NEW u \in Threads PROVE RenameOK(u)'
    <3>1. RenameOK(u) /\ dst' = dst /\ obj' = obj
      BY <1>1 DEF PobjInv
    <3>2. pc'[u] \in Renaming <=> pc[u] \in Renaming
      BY <1>1, <2>9 DEF Renaming
    <3>3. dst[u] # 0 => pobj'[dst[u]].flags = pobj[dst[u]].flags
      BY <2>7, <3>1 DEF RenameOK
    <3> QED BY <2>6, <2>8, <3>1, <3>2, <3>3 DEF RenameOK
  <2>11. ASSUME NEW u \in Threads, obj'[u] # NoObj
         PROVE  obj'[u].po \in InUse' /\ Fits(pobj'[obj'[u].po].flags, obj'[u].flags)
    <3>1. obj' = obj /\ obj[u].po \in InUse /\ Fits(pobj[obj[u].po].flags, obj[u].flags)
      BY <1>1, <2>11 DEF PobjInv
    <3> QED BY <2>6, <2>7, <3>1
  <2>12. ASSUME NEW u \in Threads, NEW v \in Threads,
                u # v, obj'[u] # NoObj, obj'[v] # NoObj, obj'[u].po = obj'[v].po
         PROVE  tee_pobj_check_access(obj'[u].flags, obj'[v].flags)
    BY <1>1, <2>12 DEF PobjInv
  <2>13. ASSUME NEW q \in InUse'
         PROVE  /\ pobj'[q].refcnt > 0
                /\ pobj'[q].refcnt = Cardinality(Users(q)') + Cardinality(Reservers(q)')
    BY <2>6, <2>7, <2>8 DEF PobjInv
  <2>14. ASSUME NEW q \in InUse', NEW r \in InUse', q # r, pobj'[q].name = pobj'[r].name
         PROVE  \E u \in Threads : pc'[u] = "unreserve" /\ {q, r} = {obj'[u].po, dst'[u]}
    (* Nobody else has the reserved name.                                  *)
    <3>1. ASSUME NEW s \in InUse, s # d, pobj[s].name = pobj[d].name PROVE FALSE
      <4>1. PICK u \in Threads : pc[u] = "unreserve" /\ {s, d} = {obj[u].po, dst[u]}
        BY <1>4, <3>1 DEF PobjInv
      <4>2. obj[u] # NoObj
        BY <4>1, ThreadFacts DEF ThreadOK
      <4>3. d # obj[u].po
        BY <1>4, <4>2 DEF Users
      <4>4. d # dst[u]
        BY <1>1, <1>4, <4>1 DEF Reservers
      <4> QED BY <4>1, <4>3, <4>4
    <3>2. q \in InUse /\ r \in InUse
      BY <2>6
    <3>3. CASE q # p /\ r # p
      <4>1. pobj[q].name = pobj[r].name
        BY <2>5, <2>7, <2>14, <3>2, <3>3
      <4>2. PICK u \in Threads : pc[u] = "unreserve" /\ {q, r} = {obj[u].po, dst[u]}
        BY <2>14, <3>2, <4>1 DEF PobjInv
      <4>3. u # t
        BY <1>1, <4>2
      <4> QED BY <1>1, <2>9, <4>2, <4>3
    <3>4. CASE q = p
      <4>1. r = d
        BY <2>3, <2>5, <2>7, <2>14, <3>1, <3>2, <3>4
      <4> QED BY <1>1, <1>3, <2>9, <3>4, <4>1
    <3>5. CASE r = p
      <4>1. q = d
        BY <2>3, <2>5, <2>7, <2>14, <3>1, <3>2, <3>5
      <4> QED BY <1>1, <1>3, <2>9, <3>5, <4>1
    <3> QED BY <3>3, <3>4, <3>5
  <2>15. dst' = [u \in Threads |-> dst'[u]]
    BY <1>1 DEF PobjInv
  <2>16. pobj' \in [Pobjs -> Pobj \cup {NoPobj}]
    BY <2>5
  <2> QED BY <2>10, <2>11, <2>12, <2>13, <2>14, <2>15, <2>16 DEF PobjInv
<1> QED BY <1>6, <1>7

LEMMA UnreservePobj ==
  ASSUME SInv, PobjInv, NEW t \in Threads, rename_unreserve(t)
  PROVE  PobjInv'
<1>1. /\ pc[t] \in {"unreserve", "rename_failed"} /\ pc' = [pc EXCEPT ![t] = "idle"]
      /\ tee_pobj_release(dst[t]) /\ dst' = [dst EXCEPT ![t] = 0]
      /\ UNCHANGED obj \/ Spoil(t)
  BY DEF rename_unreserve, Goto
<1>2. CallInv /\ obj[t] # NoObj /\ dst[t] # 0 /\ RenameOK(t) /\ obj[t].fh \in FileHandle
  <2>1. RenameOK(t) /\ CallInv
    BY PobjFacts DEF SInv
  <2>2. pc[t] \in Renaming
    BY <1>1 DEF Renaming
  <2> QED BY <2>1, <2>2, RenamingLemma DEF RenameOK
<1>3. PICK p : p = dst[t]
  OBVIOUS
<1>4. p \in InUse /\ p \in Pobjs /\ Users(p) = {} /\ Reservers(p) = {t}
  BY <1>2, <1>3 DEF RenameOK, InUse
<1>5. pobj[p].refcnt = 1
  <2>1. Cardinality({}) = 0 /\ Cardinality({t}) = 1
    BY RefLemma
  <2>2. pobj[p].refcnt = Cardinality(Users(p)) + Cardinality(Reservers(p))
    BY <1>4 DEF PobjInv
  <2> QED BY <1>4, <2>1, <2>2
<1>6. /\ pobj' \in [Pobjs -> Pobj \cup {NoPobj}] /\ InUse' = InUse \ {p}
      /\ \A q \in Pobjs : q # p => pobj'[q] = pobj[q]
  BY <1>1, <1>3, <1>4, <1>5, ReleaseLemma
<1>7. /\ \A u \in Threads :
           /\ obj'[u] = NoObj <=> obj[u] = NoObj
           /\ obj[u] # NoObj => obj'[u].flags = obj[u].flags /\ obj'[u].po = obj[u].po
  <2>1. CASE UNCHANGED obj
    BY <2>1
  <2>2. CASE Spoil(t)
    <3>1. PICK f \in Handles : obj' = [obj EXCEPT ![t] = [obj[t] EXCEPT !.fh = f]]
      BY <1>2, <2>2, HandleKept
    <3> DEFINE x == [obj[t] EXCEPT !.fh = f]
    <3>2. obj[t] \in Object
      BY <1>2, PobjFacts
    <3>3. x \in Object /\ x.flags = obj[t].flags /\ x.po = obj[t].po
      BY <3>2, ObjectLemma DEF Object
    <3>4. x # NoObj
      BY <3>3, ObjectLemma
    <3> HIDE DEF x
    <3>5. obj'[t] = x /\ \A u \in Threads : u # t => obj'[u] = obj[u]
      BY <1>2, <3>1, PobjFacts DEF x
    <3> QED BY <1>2, <3>3, <3>4, <3>5
  <2> QED BY <1>1, <2>1, <2>2
<1>8. /\ dst' = [u \in Threads |-> dst'[u]] /\ dst'[t] = 0
      /\ \A u \in Threads : u # t => dst'[u] = dst[u] /\ pc'[u] = pc[u]
      /\ pc'[t] = "idle"
  BY <1>1, <1>2, PobjFacts
<1>9. \A q \in Pobjs : /\ Users(q)' = Users(q)
                       /\ q # p => Reservers(q)' = Reservers(q)
  <2>1. \A q \in Pobjs : Users(q)' = Users(q)
    BY <1>7 DEF Users
  <2>2. ASSUME NEW q \in Pobjs, q # p PROVE Reservers(q)' = Reservers(q)
    <3>1. q # 0
      BY DEF Pobjs
    <3> QED BY <1>3, <1>8, <2>2, <3>1 DEF Reservers
  <2> QED BY <2>1, <2>2
<1>10. \A u \in Threads : obj[u] # NoObj => obj[u].po # p
  BY <1>4 DEF Users
<1>11. ASSUME NEW u \in Threads PROVE RenameOK(u)'
  <2>1. RenameOK(u)
    BY DEF PobjInv
  <2>2. CASE u = t
    BY <1>8, <2>2 DEF RenameOK, Renaming
  <2>3. CASE u # t /\ dst[u] = 0
    BY <1>8, <2>1, <2>3 DEF RenameOK
  <2>4. CASE u # t /\ dst[u] # 0
    <3>0. PICK d : d = dst[u]
      OBVIOUS
    <3>1. d \in InUse /\ pobj[d].flags = {"META"} /\ d \in Pobjs
          /\ Users(d) = {} /\ Reservers(d) = {u} /\ "META" \in obj[u].flags /\ pc[u] \in Renaming
      BY <2>1, <2>4, <3>0 DEF RenameOK, InUse
    <3>2. d # p
      BY <1>4, <2>4, <3>1
    <3>3. Users(d)' = {} /\ Reservers(d)' = {u} /\ pobj'[d].flags = {"META"} /\ d \in InUse'
      BY <1>6, <1>9, <3>1, <3>2
    <3>4. obj[u] # NoObj
      BY <3>1, ThreadFacts DEF ThreadOK, Renaming
    <3>5. obj'[u].flags = obj[u].flags /\ pc'[u] = pc[u] /\ dst'[u] = d /\ d # 0
      BY <1>7, <1>8, <2>4, <3>0, <3>4
    <3>6. Users(dst[u])' = {} /\ Reservers(dst[u])' = {u}
      BY <3>3, <3>5 DEF Users, Reservers
    <3> QED BY <3>1, <3>3, <3>5, <3>6 DEF RenameOK
  <2> QED BY <2>2, <2>3, <2>4
<1>12. ASSUME NEW u \in Threads, obj'[u] # NoObj
       PROVE  obj'[u].po \in InUse' /\ Fits(pobj'[obj'[u].po].flags, obj'[u].flags)
  <2>1. obj'[u].po = obj[u].po /\ obj'[u].flags = obj[u].flags /\ obj[u] # NoObj
    BY <1>7, <1>12
  <2>2. obj[u].po \in InUse /\ Fits(pobj[obj[u].po].flags, obj[u].flags) /\ obj[u].po # p
    BY <1>10, <2>1 DEF PobjInv
  <2>3. pobj'[obj[u].po] = pobj[obj[u].po]
    BY <1>6, <2>2 DEF InUse
  <2> QED BY <1>6, <2>1, <2>2, <2>3
<1>13. ASSUME NEW u \in Threads, NEW v \in Threads,
              u # v, obj'[u] # NoObj, obj'[v] # NoObj, obj'[u].po = obj'[v].po
       PROVE  tee_pobj_check_access(obj'[u].flags, obj'[v].flags)
  <2>1. obj'[u].po = obj[u].po /\ obj'[u].flags = obj[u].flags /\ obj[u] # NoObj
        /\ obj'[v].po = obj[v].po /\ obj'[v].flags = obj[v].flags /\ obj[v] # NoObj
    BY <1>7, <1>13
  <2> QED BY <1>13, <2>1 DEF PobjInv
<1>14. ASSUME NEW q \in InUse'
       PROVE  /\ pobj'[q].refcnt > 0
              /\ pobj'[q].refcnt = Cardinality(Users(q)') + Cardinality(Reservers(q)')
  <2>1. q \in InUse /\ q \in Pobjs /\ pobj'[q] = pobj[q] /\ q # p
    BY <1>6 DEF InUse
  <2> QED BY <1>9, <2>1 DEF PobjInv
<1>15. ASSUME NEW q \in InUse', NEW r \in InUse', q # r, pobj'[q].name = pobj'[r].name
       PROVE  \E u \in Threads : pc'[u] = "unreserve" /\ {q, r} = {obj'[u].po, dst'[u]}
  <2>1. q \in InUse /\ r \in InUse /\ pobj[q].name = pobj[r].name /\ q # p /\ r # p
    BY <1>6, <1>15 DEF InUse
  <2>2. PICK u \in Threads : pc[u] = "unreserve" /\ {q, r} = {obj[u].po, dst[u]}
    BY <1>15, <2>1 DEF PobjInv
  <2>3. u # t
    BY <1>3, <2>1, <2>2
  <2>4. obj[u] # NoObj
    BY <2>2, ThreadFacts DEF ThreadOK
  <2> QED BY <1>7, <1>8, <2>2, <2>3, <2>4
<1>16. dst' = [u \in Threads |-> dst'[u]] /\ pobj' \in [Pobjs -> Pobj \cup {NoPobj}]
  BY <1>6, <1>8
<1>17. /\ \A u \in Threads : RenameOK(u)'
       /\ \A u \in Threads : obj'[u] # NoObj =>
            obj'[u].po \in InUse' /\ Fits(pobj'[obj'[u].po].flags, obj'[u].flags)
  BY <1>11, <1>12
<1>18. /\ \A q \in InUse' : /\ pobj'[q].refcnt > 0
                            /\ pobj'[q].refcnt = Cardinality(Users(q)') + Cardinality(Reservers(q)')
       /\ \A q, r \in InUse' : q # r /\ pobj'[q].name = pobj'[r].name =>
            \E u \in Threads : pc'[u] = "unreserve" /\ {q, r} = {obj'[u].po, dst'[u]}
  BY <1>14, <1>15
<1> QED BY <1>13, <1>16, <1>17, <1>18 DEF PobjInv

-----------------------------------------------------------------------------
NothingOpen == /\ pobj = [p \in Pobjs |-> NoPobj] /\ obj = [t \in Threads |-> NoObj]
               /\ dst = [t \in Threads |-> 0] /\ pc = [t \in Threads \cup Enums |-> "idle"]

LEMMA NothingPobj == NothingOpen => PobjInv
<1> SUFFICES ASSUME NothingOpen PROVE PobjInv
  OBVIOUS
<1>1. InUse = {} /\ \A t \in Threads : obj[t] = NoObj /\ dst[t] = 0 /\ pc[t] = "idle"
  BY DEF NothingOpen, InUse
<1>2. \A t \in Threads : RenameOK(t)
  BY <1>1 DEF RenameOK, Renaming
<1>3. pobj \in [Pobjs -> Pobj \cup {NoPobj}] /\ dst = [t \in Threads |-> dst[t]]
  BY DEF NothingOpen
<1> QED BY <1>1, <1>2, <1>3 DEF PobjInv

LEMMA NothingNext == NothingOpen' => PobjInv'
BY NothingPobj, PTL

(* The invariant of both, and that every step keeps it.                    *)
PInv == SInv /\ PobjInv

LEMMA InitPInv == Init => PInv
<1> SUFFICES ASSUME Init PROVE PInv
  OBVIOUS
<1>1. NothingOpen
  BY DEF Init, NothingOpen
<1> QED BY <1>1, NothingPobj, InitSInv DEF PInv

LEMMA NextPobj ==
  ASSUME PInv, [Next]_vars
  PROVE  PobjInv'
<1>1. SInv /\ PobjInv /\ CallInv
  BY DEF PInv, SInv
<1>2. ASSUME Reset PROVE PobjInv'
  <2>1. NothingOpen'
    BY <1>2 DEF Reset, NothingOpen
  <2> QED BY <2>1, NothingNext
<1>3. CASE crash
  BY <1>2, <1>3 DEF crash
<1>4. CASE ree_fs \/ UNCHANGED vars
  <2>1. UNCHANGED <<pobj, obj, dst, pc>>
    BY <1>4 DEF ree_fs, vars, svars
  <2>2. Keeps
    BY <1>1, <2>1, EnumKeeps
  <2> QED BY <1>1, <2>2, KeepsStep
<1>5. ASSUME NEW t \in Threads, NEW n \in Names, NEW f \in FlagSets,
             syscall_storage_obj_open(t, n, f) \/ syscall_storage_obj_create(t, n, f)
      PROVE  PobjInv'
  BY <1>1, <1>5, GetPobj DEF syscall_storage_obj_open, syscall_storage_obj_create
<1>6. ASSUME NEW t \in Threads,
             \/ read_head(t) \/ init_file(t) \/ init_file_end(t)
             \/ syscall_storage_obj_read_fails(t)
             \/ syscall_storage_obj_write(t) \/ write_end(t)
             \/ syscall_storage_obj_trunc(t)
             \/ syscall_storage_obj_del(t) \/ del_end(t)
             \/ tee_obj_close(t) \/ rename_move(t) \/ rename_end(t)
      PROVE  PobjInv'
  <2>1. Keeps
    BY <1>1, <1>6, ReadHeadKeeps, FileKeeps, MoveKeeps
  <2> QED BY <1>1, <2>1, KeepsStep
<1>7. ASSUME NEW t \in Threads,
             \/ obj_release(t) \/ \E m \in Names : syscall_storage_obj_rename(t, m)
             \/ rename_pobj(t) \/ rename_unreserve(t)
      PROVE  PobjInv'
  BY <1>1, <1>7, ReleasePobj, ReservePobj, RenamePobj, UnreservePobj
<1>8. ASSUME NEW t \in Threads, object_aborts(t)
      PROVE  PobjInv'
  BY <1>2, <1>8 DEF object_aborts
<1>9. ASSUME NEW e \in Enums,
             \/ syscall_storage_start_enum(e) \/ syscall_storage_next_enum(e)
             \/ enum_read_head(e) \/ syscall_storage_reset_enum(e)
      PROVE  PobjInv'
  <2>1. Keeps
    BY <1>1, <1>9, EnumsKeep
  <2> QED BY <1>1, <2>1, KeepsStep
<1>10. ASSUME NEW e \in Enums, enum_aborts(e)
       PROVE  PobjInv'
  BY <1>2, <1>10 DEF enum_aborts
<1> QED BY <1>3, <1>4, <1>5, <1>6, <1>7, <1>8, <1>9, <1>10 DEF Next

LEMMA Invariance == Spec => []PInv
<1>1. ASSUME PInv, [Next]_vars PROVE PInv'
  <2>1. PobjInv'
    BY <1>1, NextPobj
  <2>2. SInv /\ NamesKnown
    BY <1>1, PobjNames DEF PInv, SInv
  <2>3. SInv'
    BY <1>1, <2>2, NextSInv
  <2> QED BY <2>1, <2>3 DEF PInv
<1> QED BY <1>1, InitPInv, PTL DEF Spec

-----------------------------------------------------------------------------
(* tee_ree_fs.c get_dirh, put_dirh: ree_fs_dirh_refcount is the number of  *)
(* open files, open enumerations and operations under way, whatever failed *)
(* or was closed early, and the handle is closed when it is zero.          *)
THEOREM RefsAreCounted == Spec => []RefsCounted
<1>1. PInv => RefsCounted
  BY DEF PInv, SInv, CountInv, RefsCounted, Having, Listing, Pending
<1> QED BY <1>1, Invariance, PTL

(* fs_dirfile.c: no two objects on disk have the same file, and the bits   *)
(* of a directory that is loaded cover the files of all of them, so        *)
(* tee_fs_dirfile_get_tmp never hands out the file of an object.           *)
THEOREM NumbersAreTaken == Spec => []NumbersTaken
<1>1. ASSUME FsInv PROVE NumbersTaken
  <2> DEFINE f == [i \in Live(dirf) |-> dirf[i].num]
             L == Live(dirf)
             N == NumsOf(dirf)
  <2>1. WellFormed(dirf)
    BY <1>1 DEF FsInv
  <2>2. L \subseteq 1..Len(dirf) /\ Len(dirf) \in Nat
    BY <2>1, DirType
  <2>3. IsFiniteSet(L)
    <3>1. IsFiniteSet(1..Len(dirf))
      BY <2>2, FS_Interval
    <3> HIDE DEF L
    <3> QED BY <2>2, <3>1, FS_Subset
  <2>4. f \in Surjection(L, N)
    BY DEF Surjection, NumsOf
  <2>5. f \in Injection(L, N)
    <3>1. \A i, j \in L : f[i] = f[j] => i = j
      BY <2>1 DEF WellFormed
    <3> QED BY <3>1 DEF Injection, IsInjective, NumsOf
  <2>6. Cardinality(N) = Cardinality(L)
    <3> HIDE DEF f, L, N
    <3> QED BY <2>3, <2>4, <2>5, FS_Surjection
  <2>7. op = NoOp /\ dirh # Closed => N \subseteq dirh.files
    BY <1>1 DEF FsInv, HandleOK
  <2> QED BY <2>6, <2>7 DEF NumbersTaken
<1>2. PInv => NumbersTaken
  BY <1>1 DEF PInv, SInv
<1> QED BY <1>2, Invariance, PTL

(* Who has the same name shares the object.                                *)
LEMMA SharingLemma ==
  ASSUME CallInv, PobjInv, NEW t \in Threads, NEW u \in Threads, t # u,
         obj[t] # NoObj, obj[u] # NoObj, NameOf(t) = NameOf(u)
  PROVE  tee_pobj_check_access(obj[t].flags, obj[u].flags)
<1>1. CASE obj[t].po = obj[u].po
  BY <1>1 DEF PobjInv
<1>2. CASE obj[t].po # obj[u].po
  <2> DEFINE p == obj[t].po
             q == obj[u].po
  <2>1. p \in InUse /\ q \in InUse /\ pobj[p].name = pobj[q].name
    BY DEF PobjInv, NameOf
  <2>2. t \in Users(p) /\ u \in Users(q)
    BY DEF Users
  <2> HIDE DEF p, q
  <2>3. p # q
    BY <1>2 DEF p, q
  <2>4. PICK v \in Threads : pc[v] = "unreserve" /\ {p, q} = {obj[v].po, dst[v]}
    BY <2>1, <2>3 DEF PobjInv
  <2>5. RenameOK(v)
    BY DEF PobjInv
  <2>6. Users(dst[v]) = {}
    BY <2>4, <2>5 DEF RenameOK, Renaming
  <2>7. dst[v] = p \/ dst[v] = q
    BY <2>4
  <2> QED BY <2>2, <2>6, <2>7
<1> QED BY <1>1, <1>2

(* tee_pobj.c tee_pobj_check_access: whoever has an object open beside     *)
(* somebody else has asked for no more than that one shares, though only   *)
(* the flags of the first user are kept and renames move entries about.    *)
THEOREM SharingIsAgreed == Spec => []Sharing
<1>1. PInv => Sharing
  BY SharingLemma DEF PInv, SInv, Sharing, tee_pobj_check_access
<1> QED BY <1>1, Invariance, PTL

(* The types of the state of the storage system calls, the bound on        *)
(* ree_fs_dirh_refcount, that a thread waits for an operation exactly when *)
(* it has one under way, and that an entry of tee_pobjs counts its users   *)
(* and those who reserve it.                                               *)
THEOREM StorageTypes == Spec => []TypeOK
<1>1. ASSUME PInv PROVE TypeOK
  <2>1. FsInv /\ CallInv /\ CountInv /\ PobjInv
    BY <1>1 DEF PInv, SInv
  <2>2. \A i \in DOMAIN dirf : dirf[i] \in Entry \cup {Free}
    <3>1. WellFormed(dirf)
      BY <2>1 DEF FsInv
    <3>2. dirf \in [1..Len(dirf) -> Entry \cup {Free}]
      BY <3>1, DirType
    <3> QED BY <3>2
  <2>3. file \in [Nums -> FileVersions \cup {NoFile}]
    BY <2>1 DEF FsInv
  <2>4. dirh # Closed => dirh.files \subseteq Nums /\ dirh.dead \in BOOLEAN
    BY <2>1 DEF FsInv, HandleOK, Handle
  <2>5. refcount \in 0..Cardinality(Threads) + 2 * Cardinality(Enums) + 1
    <3>1. /\ Cardinality(Having) \in Nat /\ Cardinality(Listing) \in Nat
          /\ Cardinality(Threads) \in Nat /\ Cardinality(Enums) \in Nat
          /\ Cardinality(Having) <= Cardinality(Threads) /\ Cardinality(Listing) <= Cardinality(Enums)
      <4>1. Having \in SUBSET Threads /\ Listing \in SUBSET Enums
        BY DEF Having, Listing
      <4>2. IsFiniteSet(Having) /\ IsFiniteSet(Listing)
            /\ Cardinality(Having) <= Cardinality(Threads) /\ Cardinality(Listing) <= Cardinality(Enums)
        BY <4>1, FS_Subset, SetsAssumption
      <4> QED BY <4>2, FS_CardinalityType, SetsAssumption
    <3>2. refcount = Cardinality(Having) + Cardinality(Listing) + Pending /\ Pending \in {0, 1}
      BY <2>1 DEF CountInv, Pending
    <3> QED BY <3>1, <3>2
  <2>6. ASSUME NEW t \in Threads
        PROVE  /\ pc[t] \in PCs
               /\ obj[t] # NoObj => obj[t].po \in Pobjs /\ obj[t].fh \in Handles
               /\ pc[t] \in {"creating", "writing", "deleting", "renaming"} <=>
                    (op # NoOp /\ op.by = t)
    <3>1. ThreadOK(t)
      BY <2>1 DEF CallInv
    <3>2. obj[t] # NoObj => obj[t].po \in Pobjs /\ obj[t].fh \in Handles
      BY <3>1 DEF ThreadOK, Object
    <3>3. pc[t] \in PCs /\ (pc[t] \in OpPcs <=> op # NoOp /\ op.by = t)
      BY <3>1 DEF ThreadOK, OpPcs
    <3> QED BY <3>2, <3>3, OpPcsAre
  <2>7. ASSUME NEW p \in Pobjs, pobj[p] # NoPobj
        PROVE  pobj[p].refcnt = Cardinality({t \in Threads : obj[t] # NoObj /\ obj[t].po = p})
                              + Cardinality({t \in Threads : dst[t] = p})
    <3>1. p \in InUse
      BY <2>7 DEF InUse
    <3>2. pobj[p].refcnt = Cardinality(Users(p)) + Cardinality(Reservers(p))
      BY <2>1, <3>1 DEF PobjInv
    <3> QED BY <3>2 DEF Users, Reservers
  <2> QED BY <2>2, <2>3, <2>4, <2>5, <2>6, <2>7 DEF TypeOK
<1> QED BY <1>1, Invariance, PTL

-----------------------------------------------------------------------------
(* What follows is for TAs that do not share objects for writing.  A       *)
(* mishap that is not tame loses track of an object; but then an error is  *)
(* remembered.                                                             *)
Calm == Tame \/ ~errored'

Unshared == \A F \in FlagSets : ~({"WRITE", "SHARE_WRITE"} \subseteq F)

(* The thread is to find its object: it has the right to write it, and its *)
(* handle is good.                                                         *)
Claims(t) == /\ obj[t] # NoObj /\ "WRITE" \in obj[t].flags
             /\ \/ pc[t] \in {"creating", "writing"}
                \/ /\ pc[t] \in {"idle", "rename", "renaming", "renamed", "unreserve"}
                   /\ ~obj[t].fh.bad

(* Its handle and the name of the object, which are those it will have     *)
(* when its operation is done.                                             *)
ClaimFh(t) == IF pc[t] \in {"creating", "writing"} THEN op.fh ELSE obj[t].fh
ClaimName(t) == IF pc[t] \in {"renaming", "renamed"} THEN pobj[dst[t]].name ELSE NameOf(t)

(* In the directory d, with the files fl, f is the handle of the object n. *)
Good(d, fl, f, n) ==
  /\ f.idx \in Live(d) /\ d[f.idx].num = f.num /\ d[f.idx].name = n
  /\ fl[f.num] # NoFile /\ fl[f.num][f.ver] = d[f.idx].hash

(* The claim holds in the directory on disk and in the one that an         *)
(* operation under way is about to commit; of its own operation a thread   *)
(* claims only the outcome.                                                *)
Tracked(t) == Claims(t) =>
  /\ op # NoOp => Good(dirh.ents, file, ClaimFh(t), ClaimName(t))
  /\ op = NoOp \/ op.by # t => Good(dirf, file, ClaimFh(t), ClaimName(t))

(* The name that a rename has reserved, if it was not taken, stays free.   *)
Reserved(t) == pc[t] = "rename" /\ "taken" \notin mishaps =>
  /\ NoName(dirf, pobj[dst[t]].name)
  /\ op # NoOp => NoName(dirh.ents, pobj[dst[t]].name)

Alone(t) == obj[t] # NoObj => ~({"WRITE", "SHARE_WRITE"} \subseteq obj[t].flags)

(* An operation adds no name but one that its thread has in tee_pobjs, the *)
(* file it replaces or removes is that of no entry, and the one it creates *)
(* is that of its own.                                                     *)
Adds == op # NoOp =>
  /\ \A i \in Live(dirh.ents) :
       LET n == dirh.ents[i].name IN
       NoName(dirf, n) => \/ n = NameOf(op.by)
                          \/ dst[op.by] # 0 /\ n = pobj[dst[op.by]].name
  /\ op.old # NoNum => op.old \notin NumsOf(dirh.ents)
  /\ op.kind = "create" => /\ op.fh.idx \in Live(dirh.ents)
                           /\ dirh.ents[op.fh.idx].num = op.fh.num
                           /\ dirh.ents[op.fh.idx].name = NameOf(op.by)

TrackInv == Adds /\ \A t \in Threads : Alone(t) /\ Tracked(t) /\ Reserved(t)

-----------------------------------------------------------------------------
(* A name that is reserved is that of no other entry of tee_pobjs.         *)
LEMMA ReservedName ==
  ASSUME PInv, NEW t \in Threads, dst[t] # 0, pc[t] # "unreserve",
         NEW q \in InUse, q # dst[t]
  PROVE  pobj[q].name # pobj[dst[t]].name
<1> SUFFICES ASSUME pobj[q].name = pobj[dst[t]].name PROVE FALSE
  OBVIOUS
<1>1. SInv /\ PobjInv /\ RenameOK(t)
  BY DEF PInv, PobjInv
<1>2. dst[t] \in InUse /\ Users(dst[t]) = {} /\ Reservers(dst[t]) = {t}
  BY <1>1 DEF RenameOK
<1>3. PICK d : d = dst[t]
  OBVIOUS
<1>4. PICK u \in Threads : pc[u] = "unreserve" /\ {q, d} = {obj[u].po, dst[u]}
  BY <1>1, <1>2, <1>3 DEF PobjInv
<1>5. obj[u] # NoObj
  BY <1>1, <1>4, ThreadFacts DEF ThreadOK
<1>6. d # obj[u].po
  BY <1>2, <1>3, <1>5 DEF Users
<1>7. d # dst[u]
  BY <1>2, <1>3, <1>4 DEF Reservers
<1> QED BY <1>4, <1>6, <1>7

(* A claim is about no name that another thread works on.                  *)
LEMMA ApartLemma ==
  ASSUME PInv, TrackInv, NEW t \in Threads, Claims(t), NEW u \in Threads, u # t,
         obj[u] # NoObj
  PROVE  /\ ClaimName(t) # NameOf(u)
         /\ dst[u] # 0 /\ pc[u] # "unreserve" => ClaimName(t) # pobj[dst[u]].name
<1>1. SInv /\ CallInv /\ PobjInv /\ obj[t] # NoObj /\ Alone(t) /\ RenameOK(t) /\ RenameOK(u)
  BY DEF PInv, SInv, TrackInv, Claims, PobjInv
<1>2. obj[t].po \in InUse /\ obj[u].po \in InUse
  BY <1>1 DEF PobjInv
<1>3. \A v \in Threads : dst[v] # 0 => /\ dst[v] \in InUse /\ dst[v] # obj[t].po /\ dst[v] # obj[u].po
                                      /\ \A w \in Threads : dst[w] = dst[v] => w = v
  <2> TAKE v \in Threads
  <2>1. RenameOK(v)
    BY <1>1 DEF PobjInv
  <2> QED BY <1>1, <2>1 DEF RenameOK, Users, Reservers
<1>4. NameOf(t) # NameOf(u)
  <2>1. ~tee_pobj_check_access(obj[t].flags, obj[u].flags)
    BY <1>1 DEF Alone, Claims, tee_pobj_check_access
  <2> QED BY <1>1, <2>1, SharingLemma
<1>5. ASSUME pc[t] \in {"renaming", "renamed"}
      PROVE  /\ pobj[dst[t]].name # NameOf(u)
             /\ dst[u] # 0 => pobj[dst[t]].name # pobj[dst[u]].name
  <2>1. dst[t] # 0 /\ pc[t] # "unreserve"
    BY <1>1, <1>5 DEF RenameOK, Renaming
  <2> QED BY <1>2, <1>3, <2>1, ReservedName DEF NameOf
<1>6. ASSUME dst[u] # 0, pc[u] # "unreserve" PROVE NameOf(t) # pobj[dst[u]].name
  BY <1>2, <1>3, <1>6, ReservedName DEF NameOf
<1> QED BY <1>4, <1>5, <1>6 DEF ClaimName

-----------------------------------------------------------------------------
(* The kinds of steps.  A thread that the step leaves alone:               *)
Untouched(t) ==
  /\ obj'[t] = obj[t] /\ pc'[t] = pc[t] /\ dst'[t] = dst[t]
  /\ obj[t] # NoObj => pobj'[obj[t].po].name = pobj[obj[t].po].name
  /\ dst[t] # 0 => pobj'[dst[t]].name = pobj[dst[t]].name

LEMMA UntouchedClaim ==
  ASSUME PInv, NEW t \in Threads, Untouched(t),
         pc[t] \in {"creating", "writing"} => op'.fh = op.fh
  PROVE  /\ Claims(t)' <=> Claims(t)
         /\ Claims(t) => ClaimFh(t)' = ClaimFh(t) /\ ClaimName(t)' = ClaimName(t)
         /\ Alone(t)' <=> Alone(t)
         /\ pc[t] = "rename" => pobj'[dst'[t]].name = pobj[dst[t]].name
         /\ obj[t] # NoObj => NameOf(t)' = NameOf(t)
<1>1. RenameOK(t)
  BY DEF PInv, PobjInv
<1>2. pc[t] \in {"rename", "renaming", "renamed"} => dst[t] # 0
  BY <1>1 DEF RenameOK, Renaming
<1>3. obj[t] # NoObj => NameOf(t)' = NameOf(t)
  BY DEF Untouched, NameOf
<1> QED BY <1>2, <1>3 DEF Untouched, Claims, ClaimFh, ClaimName, Alone

LEMMA GoodStep ==
  ASSUME NEW d, NEW e, NEW fl, NEW gl, NEW f, NEW n, Good(d, fl, f, n),
         f.idx \in Live(e), e[f.idx] = d[f.idx], gl[f.num] = fl[f.num]
  PROVE  Good(e, gl, f, n)
BY DEF Good

(* The directory on disk and the operation stay; the threads A act, and    *)
(* have no operation under way.                                            *)
LEMMA QuietTrack ==
  ASSUME PInv, TrackInv, UNCHANGED mishaps,
         NEW A \in SUBSET Threads, UNCHANGED <<dirf, op>>,
         op # NoOp => dirh' = dirh /\ op.by \notin A /\ op.by \in Threads,
         \A t \in Threads \ A : /\ Untouched(t)
                                /\ Claims(t) => file'[ClaimFh(t).num] = file[ClaimFh(t).num],
         \A t \in A : Alone(t)' /\ Tracked(t)' /\ Reserved(t)'
  PROVE  TrackInv'
<1>1. ASSUME NEW t \in Threads PROVE Alone(t)' /\ Tracked(t)' /\ Reserved(t)'
  <2>1. CASE t \in A
    BY <2>1
  <2>2. CASE t \notin A
    <3>1. Alone(t) /\ Tracked(t) /\ Reserved(t) /\ Untouched(t)
      BY <2>2 DEF TrackInv
    <3>2. /\ Claims(t)' <=> Claims(t)
          /\ Claims(t) => ClaimFh(t)' = ClaimFh(t) /\ ClaimName(t)' = ClaimName(t)
          /\ Alone(t)' <=> Alone(t)
          /\ pc[t] = "rename" => pobj'[dst'[t]].name = pobj[dst[t]].name
      BY <3>1, UntouchedClaim
    <3>3. Tracked(t)'
      <4> SUFFICES ASSUME Claims(t)
                   PROVE  /\ op' # NoOp => Good(dirh'.ents, file', ClaimFh(t)', ClaimName(t)')
                          /\ op' = NoOp \/ op'.by # t => Good(dirf', file', ClaimFh(t)', ClaimName(t)')
        BY <3>2 DEF Tracked
      <4>1. PICK f, n : f = ClaimFh(t) /\ n = ClaimName(t)
        OBVIOUS
      <4>2. file'[f.num] = file[f.num] /\ ClaimFh(t)' = f /\ ClaimName(t)' = n
        BY <2>2, <3>2, <4>1
      <4>3. op # NoOp => Good(dirh.ents, file, f, n)
        BY <3>1, <4>1 DEF Tracked
      <4>4. op = NoOp \/ op.by # t => Good(dirf, file, f, n)
        BY <3>1, <4>1 DEF Tracked
      <4>5. op # NoOp => Good(dirh'.ents, file', f, n)
        BY <4>2, <4>3 DEF Good
      <4>6. op = NoOp \/ op.by # t => Good(dirf', file', f, n)
        BY <4>2, <4>4 DEF Good
      <4> QED BY <4>2, <4>5, <4>6
    <3>4. Reserved(t)'
      BY <3>1, <3>2 DEF Reserved, Untouched
    <3> QED BY <3>1, <3>2, <3>3, <3>4
  <2> QED BY <2>1, <2>2
<1>2. Adds'
  <2> SUFFICES ASSUME op # NoOp PROVE Adds'
    BY DEF Adds
  <2>1. PICK u \in Threads : u = op.by
    OBVIOUS
  <2>2. Untouched(u) /\ Adds /\ op' = op /\ dirh' = dirh /\ dirf' = dirf
    BY <2>1 DEF TrackInv
  <2>3. obj[u] # NoObj /\ NameOf(u)' = NameOf(u)
    <3>1. ThreadOK(u) /\ RenameOK(u)
      BY DEF PInv, SInv, CallInv, PobjInv
    <3>2. obj[u] # NoObj
      BY <2>1, <3>1, PcFacts DEF ThreadOK, OpPcs
    <3> QED BY <2>2, <3>2, UntouchedClaim
  <2> QED BY <2>1, <2>2, <2>3 DEF Adds, Untouched
<1> QED BY <1>1, <1>2 DEF TrackInv

(* A thread that acts and keeps its claim.                                 *)
LEMMA SameClaim ==
  ASSUME TrackInv, NEW u \in Threads, UNCHANGED <<dirf, file, op>>,
         op # NoOp => dirh' = dirh,
         Claims(u)' => Claims(u) /\ ClaimFh(u)' = ClaimFh(u) /\ ClaimName(u)' = ClaimName(u)
  PROVE  Tracked(u)'
<1>1. Tracked(u)
  BY DEF TrackInv
<1> SUFFICES ASSUME Claims(u)'
             PROVE  /\ op' # NoOp => Good(dirh'.ents, file', ClaimFh(u)', ClaimName(u)')
                    /\ op' = NoOp \/ op'.by # u => Good(dirf', file', ClaimFh(u)', ClaimName(u)')
  BY DEF Tracked
<1>2. PICK f, n : f = ClaimFh(u) /\ n = ClaimName(u) /\ ClaimFh(u)' = f /\ ClaimName(u)' = n
  OBVIOUS
<1>3. /\ op # NoOp => Good(dirh.ents, file, f, n)
      /\ op = NoOp \/ op.by # u => Good(dirf, file, f, n)
  BY <1>1, <1>2 DEF Tracked
<1> QED BY <1>2, <1>3

(* The thread u begins an operation, which changes the entry i of the      *)
(* directory in memory and no file but its own or one that has no entry.   *)
BeginsAt(u, i) ==
  /\ Beside(dirf, dirh'.ents, i)
  /\ i \in Live(dirf) => dirf[i].name = NameOf(u)
  /\ i \in Live(dirh'.ents) => \/ dirh'.ents[i].name = NameOf(u)
                               \/ pc[u] = "rename" /\ dirh'.ents[i].name = pobj[dst[u]].name
  /\ \A k \in Nums : file'[k] # file[k] => k \notin NumsOf(dirf) \/ (i \in Live(dirf) /\ k = dirf[i].num)

LEMMA BeginTrack ==
  ASSUME PInv, TrackInv, UNCHANGED mishaps,
         NEW u \in Threads, obj[u] # NoObj, NEW l \in OpPcs, NEW i,
         pc[u] # "unreserve",
         op = NoOp, op' # NoOp, op'.by = u, dirf' = dirf,
         UNCHANGED <<pobj, obj, dst>>, pc' = [pc EXCEPT ![u] = l],
         BeginsAt(u, i), Tracked(u)',
         op'.old # NoNum => op'.old \notin NumsOf(dirh'.ents),
         op'.kind = "create" => /\ op'.fh.idx \in Live(dirh'.ents)
                                /\ dirh'.ents[op'.fh.idx].num = op'.fh.num
                                /\ dirh'.ents[op'.fh.idx].name = NameOf(u)
  PROVE  TrackInv'
<1>1. SInv /\ CallInv /\ PobjInv /\ FsInv /\ WellFormed(dirf) /\ Adds
  BY DEF PInv, SInv, FsInv, TrackInv
<1>2. pc'[u] = l /\ \A t \in Threads : t # u => pc'[t] = pc[t]
  BY <1>1 DEF CallInv
<1>3. \A t \in Threads : t # u => Untouched(t)
  BY <1>2 DEF Untouched
<1>4. \A t \in Threads : pc[t] \notin OpPcs
  BY <1>1 DEF CallInv, ThreadOK, OpPcs
<1>5. ASSUME NEW t \in Threads, t # u PROVE Tracked(t)'
  <2>1. Tracked(t) /\ Untouched(t)
    BY <1>3, <1>5 DEF TrackInv
  <2>2. /\ Claims(t)' <=> Claims(t)
        /\ Claims(t) => ClaimFh(t)' = ClaimFh(t) /\ ClaimName(t)' = ClaimName(t)
    BY <1>4, <2>1, PcFacts, UntouchedClaim
  <2> SUFFICES ASSUME Claims(t)
               PROVE  /\ Good(dirh'.ents, file', ClaimFh(t), ClaimName(t))
                      /\ Good(dirf, file', ClaimFh(t), ClaimName(t))
    BY <2>2 DEF Tracked
  <2>3. ClaimName(t) # NameOf(u)
    BY <1>5, ApartLemma
  <2>4. PICK f, n : f = ClaimFh(t) /\ n = ClaimName(t)
    OBVIOUS
  <2>5. Good(dirf, file, f, n)
    BY <2>1, <2>4 DEF Tracked
  <2>6. f.idx \in Live(dirf) /\ dirf[f.idx].num = f.num /\ dirf[f.idx].name = n
    BY <2>5 DEF Good
  <2>7. f.idx # i
    BY <2>3, <2>4, <2>6 DEF BeginsAt
  <2>8. f.idx \in Live(dirh'.ents) /\ dirh'.ents[f.idx] = dirf[f.idx]
    BY <2>6, <2>7 DEF BeginsAt, Beside
  <2>9. f.num \in NumsOf(dirf) /\ f.num \in Nums
    BY <1>1, <2>6, DirType DEF NumsOf
  <2>10. i \in Live(dirf) => f.num # dirf[i].num
    BY <1>1, <2>6, <2>7 DEF WellFormed
  <2>11. file'[f.num] = file[f.num]
    BY <2>9, <2>10 DEF BeginsAt
  <2> QED BY <2>4, <2>5, <2>6, <2>8, <2>11, GoodStep
<1>6. ASSUME NEW t \in Threads PROVE Reserved(t)'
  <2> SUFFICES ASSUME pc'[t] = "rename", "taken" \notin mishaps
               PROVE  /\ NoName(dirf, pobj[dst[t]].name)
                      /\ NoName(dirh'.ents, pobj[dst[t]].name)
    BY DEF Reserved
  <2>1. t # u /\ pc[t] = "rename"
    BY <1>2, PcFacts
  <2>2. NoName(dirf, pobj[dst[t]].name)
    BY <2>1 DEF TrackInv, Reserved
  <2>3. RenameOK(t) /\ RenameOK(u) /\ obj[u].po \in InUse
    BY <1>1 DEF PobjInv
  <2>4. dst[t] # 0 /\ dst[t] # obj[u].po /\ Reservers(dst[t]) = {t}
    BY <2>1, <2>3 DEF RenameOK, Renaming, Users
  <2>5. pobj[dst[t]].name # NameOf(u)
    BY <2>1, <2>3, <2>4, ReservedName DEF NameOf
  <2>6. pc[u] = "rename" => pobj[dst[t]].name # pobj[dst[u]].name
    <3> SUFFICES ASSUME pc[u] = "rename" PROVE pobj[dst[t]].name # pobj[dst[u]].name
      OBVIOUS
    <3>1. dst[u] \in InUse /\ dst[u] # dst[t]
      BY <2>1, <2>3, <2>4 DEF RenameOK, Renaming, Reservers
    <3> QED BY <2>1, <2>4, <3>1, ReservedName
  <2>7. ASSUME NEW j \in Live(dirh'.ents) PROVE dirh'.ents[j].name # pobj[dst[t]].name
    <3>1. CASE j = i
      BY <2>5, <2>6, <3>1 DEF BeginsAt
    <3>2. CASE j # i
      BY <2>2, <3>2 DEF BeginsAt, Beside, NoName
    <3> QED BY <3>1, <3>2
  <2> QED BY <2>2, <2>7 DEF NoName
<1>7. Adds'
  <2>1. NameOf(u)' = NameOf(u)
    BY DEF NameOf
  <2>2. ASSUME NEW j \in Live(dirh'.ents), NoName(dirf, dirh'.ents[j].name)
        PROVE  \/ dirh'.ents[j].name = NameOf(u)
               \/ dst[u] # 0 /\ dirh'.ents[j].name = pobj[dst[u]].name
    <3>1. j = i
      BY <2>2 DEF BeginsAt, Beside, NoName
    <3>2. pc[u] = "rename" => dst[u] # 0
      BY <1>1 DEF PobjInv, RenameOK, Renaming
    <3> QED BY <2>2, <3>1, <3>2 DEF BeginsAt
  <2> QED BY <2>1, <2>2 DEF Adds
<1>8. \A t \in Threads : Alone(t)'
  BY DEF TrackInv, Alone
<1> QED BY <1>5, <1>6, <1>7, <1>8 DEF TrackInv

(* commit_dirh_writes, with or without success.                            *)
LEMMA CommitTrack ==
  ASSUME PInv, TrackInv, UNCHANGED mishaps,
         commit_dirh_writes \/ commit_dirh_writes_fails, UNCHANGED svars
  PROVE  TrackInv'
<1>1. /\ op # NoOp /\ op' # NoOp /\ op'.by = op.by /\ op'.kind = op.kind
      /\ FsInv /\ OpOK /\ op \in Operation
  BY CommitStep DEF PInv, SInv, FsInv, OpOK
<1>2. /\ UNCHANGED <<file, dirh, pobj, obj, dst, pc>> /\ dirf' \in {dirf, dirh.ents}
      /\ \E b \in BOOLEAN, r \in {"ok", "error"} :
           op' = [op EXCEPT !.pc = "end", !.done = b, !.res = r]
  <2>1. CASE commit_dirh_writes
    <3>1. op' = [op EXCEPT !.pc = "end", !.done = TRUE, !.res = "ok"]
      BY <1>1, <2>1 DEF commit_dirh_writes, OpOK, Operation
    <3> QED BY <2>1, <3>1 DEF svars, commit_dirh_writes
  <2>2. CASE commit_dirh_writes_fails
    BY <2>2 DEF svars, commit_dirh_writes_fails
  <2> QED BY <2>1, <2>2
<1>3. op'.fh = op.fh /\ op'.old = op.old
  BY <1>1, <1>2 DEF Operation
<1>4. ASSUME NEW t \in Threads PROVE Alone(t)' /\ Tracked(t)' /\ Reserved(t)'
  <2>1. Alone(t) /\ Tracked(t) /\ Reserved(t)
    BY DEF TrackInv
  <2>2. /\ Claims(t)' <=> Claims(t)
        /\ ClaimFh(t)' = ClaimFh(t) /\ ClaimName(t)' = ClaimName(t)
    BY <1>2, <1>3 DEF Claims, ClaimFh, ClaimName, NameOf
  <2>3. Tracked(t)'
    BY <1>1, <1>2, <2>1, <2>2 DEF Tracked
  <2>4. Reserved(t)'
    BY <1>1, <1>2, <2>1 DEF Reserved
  <2> QED BY <1>2, <2>1, <2>3, <2>4 DEF Alone
<1>5. Adds'
  <2>1. Adds
    BY DEF TrackInv
  <2>2. PICK u : u = op.by /\ u = op'.by
    BY <1>1
  <2>3. ASSUME NEW n, NoName(dirf', n) PROVE NoName(dirf, n) \/ NoName(dirh.ents, n)
    BY <1>2, <2>3
  <2> QED BY <1>1, <1>2, <1>3, <2>1, <2>2, <2>3 DEF Adds, NoName, NameOf
<1> QED BY <1>4, <1>5 DEF TrackInv

LEMMA ReeFsTrack ==
  ASSUME PInv, TrackInv, UNCHANGED mishaps, ree_fs, Calm
  PROVE  TrackInv'
<1>1. ~open_dirh_replaces
  BY DEF open_dirh_replaces, Calm, Tame, Fails
<1> QED BY <1>1, CommitTrack DEF ree_fs

(* The thread u ends its operation.                                        *)
LEMMA EndTrack ==
  ASSUME PInv, TrackInv, UNCHANGED mishaps,
         NEW u \in Threads, op # NoOp, op.by = u, op' = NoOp, dirf' = dirf,
         UNCHANGED <<pobj, dst>>,
         \A t \in Threads : t # u => obj'[t] = obj[t] /\ pc'[t] = pc[t],
         \A t \in Threads : t # u /\ Claims(t) => file'[ClaimFh(t).num] = file[ClaimFh(t).num],
         Alone(u)', Tracked(u)', pc'[u] # "rename"
  PROVE  TrackInv'
<1>1. CallInv
  BY DEF PInv, SInv
<1>2. ASSUME NEW t \in Threads, t # u PROVE Alone(t)' /\ Tracked(t)' /\ Reserved(t)'
  <2>1. Alone(t) /\ Tracked(t) /\ Reserved(t) /\ Untouched(t)
    BY <1>2 DEF TrackInv, Untouched
  <2>2. pc[t] \notin {"creating", "writing"}
    BY <1>1, <1>2, PcFacts DEF CallInv, ThreadOK, OpPcs
  <2>3. /\ Claims(t)' <=> Claims(t)
        /\ Claims(t) => ClaimFh(t)' = ClaimFh(t) /\ ClaimName(t)' = ClaimName(t)
        /\ Alone(t)' <=> Alone(t)
        /\ pc[t] = "rename" => pobj'[dst'[t]].name = pobj[dst[t]].name
    BY <2>1, <2>2, UntouchedClaim
  <2>4. Tracked(t)'
    <3> SUFFICES ASSUME Claims(t) PROVE Good(dirf', file', ClaimFh(t)', ClaimName(t)')
      BY <2>3 DEF Tracked
    <3>1. PICK f, n : f = ClaimFh(t) /\ n = ClaimName(t)
      OBVIOUS
    <3>2. file'[f.num] = file[f.num] /\ ClaimFh(t)' = f /\ ClaimName(t)' = n
      BY <1>2, <2>3, <3>1
    <3>3. Good(dirf, file, f, n)
      BY <1>2, <2>1, <3>1 DEF Tracked
    <3>4. Good(dirf', file', f, n)
      BY <3>2, <3>3 DEF Good
    <3> QED BY <3>2, <3>4
  <2>5. Reserved(t)'
    BY <2>1, <2>3 DEF Reserved, Untouched
  <2> QED BY <2>1, <2>3, <2>4, <2>5
<1> QED BY <1>2 DEF TrackInv, Adds, Reserved

(* What is claimed between two operations is on disk, and claims are of    *)
(* different files.                                                        *)
LEMMA ClaimFacts ==
  ASSUME PInv, TrackInv, op = NoOp, NEW t \in Threads, Claims(t)
  PROVE  /\ Good(dirf, file, ClaimFh(t), ClaimName(t)) /\ ClaimFh(t) = obj[t].fh
         /\ ClaimFh(t).num \in NumsOf(dirf) /\ ClaimFh(t).num \in Nums
         /\ \A u \in Threads : u # t /\ Claims(u) => ClaimFh(u).num # ClaimFh(t).num
<1>1. CallInv /\ WellFormed(dirf)
  BY DEF PInv, SInv, FsInv
<1>2. \A u \in Threads : pc[u] \notin OpPcs
  BY <1>1 DEF CallInv, ThreadOK, OpPcs
<1>3. \A u \in Threads : Claims(u) => Good(dirf, file, ClaimFh(u), ClaimName(u))
  BY DEF TrackInv, Tracked
<1>4. ASSUME NEW u \in Threads, u # t, Claims(u) PROVE ClaimFh(u).num # ClaimFh(t).num
  <2>1. obj[u] # NoObj /\ ClaimName(t) # NameOf(u)
    BY <1>4, ApartLemma DEF Claims
  <2>2. RenameOK(u) /\ pc[u] # "renaming"
    BY <1>2, PcFacts DEF PInv, PobjInv
  <2>3. ClaimName(t) # ClaimName(u)
    <3>1. CASE pc[u] = "renamed"
      BY <1>4, <2>1, <2>2, <3>1, ApartLemma DEF RenameOK, Renaming, ClaimName
    <3>2. CASE pc[u] # "renamed"
      BY <2>1, <2>2, <3>2 DEF ClaimName
    <3> QED BY <3>1, <3>2
  <2>4. PICK f, n, g, m : f = ClaimFh(t) /\ n = ClaimName(t) /\ g = ClaimFh(u) /\ m = ClaimName(u)
    OBVIOUS
  <2>5. Good(dirf, file, f, n) /\ Good(dirf, file, g, m) /\ n # m
    BY <1>3, <1>4, <2>3, <2>4
  <2>6. f.num # g.num
    BY <1>1, <2>5 DEF Good, WellFormed
  <2> QED BY <2>4, <2>6
<1>5. ClaimFh(t) = obj[t].fh
  BY <1>2, PcFacts DEF ClaimFh
<1>6. ClaimFh(t).num \in NumsOf(dirf)
  BY <1>3 DEF Good, NumsOf
<1>7. ClaimFh(t).num \in Nums
  BY <1>1, <1>6, DirType
<1> QED BY <1>3, <1>4, <1>5, <1>6, <1>7

(* A step of the thread u that leaves the directory on disk and tee_pobjs. *)
LEMMA ThreadTrack ==
  ASSUME PInv, TrackInv, UNCHANGED mishaps, NEW u \in Threads, NEW x, NEW l,
         UNCHANGED <<dirf, op, pobj, dst>>, obj[u] # NoObj, pc[u] \notin OpPcs,
         obj' = [obj EXCEPT ![u] = x], pc' = [pc EXCEPT ![u] = l],
         op # NoOp => dirh' = dirh,
         \A t \in Threads : t # u /\ Claims(t) => file'[ClaimFh(t).num] = file[ClaimFh(t).num],
         x.flags = obj[u].flags, Tracked(u)', l # "rename"
  PROVE  TrackInv'
<1>1. CallInv
  BY DEF PInv, SInv
<1>2. \A t \in Threads : t # u => obj'[t] = obj[t] /\ pc'[t] = pc[t]
  BY <1>1 DEF CallInv
<1>3. obj'[u] = x /\ pc'[u] = l
  BY <1>1 DEF CallInv
<1>4. \A t \in Threads \ {u} : Untouched(t)
  BY <1>2 DEF Untouched
<1>5. Alone(u)' /\ Reserved(u)'
  BY <1>3 DEF Alone, Reserved, TrackInv
<1>6. op # NoOp => op.by \in Threads /\ op.by # u
  BY <1>1 DEF CallInv, ThreadOK, OpPcs
<1>7. \A t \in {u} : Alone(t)' /\ Tracked(t)' /\ Reserved(t)'
  BY <1>5
<1>8. {u} \in SUBSET Threads
  OBVIOUS
<1> QED BY <1>4, <1>6, <1>7, <1>8, QuietTrack

LEMMA NoClaim ==
  ASSUME NEW u, ~Claims(u)'
  PROVE  Tracked(u)'
BY DEF Tracked

LEMMA ReadHeadTrack ==
  ASSUME PInv, TrackInv, UNCHANGED mishaps, NEW u \in Threads, read_head(u)
  PROVE  TrackInv'
<1>1. pc[u] = "open" /\ UNCHANGED <<pobj, dst>> /\ SInv /\ FsInv /\ CallInv
  BY DEF read_head, PInv, SInv
<1>2. obj[u] # NoObj /\ obj[u] \in Object /\ pc[u] \notin OpPcs
  BY <1>1, PcFacts DEF CallInv, ThreadOK
<1>3. (obj' = obj => obj' = [obj EXCEPT ![u] = obj[u]])
      /\ \A f : SetHandle(u, f) => obj' = [obj EXCEPT ![u] = [obj[u] EXCEPT !.fh = f]]
  BY <1>1, ThreadFacts
<1>4. CASE \E k \in Nums, i \in DOMAIN get_dirh.ents, v \in Vers :
             LET f == [num |-> k, idx |-> i, ver |-> v, bad |-> FALSE]
             IN /\ ree_fs_open(NameOf(u), f) /\ SetHandle(u, f)
                /\ \/ Goto(u, "idle") /\ Works
                   \/ (Goto(u, "close") \/ Goto(u, "purge")) /\ Fails
  <2>1. PICK k \in Nums, i \in DOMAIN get_dirh.ents, v \in Vers :
          LET f == [num |-> k, idx |-> i, ver |-> v, bad |-> FALSE]
          IN /\ ree_fs_open(NameOf(u), f) /\ SetHandle(u, f)
             /\ Goto(u, "idle") \/ Goto(u, "close") \/ Goto(u, "purge")
    BY <1>4, Zenon
  <2> DEFINE f == [num |-> k, idx |-> i, ver |-> v, bad |-> FALSE]
             x == [obj[u] EXCEPT !.fh = f]
  <2>2. obj' = [obj EXCEPT ![u] = x] /\ op = NoOp
    BY <1>3, <2>1 DEF ree_fs_open, Usable, Unlocked
  <2>3. PICK l \in {"idle", "close", "purge"} : pc' = [pc EXCEPT ![u] = l]
    BY <2>1 DEF Goto
  <2>4. UNCHANGED <<dirf, file, op>>
    BY <2>1 DEF ree_fs_open, OnlyMemory
  <2>5. Good(dirf, file, f, NameOf(u))
    <3>1. PICK h : h = get_dirh
      OBVIOUS
    <3>2. h.ents = dirf /\ WellFormed(dirf)
      BY <1>1, <2>2, <3>1, GetDirh DEF FsInv
    <3>3. PICK j : j = tee_fs_dirfile_find(dirf, NameOf(u))
      OBVIOUS
    <3>4. /\ j # 0
          /\ \E w \in VersionOf(dirf[j].num, dirf[j].hash) :
               f = [num |-> dirf[j].num, idx |-> j, ver |-> w, bad |-> FALSE]
      BY <2>1, <3>1, <3>2, <3>3 DEF ree_fs_open
    <3>5. j \in Live(dirf) /\ dirf[j].name = NameOf(u)
      BY <3>2, <3>3, <3>4, FindLemma
    <3>6. PICK w \in VersionOf(dirf[j].num, dirf[j].hash) :
               f = [num |-> dirf[j].num, idx |-> j, ver |-> w, bad |-> FALSE]
      BY <3>4
    <3>7. f.num = dirf[j].num /\ f.idx = j /\ f.ver = w
      BY <3>6
    <3>8. file[dirf[j].num] # NoFile /\ file[dirf[j].num][w] = dirf[j].hash
      BY DEF VersionOf
    <3> HIDE DEF f
    <3> QED BY <3>5, <3>7, <3>8 DEF Good
  <2>6. obj'[u] = x /\ pc'[u] = l /\ x.fh = f /\ x.po = obj[u].po /\ x.flags = obj[u].flags
    <3>1. obj'[u] = x /\ pc'[u] = l
      BY <1>1, <2>2, <2>3 DEF CallInv
    <3> HIDE DEF f
    <3> QED BY <1>2, <3>1 DEF Object
  <2> HIDE DEF f, x
  <2>7. Tracked(u)'
    <3>1. ASSUME Claims(u)' PROVE ClaimFh(u)' = f /\ ClaimName(u)' = NameOf(u)
      BY <1>1, <2>3, <2>6, <3>1 DEF ClaimFh, ClaimName, NameOf, Claims
    <3> QED BY <2>2, <2>4, <2>5, <3>1 DEF Tracked
  <2> QED BY <1>1, <1>2, <2>2, <2>3, <2>4, <2>6, <2>7, ThreadTrack
<1>5. CASE \/ ree_fs_open_not_found(NameOf(u)) /\ Goto(u, "release") /\ UNCHANGED obj
           \/ ree_fs_open_corrupt(NameOf(u)) /\ Goto(u, "purge") /\ UNCHANGED obj
           \/ ree_fs_open_fails /\ Goto(u, "release") /\ UNCHANGED obj
  <2>1. UNCHANGED <<dirf, file, op>> /\ op = NoOp /\ obj' = [obj EXCEPT ![u] = obj[u]]
    BY <1>3, <1>5 DEF ree_fs_open_not_found, ree_fs_open_corrupt, ree_fs_open_fails, Usable,
       Unlocked, OnlyMemory
  <2>2. PICK l \in {"release", "purge"} : pc' = [pc EXCEPT ![u] = l]
    BY <1>5 DEF Goto
  <2>3. pc'[u] = l
    BY <1>1, <2>2 DEF CallInv
  <2>4. Tracked(u)'
    BY <2>3, NoClaim DEF Claims
  <2> QED BY <1>1, <1>2, <2>1, <2>2, <2>4, ThreadTrack
<1> QED BY <1>4, <1>5 DEF read_head

(* What a step of the thread u finds, in the forms the lemmas use.         *)
LEMMA ActorFacts ==
  ASSUME PInv, NEW u \in Threads
  PROVE  /\ SInv /\ FsInv /\ CallInv /\ PobjInv /\ NamesKnown /\ ThreadOK(u) /\ RenameOK(u)
         /\ obj[u] # NoObj => obj[u] \in Object /\ NameOf(u) \in Names
         /\ obj' = obj => obj' = [obj EXCEPT ![u] = obj[u]]
         /\ pc' = pc => pc' = [pc EXCEPT ![u] = pc[u]]
         /\ \A x : obj' = [obj EXCEPT ![u] = x] => obj'[u] = x
         /\ \A l : pc' = [pc EXCEPT ![u] = l] => pc'[u] = l
         /\ op = NoOp => pc[u] \notin OpPcs
<1>1. SInv /\ FsInv /\ CallInv /\ PobjInv /\ ThreadOK(u) /\ RenameOK(u) /\ NamesKnown
  BY PobjNames DEF PInv, SInv, CallInv, PobjInv
<1>2. \A x : obj' = [obj EXCEPT ![u] = x] => obj'[u] = x
  BY <1>1 DEF CallInv
<1>3. \A l : pc' = [pc EXCEPT ![u] = l] => pc'[u] = l
  BY <1>1 DEF CallInv
<1>4. obj[u] # NoObj => obj[u] \in Object /\ NameOf(u) \in Names
  BY <1>1 DEF ThreadOK, NamesKnown
<1>5. op = NoOp => pc[u] \notin OpPcs
  BY <1>1 DEF ThreadOK, OpPcs
<1> QED BY <1>1, <1>2, <1>3, <1>4, <1>5, ThreadFacts

LEMMA CreatedTrack ==
  ASSUME PInv, TrackInv, UNCHANGED mishaps,
         NEW u \in Threads, obj[u] # NoObj, pc[u] = "create", op = NoOp,
         Created(u, NameOf(u)), UNCHANGED <<pobj, obj, dst>>, pc' = [pc EXCEPT ![u] = "creating"]
  PROVE  TrackInv'
<1>1. PICK n : n = NameOf(u) /\ NameOf(u)' = n
  BY DEF NameOf
<1>2. PICK k \in Nums, i \in 1..MaxFiles, c \in Contents :
        /\ k \notin NumsOf(dirf) /\ file' = [file EXCEPT ![k] = NewFile(c)]
        /\ Beside(dirf, dirh'.ents, i)
        /\ i \in Live(dirh'.ents) /\ dirh'.ents[i] = [name |-> n, num |-> k, hash |-> c]
        /\ i \in Live(dirf) => dirf[i].name = n
        /\ Begun(u, "create", n, n, [num |-> k, idx |-> i, ver |-> 0, bad |-> FALSE],
                 IF i \in Live(dirf) THEN dirf[i].num ELSE NoNum)
  BY <1>1 DEF Created
<1>3. PICK e : e = dirh'.ents
  OBVIOUS
<1>4. /\ e[i].name = n /\ e[i].num = k /\ e[i].hash = c /\ i \in Live(e) /\ Beside(dirf, e, i)
  BY <1>2, <1>3
<1>5. PICK g : g = op'.fh /\ g.num = k /\ g.idx = i /\ g.ver = 0
  BY <1>2 DEF Begun
<1>6. op'.by = u /\ op' # NoOp /\ op'.kind = "create" /\ dirf' = dirf
      /\ op'.old = IF i \in Live(dirf) THEN dirf[i].num ELSE NoNum
  <2>1. WellFormed(dirf) /\ n \in Names
    BY <1>1, ActorFacts DEF FsInv
  <2>2. i \in Live(dirf) => dirf[i].num \in Nums
    BY <2>1, DirType DEF Entry
  <2>3. op' \in Operation
    BY <1>2, <2>1, <2>2 DEF Begun, Operation, FileHandle, Vers
  <2>4. op' # NoOp
    BY <2>3, NoOpAssumption
  <2> QED BY <1>2, <2>4 DEF Begun
<1>7. FsInv /\ WellFormed(dirf) /\ file \in Files
  BY ActorFacts DEF FsInv, Files
<1>8. file'[k] = NewFile(c) /\ \A j \in Nums : j # k => file'[j] = file[j]
  BY <1>2, <1>7 DEF Files
<1>9. NewFile(c) # NoFile /\ NewFile(c)[0] = c
  BY NonesAssumption DEF NewFile, Vers, FileVersions, Contents
<1>10. Good(e, file', g, n)
  BY <1>4, <1>5, <1>8, <1>9 DEF Good
<1>11. pc'[u] = "creating"
  BY ActorFacts
<1>12. ClaimFh(u)' = g /\ ClaimName(u)' = n
  BY <1>1, <1>5, <1>11 DEF ClaimFh, ClaimName
<1>13. Tracked(u)'
  BY <1>3, <1>6, <1>10, <1>12 DEF Tracked
<1>14. BeginsAt(u, i)
  BY <1>1, <1>2, <1>3, <1>4, <1>8 DEF BeginsAt
<1>15. op'.old # NoNum => op'.old \notin NumsOf(e)
  <2> SUFFICES ASSUME op'.old # NoNum, NEW j \in Live(e), e[j].num = op'.old PROVE FALSE
    BY DEF NumsOf
  <2>1. i \in Live(dirf) /\ op'.old = dirf[i].num
    BY <1>6
  <2>2. CASE j = i
    BY <1>2, <1>4, <2>1, <2>2 DEF NumsOf
  <2>3. CASE j # i
    BY <1>4, <1>7, <2>1, <2>3 DEF Beside, WellFormed
  <2> QED BY <2>2, <2>3
<1>16. "creating" \in OpPcs
  BY PcFacts
<1> QED BY <1>1, <1>3, <1>4, <1>5, <1>6, <1>13, <1>14, <1>15, <1>16, BeginTrack

LEMMA InitFileTrack ==
  ASSUME PInv, TrackInv, UNCHANGED mishaps, NEW u \in Threads, init_file(u)
  PROVE  TrackInv'
<1>1. pc[u] = "create" /\ UNCHANGED <<pobj, obj, dst>> /\ obj[u] # NoObj
  BY ActorFacts DEF init_file, ThreadOK
<1>2. CASE ree_fs_create(u, NameOf(u)) /\ Goto(u, "creating")
  <2>1. Created(u, NameOf(u)) /\ op = NoOp
    BY <1>1, <1>2, ActorFacts, CreateLemma
  <2> QED BY <1>1, <1>2, <2>1, CreatedTrack DEF Goto
<1>3. CASE ree_fs_create_fails /\ (Goto(u, "release") \/ Goto(u, "purge"))
  <2> DEFINE k == tee_fs_dirfile_get_tmp(get_dirh)
  <2>1. op = NoOp /\ UNCHANGED <<dirf, op>> /\ k \in Nums /\ Unlink(k)
    BY <1>3 DEF ree_fs_create_fails, Usable, Unlocked, Refused
  <2>2. HandleOK(get_dirh) /\ get_dirh.ents = dirf
    BY <2>1, ActorFacts, GetDirh
  <2>3. k \notin NumsOf(dirf)
    BY <2>2, TmpLemma DEF HandleOK
  <2> HIDE DEF k
  <2>4. \A j \in Nums : j # k => file'[j] = file[j]
    BY <2>1, ActorFacts DEF Unlink, FsInv
  <2>5. \A t \in Threads : t # u /\ Claims(t) => file'[ClaimFh(t).num] = file[ClaimFh(t).num]
    BY <2>1, <2>3, <2>4, ClaimFacts
  <2>6. PICK l \in {"release", "purge"} : pc' = [pc EXCEPT ![u] = l] /\ pc'[u] = l
    BY <1>3, ActorFacts DEF Goto
  <2>7. Tracked(u)'
    BY <2>6, NoClaim DEF Claims
  <2>8. obj' = [obj EXCEPT ![u] = obj[u]] /\ pc[u] \notin OpPcs
    BY <1>1, <2>1, ActorFacts
  <2> QED BY <1>1, <2>1, <2>5, <2>6, <2>7, <2>8, ThreadTrack
<1> QED BY <1>2, <1>3 DEF init_file

(* The files of others at the end of an operation.                         *)
LEMMA EndFiles ==
  ASSUME PInv, TrackInv, op # NoOp, NEW t \in Threads, t # op.by, Claims(t),
         \/ op.res = "ok" /\ Unlink(op.old) /\ op.pc = "end"
         \/ op.kind = "create" /\ file' = [file EXCEPT ![op.fh.num] = NoFile]
         \/ UNCHANGED file
  PROVE  file'[ClaimFh(t).num] = file[ClaimFh(t).num]
<1>1. FsInv /\ OpOK /\ op.by \in Threads /\ WellFormed(dirh.ents) /\ Adds /\ file \in Files
      /\ CallInv
  BY DEF PInv, SInv, FsInv, HandleOK, CallInv, TrackInv, Files, OpOK
<1>2. PICK f, n : f = ClaimFh(t) /\ n = ClaimName(t)
  OBVIOUS
<1>3. Good(dirh.ents, file, f, n)
  BY <1>2 DEF TrackInv, Tracked
<1>4. f.idx \in Live(dirh.ents) /\ dirh.ents[f.idx].num = f.num /\ dirh.ents[f.idx].name = n
  BY <1>3 DEF Good
<1>5. f.num \in NumsOf(dirh.ents) /\ f.num \in Nums
  BY <1>1, <1>4, DirType DEF NumsOf
<1>6. CASE op.res = "ok" /\ Unlink(op.old) /\ op.pc = "end"
  BY <1>1, <1>2, <1>5, <1>6 DEF Unlink, Adds, Files
<1>7. CASE op.kind = "create" /\ file' = [file EXCEPT ![op.fh.num] = NoFile]
  <2>1. obj[op.by] # NoObj
    BY <1>1, PcFacts DEF CallInv, ThreadOK, OpPcs
  <2>2. n # NameOf(op.by)
    BY <1>1, <1>2, <2>1, ApartLemma
  <2>3. f.num # op.fh.num
    BY <1>1, <1>4, <1>7, <2>2 DEF Adds, WellFormed
  <2> QED BY <1>1, <1>2, <1>5, <1>7, <2>3 DEF Files
<1> QED BY <1>2, <1>6, <1>7

LEMMA InitFileEndTrack ==
  ASSUME PInv, TrackInv, UNCHANGED mishaps, NEW u \in Threads, init_file_end(u)
  PROVE  TrackInv'
<1>1. /\ pc[u] = "creating" /\ Returns("create") /\ UNCHANGED <<pobj, dst>> /\ op.pc = "end"
      /\ op' = NoOp /\ dirf' = dirf
      /\ IF op.res = "ok" THEN Unlink(op.old)
         ELSE file' = [file EXCEPT ![op.fh.num] = NoFile]
      /\ IF op.res = "ok" THEN SetHandle(u, op.fh) /\ Goto(u, "idle")
         ELSE UNCHANGED obj /\ (Goto(u, "release") \/ Goto(u, "purge"))
  BY DEF init_file_end, ree_fs_create_end, Returns
<1>2. /\ op # NoOp /\ op.by = u /\ op.kind = "create" /\ OpOK /\ op.fh \in FileHandle
      /\ obj[u] \in Object /\ obj[u] # NoObj
  BY <1>1, PcFacts, ActorFacts, ReturnsLemma, ObjectLemma
<1>3. CallInv
  BY ActorFacts
<1>4. \A t \in Threads : t # u /\ Claims(t) => file'[ClaimFh(t).num] = file[ClaimFh(t).num]
  BY <1>1, <1>2, EndFiles
<1>5. CASE op.res = "ok"
  <2> DEFINE x == [obj[u] EXCEPT !.fh = op.fh]
  <2>1. obj' = [obj EXCEPT ![u] = x] /\ pc' = [pc EXCEPT ![u] = "idle"]
    BY <1>1, <1>5, ActorFacts, ThreadFacts DEF Goto
  <2>2. obj'[u] = x /\ pc'[u] = "idle" /\ x.flags = obj[u].flags /\ x.po = obj[u].po /\ x.fh = op.fh
    <3>1. obj'[u] = x /\ pc'[u] = "idle"
      BY <2>1, ActorFacts
    <3> QED BY <1>2, <3>1 DEF Object
  <2> HIDE DEF x
  <2>3. \A t \in Threads : t # u => obj'[t] = obj[t] /\ pc'[t] = pc[t]
    BY <1>3, <2>1 DEF CallInv
  <2>4. Alone(u)'
    BY <1>2, <2>2 DEF TrackInv, Alone
  <2>5. Tracked(u)'
    <3> SUFFICES ASSUME Claims(u)' PROVE Good(dirf', file', ClaimFh(u)', ClaimName(u)')
      BY <1>1 DEF Tracked
    <3>1. Claims(u) /\ ClaimFh(u) = op.fh /\ ClaimName(u) = NameOf(u)
      BY <1>1, <1>2, <2>2 DEF Claims, ClaimFh, ClaimName
    <3>2. ClaimFh(u)' = op.fh /\ ClaimName(u)' = NameOf(u)
      BY <1>1, <2>2 DEF ClaimFh, ClaimName, NameOf
    <3>3. Good(dirh.ents, file, op.fh, NameOf(u))
      BY <1>2, <3>1 DEF TrackInv, Tracked
    <3>4. dirf = dirh.ents
      BY <1>1, <1>2, <1>5 DEF OpOK
    <3>5. PICK g, n : g = op.fh /\ n = NameOf(u)
      OBVIOUS
    <3>6. Good(dirf, file, g, n)
      BY <3>3, <3>4, <3>5
    <3>7. file'[g.num] = file[g.num]
      <4>1. g.num \in NumsOf(dirh.ents) /\ g.num \in Nums
        BY <1>2, <3>4, <3>5, <3>6 DEF Good, NumsOf, FileHandle
      <4>2. Adds /\ file \in Files /\ Unlink(op.old)
        BY <1>1, <1>5, ActorFacts DEF TrackInv, FsInv, Files
      <4> QED BY <1>2, <4>1, <4>2 DEF Unlink, Adds, Files
    <3>8. Good(dirf', file', g, n)
      BY <1>1, <3>6, <3>7 DEF Good
    <3> QED BY <3>2, <3>5, <3>8
  <2> QED BY <1>1, <1>2, <1>4, <2>2, <2>3, <2>4, <2>5, EndTrack
<1>6. CASE op.res # "ok"
  <2>1. PICK l \in {"release", "purge"} : obj' = obj /\ pc' = [pc EXCEPT ![u] = l]
    BY <1>1, <1>6 DEF Goto
  <2>2. pc'[u] = l /\ \A t \in Threads : t # u => obj'[t] = obj[t] /\ pc'[t] = pc[t]
    BY <1>3, <2>1 DEF CallInv
  <2>3. Tracked(u)' /\ Alone(u)'
    BY <2>1, <2>2, NoClaim DEF Claims, TrackInv, Alone
  <2> QED BY <1>1, <1>2, <1>4, <2>2, <2>3, EndTrack
<1> QED BY <1>5, <1>6

LEMMA SpoilFacts ==
  ASSUME PInv, NEW u \in Threads, obj[u] # NoObj, obj[u].fh \in FileHandle, Spoil(u)
  PROVE  \E x : /\ obj' = [obj EXCEPT ![u] = x] /\ obj'[u] = x
                /\ x.flags = obj[u].flags /\ x.po = obj[u].po /\ x.fh.bad
<1> DEFINE f == [obj[u].fh EXCEPT !.bad = TRUE]
           x == [obj[u] EXCEPT !.fh = f]
<1>1. SInv /\ obj[u] \in Object
  BY ActorFacts
<1>2. obj' = [obj EXCEPT ![u] = x]
  BY <1>1, ThreadFacts
<1>3. obj'[u] = x
  BY <1>2, ActorFacts
<1>4. f.bad
  BY DEF FileHandle
<1> HIDE DEF f
<1>5. x.flags = obj[u].flags /\ x.po = obj[u].po /\ x.fh = f
  BY <1>1 DEF Object
<1> QED BY <1>2, <1>3, <1>4, <1>5

LEMMA ReadFailsTrack ==
  ASSUME PInv, TrackInv, UNCHANGED mishaps,
         NEW u \in Threads, syscall_storage_obj_read_fails(u)
  PROVE  TrackInv'
<1>1. /\ Use(u, "READ") /\ UNCHANGED <<dirf, file, dirh, op, pobj, dst>>
      /\ \/ Spoil(u) /\ UNCHANGED pc
         \/ pc' = [pc EXCEPT ![u] = "purge"] /\ UNCHANGED obj
  BY DEF syscall_storage_obj_read_fails, Goto
<1>2. pc[u] = "idle" /\ pc[u] \notin OpPcs /\ obj[u] # NoObj /\ obj[u].fh \in FileHandle
  BY <1>1, ActorFacts, UseLemma
<1>3. CASE Spoil(u) /\ UNCHANGED pc
  <2>1. PICK x : /\ obj' = [obj EXCEPT ![u] = x] /\ obj'[u] = x
                 /\ x.flags = obj[u].flags /\ x.fh.bad
    BY <1>2, <1>3, SpoilFacts
  <2>2. pc' = [pc EXCEPT ![u] = "idle"] /\ pc'[u] = "idle"
    BY <1>2, <1>3, ActorFacts
  <2>3. Tracked(u)'
    BY <2>1, <2>2, NoClaim DEF Claims
  <2> QED BY <1>1, <1>2, <2>1, <2>2, <2>3, ThreadTrack
<1>4. CASE pc' = [pc EXCEPT ![u] = "purge"] /\ UNCHANGED obj
  <2>1. obj' = [obj EXCEPT ![u] = obj[u]] /\ pc'[u] = "purge"
    BY <1>4, ActorFacts
  <2>2. Tracked(u)'
    BY <2>1, NoClaim DEF Claims
  <2> QED BY <1>1, <1>2, <1>4, <2>1, <2>2, ThreadTrack
<1> QED BY <1>1, <1>3, <1>4

LEMMA WrittenTrack ==
  ASSUME PInv, TrackInv, UNCHANGED mishaps,
         NEW u \in Threads, Claims(u), pc[u] = "idle", op = NoOp,
         obj[u].fh \in FileHandle,
         Written(u, obj[u].fh), op' # NoOp, op'.by = u, op'.kind = "write",
         UNCHANGED <<pobj, obj, dst>>, pc' = [pc EXCEPT ![u] = "writing"]
  PROVE  TrackInv'
<1>1. PICK f, n : f = obj[u].fh /\ n = NameOf(u) /\ NameOf(u)' = n /\ f \in FileHandle
  BY DEF NameOf
<1>2. Good(dirf, file, f, n)
  BY <1>1, ClaimFacts DEF ClaimName
<1>3. f.idx \in Live(dirf) /\ dirf[f.idx].num = f.num /\ dirf[f.idx].name = n /\ file[f.num] # NoFile
  BY <1>2 DEF Good
<1>4. PICK c \in Contents :
        /\ file' = [file EXCEPT ![f.num][1 - f.ver] = c]
        /\ Beside(dirf, dirh'.ents, f.idx) /\ f.idx \in Live(dirh'.ents)
        /\ dirh'.ents[f.idx] = [dirf[f.idx] EXCEPT !.hash = c]
        /\ Begun(u, "write", dirf[f.idx].name, dirf[f.idx].name, [f EXCEPT !.ver = 1 - f.ver], NoNum)
  BY <1>1, <1>3 DEF Written
<1>5. PICK e, g : e = dirh'.ents /\ g = op'.fh
  OBVIOUS
<1>6. FsInv /\ WellFormed(dirf) /\ file \in Files
  BY ActorFacts DEF FsInv, Files
<1>7. dirf[f.idx] \in Entry
  BY <1>3, <1>6, DirType
<1>8. e[f.idx].name = n /\ e[f.idx].num = f.num /\ e[f.idx].hash = c
  BY <1>3, <1>4, <1>5, <1>7 DEF Entry
<1>9. g.num = f.num /\ g.idx = f.idx /\ g.ver = 1 - f.ver /\ op'.old = NoNum /\ dirf' = dirf
  BY <1>1, <1>4, <1>5 DEF Begun, FileHandle
<1>10. f.num \in Nums /\ file[f.num] \in FileVersions /\ 1 - f.ver \in Vers
  BY <1>1, <1>3, <1>6 DEF FileHandle, Files, Vers
<1>11. /\ file'[f.num] = [file[f.num] EXCEPT ![1 - f.ver] = c]
       /\ \A j \in Nums : j # f.num => file'[j] = file[j]
  BY <1>4, <1>6, <1>10 DEF Files
<1>12. file'[f.num] # NoFile /\ file'[f.num][1 - f.ver] = c
  BY <1>10, <1>11, NonesAssumption DEF FileVersions, Contents
<1>13. Good(e, file', g, n)
  BY <1>4, <1>5, <1>8, <1>9, <1>12 DEF Good
<1>14. pc'[u] = "writing"
  BY ActorFacts
<1>15. ClaimFh(u)' = g /\ ClaimName(u)' = n
  BY <1>1, <1>5, <1>14 DEF ClaimFh, ClaimName
<1>16. Tracked(u)'
  BY <1>5, <1>13, <1>15 DEF Tracked
<1>17. BeginsAt(u, f.idx)
  <2>1. \A k \in Nums : file'[k] # file[k] => k = dirf[f.idx].num
    BY <1>3, <1>11
  <2> QED BY <1>1, <1>3, <1>4, <1>5, <1>8, <2>1 DEF BeginsAt
<1>18. "writing" \in OpPcs /\ obj[u] # NoObj
  BY PcFacts DEF Claims
<1> QED BY <1>5, <1>9, <1>16, <1>17, <1>18, BeginTrack

(* The file of a writer is claimed by nobody else.                         *)
LEMMA SyncedOthers ==
  ASSUME PInv, TrackInv, NEW u \in Threads, Use(u, "WRITE"), ~obj[u].fh.bad, op = NoOp,
         MaybeSynced(obj[u].fh)
  PROVE  \A t \in Threads : t # u /\ Claims(t) => file'[ClaimFh(t).num] = file[ClaimFh(t).num]
<1>1. pc[u] = "idle" /\ obj[u] # NoObj /\ FsInv
  BY ActorFacts, UseLemma
<1>2. Claims(u)
  BY <1>1 DEF Claims, Use
<1>3. PICK f : f = obj[u].fh
  OBVIOUS
<1>4. file' \in {file, synced(f)}
  BY <1>3 DEF MaybeSynced
<1>5. \A j \in Nums : j # f.num => file'[j] = file[j]
  BY <1>1, <1>4 DEF synced, FsInv
<1> SUFFICES ASSUME NEW t \in Threads, t # u, Claims(t)
             PROVE  file'[ClaimFh(t).num] = file[ClaimFh(t).num]
  OBVIOUS
<1>6. ClaimFh(t).num \in Nums
  BY ClaimFacts
<1>7. ClaimFh(t).num # ClaimFh(u).num /\ ClaimFh(u) = f
  BY <1>2, <1>3, ClaimFacts
<1> QED BY <1>5, <1>6, <1>7

LEMMA WriteFailsTrack ==
  ASSUME PInv, TrackInv, UNCHANGED mishaps,
         NEW u \in Threads, Use(u, "WRITE"), ree_fs_write_fails(obj[u].fh),
         Spoil(u), UNCHANGED <<pobj, dst, pc>>
  PROVE  TrackInv'
<1>1. pc[u] = "idle" /\ pc[u] \notin OpPcs /\ obj[u] # NoObj /\ obj[u].fh \in FileHandle
  BY ActorFacts, UseLemma
<1>2. /\ op = NoOp /\ UNCHANGED <<dirf, op>> /\ MaybeSynced(obj[u].fh) /\ ~obj[u].fh.bad
  BY DEF ree_fs_write_fails, Usable, Unlocked, Refused
<1>3. \A t \in Threads : t # u /\ Claims(t) => file'[ClaimFh(t).num] = file[ClaimFh(t).num]
  BY <1>2, SyncedOthers
<1>4. PICK x : /\ obj' = [obj EXCEPT ![u] = x] /\ obj'[u] = x
               /\ x.flags = obj[u].flags /\ x.fh.bad
  BY <1>1, SpoilFacts
<1>5. pc' = [pc EXCEPT ![u] = "idle"] /\ pc'[u] = "idle"
  BY <1>1, ActorFacts
<1>6. Tracked(u)'
  BY <1>4, <1>5, NoClaim DEF Claims
<1> QED BY <1>1, <1>2, <1>3, <1>4, <1>5, <1>6, ThreadTrack

LEMMA WriteTrack ==
  ASSUME PInv, TrackInv, UNCHANGED mishaps,
         NEW u \in Threads, syscall_storage_obj_write(u)
  PROVE  TrackInv'
<1>1. Use(u, "WRITE") /\ UNCHANGED <<pobj, dst>> /\ SInv /\ FsInv
  BY ActorFacts DEF syscall_storage_obj_write
<1>2. pc[u] = "idle" /\ pc[u] \notin OpPcs /\ obj[u] # NoObj /\ obj[u].fh \in FileHandle
  BY <1>1, UseLemma
<1>3. ~obj[u].fh.bad => Claims(u)
  BY <1>1, <1>2 DEF Claims, Use
<1>4. CASE ree_fs_write(u, obj[u].fh) /\ Goto(u, "writing") /\ UNCHANGED obj
  <2>1. /\ Written(u, obj[u].fh) /\ op = NoOp /\ op' # NoOp /\ op'.by = u /\ op'.kind = "write"
    BY <1>1, <1>2, <1>4, WriteLemma
  <2>2. Claims(u)
    BY <1>3, <1>4 DEF ree_fs_write
  <2> QED BY <1>1, <1>2, <1>4, <2>1, <2>2, WrittenTrack DEF Goto
<1>5. CASE ree_fs_write_fails(obj[u].fh) /\ Spoil(u) /\ UNCHANGED pc
  BY <1>1, <1>5, WriteFailsTrack
<1> QED BY <1>4, <1>5 DEF syscall_storage_obj_write

LEMMA WriteEndTrack ==
  ASSUME PInv, TrackInv, UNCHANGED mishaps, NEW u \in Threads, write_end(u)
  PROVE  TrackInv'
<1> DEFINE g == [op.fh EXCEPT !.bad = (op.res # "ok")]
           x == [obj[u] EXCEPT !.fh = g]
<1>1. /\ pc[u] = "writing" /\ UNCHANGED <<pobj, dst, file, dirf>> /\ op.pc = "end" /\ op' = NoOp
      /\ SetHandle(u, g) /\ pc' = [pc EXCEPT ![u] = "idle"] /\ SInv /\ CallInv
  BY ActorFacts DEF write_end, ree_fs_write_end, Returns, Goto
<1>2. /\ op # NoOp /\ op.by = u /\ OpOK /\ op.fh \in FileHandle
      /\ obj[u] \in Object /\ obj[u] # NoObj
  BY <1>1, PcFacts, ReturnsLemma, ObjectLemma
<1>3. g.num = op.fh.num /\ g.idx = op.fh.idx /\ g.ver = op.fh.ver /\ g.bad = (op.res # "ok")
  BY <1>2 DEF FileHandle
<1>4. obj' = [obj EXCEPT ![u] = x]
  BY <1>1, ThreadFacts
<1> HIDE DEF g
<1>5. obj'[u] = x /\ pc'[u] = "idle" /\ x.flags = obj[u].flags /\ x.po = obj[u].po /\ x.fh = g
  <2>1. obj'[u] = x /\ pc'[u] = "idle"
    BY <1>1, <1>4, ActorFacts
  <2> QED BY <1>2, <2>1 DEF Object
<1> HIDE DEF x
<1>6. \A t \in Threads : t # u => obj'[t] = obj[t] /\ pc'[t] = pc[t]
  BY <1>1, <1>4 DEF CallInv
<1>7. Alone(u)'
  BY <1>2, <1>5 DEF TrackInv, Alone
<1>8. Tracked(u)'
  <2> SUFFICES ASSUME Claims(u)' PROVE Good(dirf', file', ClaimFh(u)', ClaimName(u)')
    BY <1>1 DEF Tracked
  <2>1. op.res = "ok"
    BY <1>3, <1>5 DEF Claims
  <2>2. Claims(u)
    <3>1. Claims(u)' /\ obj'[u].flags = obj[u].flags
      BY <1>5
    <3> QED BY <1>1, <1>2, <3>1 DEF Claims
  <2>3. ClaimFh(u) = op.fh /\ ClaimName(u) = NameOf(u)
    BY <1>1 DEF ClaimFh, ClaimName
  <2>4. Good(dirh.ents, file, op.fh, NameOf(u))
    BY <1>2, <2>2, <2>3 DEF TrackInv, Tracked
  <2>5. dirf = dirh.ents
    BY <1>1, <1>2, <2>1 DEF OpOK
  <2>6. PICK h, n : h = op.fh /\ n = NameOf(u)
    OBVIOUS
  <2>7. Good(dirf, file, g, n)
    BY <1>3, <2>4, <2>5, <2>6 DEF Good
  <2>8. ClaimFh(u)' = g /\ ClaimName(u)' = n
    BY <1>1, <1>5, <2>6 DEF ClaimFh, ClaimName, NameOf
  <2> QED BY <1>1, <2>7, <2>8
<1> QED BY <1>1, <1>2, <1>5, <1>6, <1>7, <1>8, EndTrack

LEMMA TruncTrack ==
  ASSUME PInv, TrackInv, UNCHANGED mishaps,
         NEW u \in Threads, syscall_storage_obj_trunc(u), Calm
  PROVE  TrackInv'
<1>1. Use(u, "WRITE") /\ UNCHANGED <<pobj, dst>>
  BY DEF syscall_storage_obj_trunc
<1>2. pc[u] = "idle" /\ pc[u] \notin OpPcs /\ obj[u] # NoObj /\ obj[u].fh \in FileHandle
      /\ obj[u] \in Object
  BY <1>1, ActorFacts, UseLemma
<1>3. ASSUME UNCHANGED <<obj, pc, dirf, file, op>>, op = NoOp PROVE TrackInv'
  <2>1. obj' = [obj EXCEPT ![u] = obj[u]] /\ pc' = [pc EXCEPT ![u] = "idle"]
    BY <1>2, <1>3, ActorFacts
  <2>2. Tracked(u)'
    BY <1>1, <1>3, SameClaim DEF Claims, ClaimFh, ClaimName, NameOf
  <2> QED BY <1>1, <1>2, <1>3, <2>1, <2>2, ThreadTrack
<1>4. CASE ree_fs_truncate(obj[u].fh) /\ UNCHANGED <<obj, pc>>
  BY <1>3, <1>4 DEF ree_fs_truncate, OnlyMemory, Usable, Unlocked
<1>5. ASSUME NEW g \in Cut(obj[u].fh), ree_fs_truncate_fails(obj[u].fh, g), SetHandle(u, g),
             UNCHANGED pc
      PROVE  TrackInv'
  <2>1. PICK f : f = obj[u].fh /\ f \in FileHandle
    BY <1>2
  <2>2. /\ ~f.bad /\ op = NoOp /\ UNCHANGED <<dirf, op>>
        /\ (g = f /\ UNCHANGED file) \/ (g = [f EXCEPT !.bad = TRUE] /\ MaybeSynced(f))
    BY <1>5, <2>1 DEF ree_fs_truncate_fails, Usable, Unlocked, Calm, Tame, Fails
  <2>3. obj' = [obj EXCEPT ![u] = [obj[u] EXCEPT !.fh = g]]
    BY <1>5, ActorFacts, ThreadFacts
  <2>4. CASE g = f /\ UNCHANGED file
    <3>1. PICK x : x = [obj[u] EXCEPT !.fh = g]
      OBVIOUS
    <3>3. x = obj[u]
      BY <1>2, <2>1, <2>4, <3>1 DEF Object
    <3>4. obj' = [obj EXCEPT ![u] = obj[u]]
      BY <2>3, <3>1, <3>3
    <3>5. obj = [t \in Threads |-> obj[t]]
      BY ActorFacts DEF CallInv
    <3>2. UNCHANGED obj
      BY <3>4, <3>5
    <3> QED BY <1>3, <1>5, <2>2, <2>4, <3>2
  <2>5. CASE g = [f EXCEPT !.bad = TRUE] /\ MaybeSynced(f)
    <3>1. \A t \in Threads : t # u /\ Claims(t) => file'[ClaimFh(t).num] = file[ClaimFh(t).num]
      BY <1>1, <2>1, <2>2, <2>5, SyncedOthers
    <3>2. g.bad
      BY <2>1, <2>5 DEF FileHandle
    <3> DEFINE x == [obj[u] EXCEPT !.fh = g]
    <3>3. x.flags = obj[u].flags /\ x.fh = g
      BY <1>2 DEF Object
    <3>4. obj' = [obj EXCEPT ![u] = x] /\ obj'[u] = x
      BY <2>3, ActorFacts
    <3> HIDE DEF x
    <3>5. pc' = [pc EXCEPT ![u] = "idle"] /\ pc'[u] = "idle"
      BY <1>2, <1>5, ActorFacts
    <3>6. Tracked(u)'
      BY <3>2, <3>3, <3>4, <3>5, NoClaim DEF Claims
    <3> QED BY <1>1, <1>2, <2>2, <3>1, <3>3, <3>4, <3>5, <3>6, ThreadTrack
  <2> QED BY <2>2, <2>4, <2>5
<1>6. CASE ree_fs_write_fails(obj[u].fh) /\ Spoil(u) /\ UNCHANGED pc
  BY <1>1, <1>6, WriteFailsTrack
<1>7. CASE ree_fs_write_fails(obj[u].fh) /\ Goto(u, "purge") /\ UNCHANGED obj
  <2>1. /\ op = NoOp /\ UNCHANGED <<dirf, op>> /\ MaybeSynced(obj[u].fh) /\ ~obj[u].fh.bad
    BY <1>7 DEF ree_fs_write_fails, Usable, Unlocked, Refused
  <2>2. \A t \in Threads : t # u /\ Claims(t) => file'[ClaimFh(t).num] = file[ClaimFh(t).num]
    BY <1>1, <2>1, SyncedOthers
  <2>3. pc' = [pc EXCEPT ![u] = "purge"] /\ pc'[u] = "purge" /\ obj' = [obj EXCEPT ![u] = obj[u]]
    BY <1>7, ActorFacts DEF Goto
  <2>4. Tracked(u)'
    BY <2>3, NoClaim DEF Claims
  <2> QED BY <1>1, <1>2, <2>1, <2>2, <2>3, <2>4, ThreadTrack
<1> QED BY <1>4, <1>5, <1>6, <1>7 DEF syscall_storage_obj_trunc, Cut

LEMMA DelTrack ==
  ASSUME PInv, TrackInv, UNCHANGED mishaps,
         NEW u \in Threads, syscall_storage_obj_del(u)
  PROVE  TrackInv'
<1>1. CanDelete(u) /\ UNCHANGED <<obj, pobj, dst>> /\ ThreadOK(u) /\ FsInv
  BY ActorFacts DEF syscall_storage_obj_del
<1>2. pc[u] \in {"idle", "purge"} /\ obj[u] # NoObj /\ pc[u] \notin OpPcs
  BY <1>1, PcFacts DEF CanDelete, Use, Idle, ThreadOK
<1>3. CASE ree_fs_remove(u, NameOf(u)) /\ Goto(u, "deleting")
  <2>1. op = NoOp /\ op' # NoOp /\ op'.by = u /\ op'.kind = "remove" /\ Removed(u, NameOf(u))
    BY <1>1, <1>2, <1>3, ActorFacts, RemoveLemma
  <2>2. PICK n : n = NameOf(u)
    OBVIOUS
  <2>3. PICK i \in Live(dirf) :
          /\ dirf[i].name = n /\ UNCHANGED file
          /\ Beside(dirf, dirh'.ents, i) /\ i \notin Live(dirh'.ents)
          /\ Begun(u, "remove", n, n, Closed, dirf[i].num)
    BY <2>1, <2>2 DEF Removed
  <2>4. op'.old = dirf[i].num /\ dirf' = dirf
    BY <2>3 DEF Begun
  <2>5. WellFormed(dirf)
    BY <1>1 DEF FsInv
  <2>6. op'.old \notin NumsOf(dirh'.ents)
    BY <2>3, <2>4, <2>5 DEF NumsOf, Beside, WellFormed
  <2>7. BeginsAt(u, i)
    BY <2>2, <2>3 DEF BeginsAt
  <2>8. pc' = [pc EXCEPT ![u] = "deleting"] /\ pc'[u] = "deleting" /\ "deleting" \in OpPcs
    BY <1>3, ActorFacts, PcFacts DEF Goto
  <2>9. Tracked(u)'
    BY <2>8, NoClaim DEF Claims
  <2> QED BY <1>1, <1>2, <2>1, <2>4, <2>6, <2>7, <2>8, <2>9, BeginTrack
<1>4. CASE ree_fs_remove_fails /\ Goto(u, "close")
  <2>1. UNCHANGED <<dirf, file, op>> /\ op = NoOp
    BY <1>4 DEF ree_fs_remove_fails, Refused, Usable, Unlocked
  <2>2. pc' = [pc EXCEPT ![u] = "close"] /\ pc'[u] = "close"
    BY <1>4, ActorFacts DEF Goto
  <2>3. Tracked(u)' /\ obj' = [obj EXCEPT ![u] = obj[u]]
    BY <1>1, <2>2, NoClaim, ActorFacts DEF Claims
  <2> QED BY <1>1, <1>2, <2>1, <2>2, <2>3, ThreadTrack
<1> QED BY <1>3, <1>4 DEF syscall_storage_obj_del

LEMMA DelEndTrack ==
  ASSUME PInv, TrackInv, UNCHANGED mishaps, NEW u \in Threads, del_end(u)
  PROVE  TrackInv'
<1>1. /\ pc[u] = "deleting" /\ UNCHANGED <<obj, pobj, dst, dirf>> /\ op' = NoOp /\ op.pc = "end"
      /\ pc' = [pc EXCEPT ![u] = "close"] /\ SInv /\ CallInv
      /\ IF op.res = "ok" THEN Unlink(op.old) ELSE UNCHANGED file
  BY ActorFacts DEF del_end, ree_fs_remove_end, Goto, Returns
<1>2. op # NoOp /\ op.by = u
  BY <1>1, PcFacts, ReturnsLemma
<1>3. \A t \in Threads : t # u /\ Claims(t) => file'[ClaimFh(t).num] = file[ClaimFh(t).num]
  BY <1>1, <1>2, EndFiles
<1>4. pc'[u] = "close" /\ \A t \in Threads : t # u => obj'[t] = obj[t] /\ pc'[t] = pc[t]
  BY <1>1 DEF CallInv
<1>5. Tracked(u)' /\ Alone(u)'
  BY <1>1, <1>4, NoClaim DEF Claims, TrackInv, Alone
<1> QED BY <1>1, <1>2, <1>3, <1>4, <1>5, EndTrack

LEMMA CloseTrack ==
  ASSUME PInv, TrackInv, UNCHANGED mishaps, NEW u \in Threads, tee_obj_close(u)
  PROVE  TrackInv'
<1> DEFINE x == [obj[u] EXCEPT !.fh = NoHandle]
<1>1. /\ obj[u] # NoObj /\ pc[u] \in {"idle", "close"} /\ SetHandle(u, NoHandle)
      /\ pc' = [pc EXCEPT ![u] = "release"] /\ UNCHANGED <<pobj, dst, dirf, file, op>>
      /\ op # NoOp => dirh' = dirh
  BY DEF tee_obj_close, Idle, Goto, Stay, fsvars, ree_fs_close, OnlyMemory, Unlocked
<1>2. pc[u] \notin OpPcs /\ pc'[u] = "release" /\ obj[u] \in Object
  BY <1>1, PcFacts, ActorFacts
<1>3. obj' = [obj EXCEPT ![u] = x] /\ x.flags = obj[u].flags
  <2>1. x.flags = obj[u].flags
    BY <1>2 DEF Object
  <2>2. SInv
    BY ActorFacts
  <2>3. obj' = [obj EXCEPT ![u] = x]
    BY <1>1, <2>2, ThreadFacts
  <2> QED BY <2>1, <2>3
<1> HIDE DEF x
<1>4. Tracked(u)'
  BY <1>2, NoClaim DEF Claims
<1> QED BY <1>1, <1>2, <1>3, <1>4, ThreadTrack

-----------------------------------------------------------------------------
(* Steps of the thread u that change tee_pobjs.                            *)
LEMMA PobjTrack ==
  ASSUME PInv, TrackInv, UNCHANGED mishaps,
         NEW u \in Threads, UNCHANGED fsvars, pc[u] \notin OpPcs,
         \A t \in Threads : t # u => /\ obj'[t] = obj[t] /\ pc'[t] = pc[t] /\ dst'[t] = dst[t]
                                     /\ Untouched(t),
         Alone(u)', Tracked(u)', Reserved(u)'
  PROVE  TrackInv'
<1>1. UNCHANGED <<dirf, op, file, dirh>> /\ CallInv
  BY ActorFacts DEF fsvars
<1>2. op # NoOp => dirh' = dirh /\ op.by \notin {u} /\ op.by \in Threads
  BY <1>1 DEF CallInv, ThreadOK, OpPcs
<1>3. {u} \in SUBSET Threads
  OBVIOUS
<1>4. \A t \in Threads \ {u} : /\ Untouched(t)
                               /\ Claims(t) => file'[ClaimFh(t).num] = file[ClaimFh(t).num]
  BY <1>1
<1>5. \A t \in {u} : Alone(t)' /\ Tracked(t)' /\ Reserved(t)'
  OBVIOUS
<1> QED BY <1>1, <1>2, <1>3, <1>4, <1>5, QuietTrack

LEMMA UntouchedLemma ==
  ASSUME PInv, PobjInv', NEW t \in Threads, obj'[t] = obj[t], pc'[t] = pc[t], dst'[t] = dst[t],
         \A q \in InUse : q \in InUse' => pobj'[q].name = pobj[q].name
  PROVE  Untouched(t)
<1>1. PobjInv /\ RenameOK(t) /\ RenameOK(t)'
  BY DEF PInv, PobjInv
<1>2. obj[t] # NoObj => obj[t].po \in InUse /\ obj[t].po \in InUse'
  BY <1>1 DEF PobjInv
<1>3. dst[t] # 0 => dst[t] \in InUse /\ dst[t] \in InUse'
  BY <1>1 DEF RenameOK
<1> QED BY <1>2, <1>3 DEF Untouched

LEMMA ReleaseTrack ==
  ASSUME PInv, TrackInv, UNCHANGED mishaps, NEW u \in Threads, obj_release(u)
  PROVE  TrackInv'
<1>1. /\ pc[u] = "release" /\ obj' = [obj EXCEPT ![u] = NoObj] /\ UNCHANGED <<dst, fsvars>>
      /\ pc' = [pc EXCEPT ![u] = "idle"] /\ tee_pobj_release(obj[u].po)
      /\ SInv /\ CallInv /\ PobjInv
  BY ActorFacts DEF obj_release, Goto, Stay
<1>2. PobjInv' /\ obj[u] # NoObj /\ pc[u] \notin OpPcs
  BY <1>1, ReleasePobj, PcFacts, ActorFacts DEF ThreadOK
<1>3. PICK p \in InUse : p = obj[u].po
  BY <1>1, <1>2 DEF PobjInv
<1>4. \A q \in InUse : q \in InUse' => pobj'[q].name = pobj[q].name
  <2>1. \A q \in Pobjs : q # p => pobj'[q] = pobj[q]
    BY <1>1, <1>3, ReleaseLemma
  <2>2. pobj[p].refcnt = 1 => InUse' = InUse \ {p}
    BY <1>1, <1>3, ReleaseLemma
  <2>3. pobj[p].refcnt # 1 => pobj'[p].name = pobj[p].name
    BY <1>1, <1>3, ReleaseLemma
  <2> QED BY <2>1, <2>2, <2>3 DEF InUse
<1>5. /\ obj'[u] = NoObj /\ pc'[u] = "idle"
      /\ \A t \in Threads : t # u => obj'[t] = obj[t] /\ pc'[t] = pc[t] /\ dst'[t] = dst[t]
  BY <1>1 DEF CallInv
<1>6. \A t \in Threads : t # u => Untouched(t)
  BY <1>2, <1>4, <1>5, UntouchedLemma
<1>7. Alone(u)' /\ Tracked(u)' /\ Reserved(u)'
  BY <1>5, NoClaim DEF Claims, Alone, Reserved
<1> QED BY <1>1, <1>2, <1>5, <1>6, <1>7, PobjTrack

(* To get an entry changes the name of none that is in use.                *)
LEMMA GetNames ==
  ASSUME CallInv, PobjInv, NEW u \in Threads, obj[u] = NoObj, NEW n \in Names,
         NEW flags \in SUBSET Flags, NEW b \in BOOLEAN, NEW p \in Pobjs,
         tee_pobj_get(n, flags, b, p)
  PROVE  \A q \in InUse : q \in InUse' => pobj'[q].name = pobj[q].name
<1>1. obj[u] = NoObj \/ dst[u] = 0
  OBVIOUS
<1>2. /\ pobj' \in [Pobjs -> Pobj \cup {NoPobj}] /\ p \in InUse' /\ InUse' = InUse \cup {p}
      /\ \A q \in Pobjs : q # p => pobj'[q] = pobj[q]
      /\ \/ /\ p \in InUse /\ tee_pobj_check_access(pobj[p].flags, flags)
            /\ pobj'[p].flags = pobj[p].flags /\ pobj'[p].name = pobj[p].name
            /\ pobj'[p].refcnt = pobj[p].refcnt + 1
         \/ /\ p \notin InUse /\ pobj'[p].flags = flags /\ pobj'[p].refcnt = 1
            /\ pobj'[p].name = n /\ \A q \in InUse : pobj[q].name # n
  BY <1>1, GetsLemma
<1>3. p \in InUse => pobj'[p].name = pobj[p].name
  BY <1>2
<1> QED BY <1>2, <1>3 DEF InUse

LEMMA GetTrack ==
  ASSUME PInv, TrackInv, UNCHANGED mishaps,
         Unshared, NEW u \in Threads, NEW n \in Names, NEW flags \in FlagSets,
         NEW l \in {"open", "create"}, obj_get(u, n, flags, l)
  PROVE  TrackInv'
<1>1. /\ pc[u] = "idle" /\ obj[u] = NoObj /\ UNCHANGED <<dst, fsvars>> /\ pc' = [pc EXCEPT ![u] = l]
      /\ SInv /\ CallInv /\ PobjInv
  BY ActorFacts DEF obj_get, Idle, Goto, Stay
<1>2. PICK b \in BOOLEAN, p \in Pobjs :
        /\ tee_pobj_get(n, flags, b, p)
        /\ obj' = [obj EXCEPT ![u] = [flags |-> flags, po |-> p, fh |-> NoHandle]]
  BY DEF obj_get
<1>3. PobjInv' /\ flags \in SUBSET Flags /\ pc[u] \notin OpPcs
  BY <1>1, GetPobj, FlagsAssumption, PcFacts
<1>4. \A q \in InUse : q \in InUse' => pobj'[q].name = pobj[q].name
  BY <1>1, <1>2, <1>3, GetNames
<1>5. /\ obj'[u].flags = flags /\ pc'[u] = l
      /\ \A t \in Threads : t # u => obj'[t] = obj[t] /\ pc'[t] = pc[t] /\ dst'[t] = dst[t]
  BY <1>1, <1>2 DEF CallInv
<1>6. \A t \in Threads : t # u => Untouched(t)
  BY <1>3, <1>4, <1>5, UntouchedLemma
<1>7. Alone(u)' /\ Tracked(u)' /\ Reserved(u)'
  BY <1>5, NoClaim DEF Claims, Alone, Reserved, Unshared
<1> QED BY <1>1, <1>3, <1>5, <1>6, <1>7, PobjTrack

LEMMA ReserveTrack ==
  ASSUME PInv, TrackInv, UNCHANGED mishaps, NEW u \in Threads, NEW m \in Names,
         syscall_storage_obj_rename(u, m)
  PROVE  TrackInv'
<1>1. /\ Use(u, "META") /\ UNCHANGED <<obj, fsvars>> /\ pc' = [pc EXCEPT ![u] = "rename"]
      /\ "taken" \notin mishaps => tee_fs_dirfile_find(dirf, m) = 0
      /\ SInv /\ CallInv /\ PobjInv /\ FsInv /\ RenameOK(u)
  BY ActorFacts DEF syscall_storage_obj_rename, Goto, Stay
<1>2. PICK F \in {{"META"}}, b \in BOOLEAN, p \in Pobjs :
        tee_pobj_get(m, F, b, p) /\ dst' = [dst EXCEPT ![u] = p]
  <2>1. \E p \in Pobjs : tee_pobj_get(m, {"META"}, FALSE, p) /\ dst' = [dst EXCEPT ![u] = p]
    BY DEF syscall_storage_obj_rename
  <2> QED BY <2>1, Zenon
<1>3. /\ PobjInv' /\ pc[u] = "idle" /\ pc[u] \notin OpPcs /\ dst[u] = 0 /\ obj[u] # NoObj
  BY <1>1, ReservePobj, PcFacts, UseLemma DEF RenameOK, Renaming
<1>4. /\ \A q \in Pobjs : q # p => pobj'[q] = pobj[q]
      /\ p \notin InUse /\ pobj'[p].name = m /\ \A q \in InUse : pobj[q].name # m
  <2>1. F \in SUBSET Flags /\ "META" \in F
    BY DEF Flags
  <2> QED BY <1>1, <1>2, <1>3, <2>1, ReserveLemma
<1>5. \A q \in InUse : q \in InUse' => pobj'[q].name = pobj[q].name
  BY <1>4 DEF InUse
<1>6. /\ dst'[u] = p /\ pc'[u] = "rename"
      /\ \A t \in Threads : t # u => obj'[t] = obj[t] /\ pc'[t] = pc[t] /\ dst'[t] = dst[t]
  BY <1>1, <1>2 DEF CallInv, PobjInv
<1>7. \A t \in Threads : t # u => Untouched(t)
  BY <1>3, <1>5, <1>6, UntouchedLemma
<1>8. Alone(u)'
  BY <1>1 DEF TrackInv, Alone
<1>9. Tracked(u)'
  <2>1. NameOf(u)' = NameOf(u)
    BY <1>1, <1>3, <1>4 DEF NameOf, PobjInv, InUse
  <2>2. Claims(u)' => Claims(u) /\ ClaimFh(u)' = ClaimFh(u) /\ ClaimName(u)' = ClaimName(u)
    BY <1>1, <1>3, <1>6, <2>1 DEF Claims, ClaimFh, ClaimName
  <2> QED BY <1>1, <2>2, SameClaim DEF fsvars
<1>10. "taken" \notin mishaps => NoName(dirf, m)
  BY <1>1, FindLemma DEF FsInv, NoName
<1>11. op # NoOp /\ "taken" \notin mishaps => NoName(dirh.ents, m)
  <2> SUFFICES ASSUME op # NoOp, "taken" \notin mishaps, NEW i \in Live(dirh.ents), dirh.ents[i].name = m PROVE FALSE
    BY DEF NoName
  <2>1. PICK w \in Threads : w = op.by
    BY <1>1 DEF CallInv
  <2>2. ThreadOK(w) /\ RenameOK(w)
    BY ActorFacts
  <2>3. obj[w] # NoObj
    BY <2>1, <2>2, PcFacts DEF ThreadOK, OpPcs
  <2>4. obj[w].po \in InUse /\ (dst[w] # 0 => dst[w] \in InUse)
    BY <1>1, <2>2, <2>3 DEF PobjInv, RenameOK
  <2>5. m = NameOf(w) \/ (dst[w] # 0 /\ m = pobj[dst[w]].name)
    BY <1>10, <2>1 DEF TrackInv, Adds
  <2> QED BY <1>4, <2>4, <2>5 DEF NameOf
<1>12. Reserved(u)'
  BY <1>1, <1>4, <1>6, <1>10, <1>11 DEF Reserved, fsvars
<1> QED BY <1>1, <1>3, <1>6, <1>7, <1>8, <1>9, <1>12, PobjTrack

LEMMA MoveTrack ==
  ASSUME PInv, TrackInv, UNCHANGED mishaps, NEW u \in Threads, rename_move(u), Calm
  PROVE  TrackInv'
<1>1. PICK m : m = pobj[dst[u]].name
  OBVIOUS
<1>2. /\ pc[u] = "rename" /\ UNCHANGED <<pobj, obj, dst>> /\ SInv /\ FsInv /\ NamesKnown
      /\ \/ ree_fs_rename(u, NameOf(u), m) /\ Goto(u, "renaming")
         \/ /\ ree_fs_rename_fails
            /\ \/ Goto(u, "rename_failed")
               \/ /\ ree_fs_rename_refuses(NameOf(u), m) \/ "rename" \in mishaps
                  /\ Goto(u, "renamed")
  BY <1>1, ActorFacts DEF rename_move
<1>3. obj[u] # NoObj /\ pc[u] \notin OpPcs /\ m \in Names /\ NameOf(u) \in Names
  <2>1. ThreadOK(u)
    BY ActorFacts
  <2> QED BY <1>1, <1>2, <2>1, PcFacts DEF NamesKnown, ThreadOK
<1>4. "taken" \notin mishaps => NoName(dirf, m)
  BY <1>1, <1>2 DEF TrackInv, Reserved
<1>5. CASE ree_fs_rename(u, NameOf(u), m) /\ Goto(u, "renaming")
  <2>1. op = NoOp /\ op' # NoOp /\ op'.by = u /\ op'.kind = "rename" /\ Renamed(u, NameOf(u), m)
    BY <1>2, <1>3, <1>5, RenameLemma
  <2>2. PICK n : n = NameOf(u)
    OBVIOUS
  <2>3. PICK i \in Live(dirf) :
          /\ dirf[i].name = n /\ NoName(dirf, m) /\ UNCHANGED file
          /\ Beside(dirf, dirh'.ents, i)
          /\ i \in Live(dirh'.ents) /\ dirh'.ents[i] = [dirf[i] EXCEPT !.name = m]
          /\ Begun(u, "rename", n, m, Closed, NoNum)
    BY <2>1, <2>2 DEF Renamed
  <2>4. PICK e : e = dirh'.ents
    OBVIOUS
  <2>5. op'.old = NoNum /\ dirf' = dirf
    BY <2>3 DEF Begun
  <2>6. WellFormed(dirf) /\ dirf[i] \in Entry
    BY <1>2, DirType DEF FsInv
  <2>7. e[i].name = m /\ e[i].num = dirf[i].num /\ e[i].hash = dirf[i].hash /\ i \in Live(e)
    BY <2>3, <2>4, <2>6 DEF Entry
  <2>8. BeginsAt(u, i)
    BY <1>1, <1>2, <2>2, <2>3, <2>4, <2>7 DEF BeginsAt
  <2>9. pc' = [pc EXCEPT ![u] = "renaming"] /\ pc'[u] = "renaming" /\ "renaming" \in OpPcs
    BY <1>5, ActorFacts, PcFacts DEF Goto
  <2>10. Tracked(u)'
    <3> SUFFICES ASSUME Claims(u)' PROVE Good(e, file', ClaimFh(u)', ClaimName(u)')
      BY <2>1, <2>4 DEF Tracked
    <3>1. Claims(u)
      BY <1>2, <2>9 DEF Claims
    <3>2. PICK f : f = obj[u].fh
      OBVIOUS
    <3>3. Good(dirf, file, f, n)
      BY <1>2, <2>1, <2>2, <3>1, <3>2, ClaimFacts DEF ClaimName
    <3>4. f.idx = i
      BY <2>3, <2>6, <3>3 DEF Good, WellFormed
    <3>5. Good(e, file', f, m)
      BY <2>3, <2>7, <3>3, <3>4 DEF Good
    <3>6. ClaimFh(u)' = f /\ ClaimName(u)' = m
      BY <1>1, <1>2, <2>9, <3>2 DEF ClaimFh, ClaimName
    <3> QED BY <3>5, <3>6
  <2> QED BY <1>2, <1>3, <2>1, <2>5, <2>8, <2>9, <2>10, BeginTrack
<1>6. CASE /\ ree_fs_rename_fails
           /\ \/ Goto(u, "rename_failed")
              \/ /\ ree_fs_rename_refuses(NameOf(u), m) \/ "rename" \in mishaps
                 /\ Goto(u, "renamed")
  <2>1. /\ op = NoOp /\ UNCHANGED <<dirf, file, op>>
        /\ "taken" \notin mishaps /\ "rename" \notin mishaps
    BY <1>6 DEF ree_fs_rename_fails, Usable, Unlocked, Refused, Fails, Calm, Tame
  <2>2. PICK l \in {"rename_failed", "renamed"} :
          /\ pc' = [pc EXCEPT ![u] = l]
          /\ l = "renamed" => ree_fs_rename_refuses(NameOf(u), m)
    BY <1>6, <2>1 DEF Goto
  <2>3. pc'[u] = l /\ obj' = [obj EXCEPT ![u] = obj[u]]
    BY <1>2, <2>2, ActorFacts
  <2>4. ~Claims(u)'
    <3> SUFFICES ASSUME Claims(u)' PROVE FALSE
      OBVIOUS
    <3>1. Claims(u) /\ l = "renamed"
      BY <1>2, <2>3 DEF Claims
    <3>2. get_dirh.ents = dirf /\ WellFormed(dirf)
      BY <1>2, <2>1, GetDirh DEF FsInv
    <3>3. PICK i, j : i = tee_fs_dirfile_find(dirf, m) /\ j = tee_fs_dirfile_find(dirf, NameOf(u))
      OBVIOUS
    <3>4. i # 0 \/ j = 0
      BY <2>2, <3>1, <3>2, <3>3 DEF ree_fs_rename_refuses
    <3>5. i = 0
      BY <1>4, <2>1, <3>2, <3>3, FindLemma DEF NoName
    <3>6. PICK f, n : f = obj[u].fh /\ n = NameOf(u)
      OBVIOUS
    <3>7. Good(dirf, file, f, n)
      BY <1>2, <2>1, <3>1, <3>6, ClaimFacts DEF ClaimName
    <3>8. j # 0
      BY <3>2, <3>3, <3>6, <3>7, FindLemma DEF Good
    <3> QED BY <3>4, <3>5, <3>8
  <2>5. Tracked(u)'
    BY <2>4, NoClaim
  <2> QED BY <1>2, <1>3, <2>1, <2>2, <2>3, <2>5, ThreadTrack
<1> QED BY <1>2, <1>5, <1>6

LEMMA RenameEndTrack ==
  ASSUME PInv, TrackInv, UNCHANGED mishaps, NEW u \in Threads, rename_end(u), Calm
  PROVE  TrackInv'
<1>1. /\ pc[u] = "renaming" /\ UNCHANGED <<obj, pobj, dst, dirf, file>> /\ op' = NoOp /\ op.pc = "end"
      /\ SInv /\ CallInv
  BY ActorFacts DEF rename_end, ree_fs_rename_end, Returns
<1>2. op # NoOp /\ op.by = u /\ OpOK /\ op.res \in {"ok", "error"}
  BY <1>1, PcFacts, ReturnsLemma
<1>6. op.res = "error" => "rename" \notin mishaps
  BY DEF rename_end, ree_fs_rename_end, Returns, Calm, Tame
<1>7. pc' = [pc EXCEPT ![u] = IF op.res = "error" THEN "rename_failed" ELSE "renamed"]
  BY <1>2, <1>6 DEF rename_end, Goto
<1>3. /\ pc'[u] = IF op.res = "error" THEN "rename_failed" ELSE "renamed"
      /\ \A t \in Threads : t # u => obj'[t] = obj[t] /\ pc'[t] = pc[t]
  BY <1>1, <1>7 DEF CallInv
<1>4. Alone(u)'
  BY <1>1 DEF TrackInv, Alone
<1>5. Tracked(u)'
  <2> SUFFICES ASSUME Claims(u)' PROVE Good(dirf', file', ClaimFh(u)', ClaimName(u)')
    BY <1>1 DEF Tracked
  <2>1. op.res = "ok" /\ Claims(u) /\ pc'[u] = "renamed"
    BY <1>1, <1>2, <1>3 DEF Claims
  <2>2. PICK f, n : f = ClaimFh(u) /\ n = ClaimName(u)
    OBVIOUS
  <2>3. Good(dirh.ents, file, f, n) /\ dirf = dirh.ents
    BY <1>1, <1>2, <2>1, <2>2 DEF TrackInv, Tracked, OpOK
  <2>4. ClaimFh(u)' = f /\ ClaimName(u)' = n
    BY <1>1, <2>1, <2>2 DEF ClaimFh, ClaimName
  <2> QED BY <1>1, <2>3, <2>4
<1> QED BY <1>1, <1>2, <1>3, <1>4, <1>5, EndTrack

(* The object of a thread that has the right to rename it is its own.      *)
LEMMA OnlyUser ==
  ASSUME PInv, NEW u \in Threads, obj[u] # NoObj, "META" \in obj[u].flags
  PROVE  /\ Users(obj[u].po) = {u} /\ Reservers(obj[u].po) = {} /\ pobj[obj[u].po].refcnt = 1
<1>1. PobjInv /\ obj[u].po \in InUse
  BY DEF PInv, PobjInv
<1>2. PICK p : p = obj[u].po
  OBVIOUS
<1>3. Users(p) = {u}
  <2>1. ASSUME NEW t \in Threads, t # u, obj[t] # NoObj, obj[t].po = p PROVE FALSE
    <3>1. tee_pobj_check_access(obj[t].flags, obj[u].flags)
      BY <1>1, <1>2, <2>1 DEF PobjInv
    <3> QED BY <3>1, NoMeta
  <2> QED BY <1>2, <2>1 DEF Users
<1>4. Reservers(p) = {}
  <2>1. ASSUME NEW t \in Threads, dst[t] = p PROVE FALSE
    <3>1. RenameOK(t) /\ p # 0
      BY <1>1, <1>2 DEF PobjInv, InUse, Pobjs
    <3> QED BY <1>3, <2>1, <3>1 DEF RenameOK
  <2> QED BY <2>1 DEF Reservers
<1>5. Cardinality({}) = 0 /\ Cardinality({u}) = 1
  BY RefLemma
<1>6. pobj[p].refcnt = Cardinality(Users(p)) + Cardinality(Reservers(p))
  BY <1>1, <1>2 DEF PobjInv
<1> QED BY <1>2, <1>3, <1>4, <1>5, <1>6

LEMMA RenamePobjTrack ==
  ASSUME PInv, TrackInv, UNCHANGED mishaps, NEW u \in Threads, rename_pobj(u)
  PROVE  TrackInv'
<1>1. /\ pc[u] = "renamed" /\ UNCHANGED <<obj, dst, fsvars>> /\ pc' = [pc EXCEPT ![u] = "unreserve"]
      /\ tee_pobj_rename(obj[u].po, pobj[dst[u]].name)
      /\ CallInv /\ PobjInv /\ ThreadOK(u) /\ RenameOK(u)
  BY ActorFacts DEF rename_pobj, Goto, Stay
<1>2. obj[u] # NoObj /\ dst[u] # 0 /\ "META" \in obj[u].flags /\ pc[u] \notin OpPcs
  BY <1>1, PcFacts DEF ThreadOK, RenameOK, Renaming
<1>3. PICK p, m : p = obj[u].po /\ m = pobj[dst[u]].name
  OBVIOUS
<1>4. Users(p) = {u} /\ Reservers(p) = {} /\ pobj[p].refcnt = 1
  BY <1>2, <1>3, OnlyUser
<1>5. p \in Pobjs /\ pobj \in [Pobjs -> Pobj \cup {NoPobj}] /\ pobj[p] \in Pobj
  BY <1>1, <1>2, <1>3 DEF PobjInv, InUse
<1>6. pobj'[p].name = m /\ \A q \in Pobjs : q # p => pobj'[q] = pobj[q]
  BY <1>1, <1>3, <1>4, <1>5 DEF tee_pobj_rename, Pobj
<1>7. /\ pc'[u] = "unreserve"
      /\ \A t \in Threads : t # u => obj'[t] = obj[t] /\ pc'[t] = pc[t] /\ dst'[t] = dst[t]
  BY <1>1 DEF CallInv
<1>8. ASSUME NEW t \in Threads, t # u PROVE Untouched(t)
  <2>1. RenameOK(t) /\ (obj[t] # NoObj => obj[t].po \in Pobjs /\ obj[t].po # p)
    BY <1>1, <1>4, <1>8 DEF PobjInv, InUse, Users
  <2>2. dst[t] # 0 => dst[t] \in Pobjs /\ dst[t] # p
    BY <1>4, <2>1 DEF RenameOK, Reservers, InUse
  <2> QED BY <1>6, <1>7, <1>8, <2>1, <2>2 DEF Untouched
<1>9. Alone(u)' /\ Reserved(u)'
  BY <1>1, <1>7 DEF TrackInv, Alone, Reserved
<1>10. Tracked(u)'
  <2>1. NameOf(u)' = m
    BY <1>1, <1>3, <1>6 DEF NameOf
  <2>2. Claims(u)' => Claims(u) /\ ClaimFh(u)' = ClaimFh(u) /\ ClaimName(u)' = ClaimName(u)
    BY <1>1, <1>3, <1>7, <2>1 DEF Claims, ClaimFh, ClaimName
  <2> QED BY <1>1, <2>2, SameClaim DEF fsvars
<1> QED BY <1>1, <1>2, <1>7, <1>8, <1>9, <1>10, PobjTrack

LEMMA UnreserveTrack ==
  ASSUME PInv, TrackInv, UNCHANGED mishaps, NEW u \in Threads, rename_unreserve(u)
  PROVE  TrackInv'
<1>1. /\ pc[u] \in {"unreserve", "rename_failed"} /\ pc' = [pc EXCEPT ![u] = "idle"]
      /\ tee_pobj_release(dst[u]) /\ dst' = [dst EXCEPT ![u] = 0] /\ UNCHANGED fsvars
      /\ IF pc[u] = "unreserve" THEN UNCHANGED obj ELSE Spoil(u)
      /\ SInv /\ CallInv /\ PobjInv /\ RenameOK(u)
  BY ActorFacts DEF rename_unreserve, Goto, Stay
<1>2. /\ PobjInv' /\ obj[u] # NoObj /\ dst[u] \in InUse /\ obj[u].fh \in FileHandle
      /\ pc[u] \notin OpPcs /\ Users(dst[u]) = {}
  <2>1. pc[u] \in Renaming
    BY <1>1 DEF Renaming
  <2> QED BY <1>1, <2>1, UnreservePobj, RenamingLemma, PcFacts DEF RenameOK
<1>3. PICK p \in InUse : p = dst[u]
  BY <1>2
<1>4. \A q \in Pobjs : q # p => pobj'[q] = pobj[q]
  BY <1>1, <1>3, ReleaseLemma
<1>5. PICK x : /\ obj' = [obj EXCEPT ![u] = x] /\ x.flags = obj[u].flags /\ x.po = obj[u].po
               /\ pc[u] = "unreserve" => x = obj[u]
               /\ pc[u] # "unreserve" => x.fh.bad
  <2>1. CASE pc[u] = "unreserve"
    BY <1>1, <2>1, ActorFacts
  <2>2. CASE pc[u] # "unreserve"
    BY <1>1, <1>2, <2>2, SpoilFacts
  <2> QED BY <2>1, <2>2
<1>6. /\ dst'[u] = 0 /\ pc'[u] = "idle" /\ obj'[u] = x
      /\ \A t \in Threads : t # u => obj'[t] = obj[t] /\ pc'[t] = pc[t] /\ dst'[t] = dst[t]
  BY <1>1, <1>5 DEF CallInv, PobjInv
<1>7. ASSUME NEW t \in Threads, t # u PROVE Untouched(t)
  <2>1. RenameOK(t) /\ RenameOK(u) /\ (obj[t] # NoObj => obj[t].po \in Pobjs /\ obj[t].po # p)
    BY <1>1, <1>2, <1>3 DEF PobjInv, InUse, Users
  <2>2. dst[t] # 0 => dst[t] \in Pobjs /\ dst[t] # p
    BY <1>3, <1>7, <2>1 DEF RenameOK, Reservers, InUse
  <2> QED BY <1>4, <1>6, <1>7, <2>1, <2>2 DEF Untouched
<1>8. Alone(u)' /\ Reserved(u)'
  BY <1>2, <1>5, <1>6 DEF TrackInv, Alone, Reserved
<1>9. Tracked(u)'
  <2>1. obj[u].po \in Pobjs /\ obj[u].po # p
    BY <1>1, <1>2, <1>3 DEF PobjInv, InUse, Users
  <2>2. NameOf(u)' = NameOf(u)
    BY <1>4, <1>5, <1>6, <2>1 DEF NameOf
  <2>3. Claims(u)' => Claims(u) /\ ClaimFh(u)' = ClaimFh(u) /\ ClaimName(u)' = ClaimName(u)
    BY <1>1, <1>2, <1>5, <1>6, <2>2 DEF Claims, ClaimFh, ClaimName
  <2> QED BY <1>1, <2>3, SameClaim DEF fsvars
<1> QED BY <1>1, <1>2, <1>6, <1>7, <1>8, <1>9, PobjTrack

-----------------------------------------------------------------------------
(* Steps of no thread.                                                     *)
LEMMA NobodyTrack ==
  ASSUME PInv, TrackInv, UNCHANGED mishaps,
         UNCHANGED <<dirf, file, op, pobj, obj, dst>>, op # NoOp => dirh' = dirh,
         \A t \in Threads : pc'[t] = pc[t]
  PROVE  TrackInv'
<1>1. {} \in SUBSET Threads /\ \A t \in {} : Alone(t)' /\ Tracked(t)' /\ Reserved(t)'
  OBVIOUS
<1>2. \A t \in Threads \ {} : /\ Untouched(t)
                              /\ Claims(t) => file'[ClaimFh(t).num] = file[ClaimFh(t).num]
  BY DEF Untouched
<1>3. op # NoOp => op.by \notin {} /\ op.by \in Threads
  BY DEF PInv, SInv, CallInv
<1> QED BY <1>1, <1>2, <1>3, QuietTrack

LEMMA EnumTrack ==
  ASSUME PInv, TrackInv, UNCHANGED mishaps, NEW e \in Enums,
         \/ syscall_storage_start_enum(e) \/ syscall_storage_next_enum(e)
         \/ enum_read_head(e) \/ syscall_storage_reset_enum(e)
  PROVE  TrackInv'
<1>1. /\ UNCHANGED <<pobj, obj, dst>>
      /\ pc' = pc \/ \E l \in {"idle", "peek"} : pc' = [pc EXCEPT ![e] = l]
  BY DEF syscall_storage_start_enum, syscall_storage_next_enum, enum_read_head,
     syscall_storage_reset_enum, Goto
<1>2. \A t \in Threads : pc'[t] = pc[t]
  BY <1>1, SetsAssumption DEF PInv, SInv, CallInv
<1>3. OnlyMemory /\ (op # NoOp => dirh' = dirh)
  BY DEF syscall_storage_start_enum, syscall_storage_next_enum, enum_read_head,
     syscall_storage_reset_enum, ree_fs_opendir, ree_fs_opendir_fails, ree_fs_readdir,
     ree_fs_readdir_ends, ree_fs_open_close, ree_fs_open_fails, ree_fs_closedir, Stay, fsvars,
     Usable, Unlocked, OnlyMemory
<1> QED BY <1>1, <1>2, <1>3, NobodyTrack DEF OnlyMemory

(* There are no claims when nothing is open.                               *)
LEMMA NothingTrack ==
  ASSUME NothingOpen, op = NoOp
  PROVE  TrackInv
<1>1. \A t \in Threads : obj[t] = NoObj /\ pc[t] = "idle"
  BY DEF NothingOpen
<1> QED BY <1>1 DEF TrackInv, Adds, Alone, Tracked, Reserved, Claims

LEMMA ResetTrack ==
  ASSUME NothingOpen', op' = NoOp
  PROVE  TrackInv'
<1>1. \A t \in Threads : obj'[t] = NoObj /\ pc'[t] = "idle"
  BY DEF NothingOpen
<1> QED BY <1>1 DEF TrackInv, Adds, Alone, Tracked, Reserved, Claims

LEMMA NextTrack ==
  ASSUME PInv, TrackInv, UNCHANGED mishaps, Unshared, Calm, [Next]_vars
  PROVE  TrackInv'
<1>1. ASSUME Reset, FsReset PROVE TrackInv'
  <2>1. NothingOpen' /\ op' = NoOp
    BY <1>1 DEF Reset, NothingOpen, FsReset
  <2> QED BY <2>1, ResetTrack
<1>2. CASE crash
  BY <1>1, <1>2 DEF crash, FsCrash
<1>3. CASE ree_fs
  BY <1>3, ReeFsTrack
<1>4. CASE UNCHANGED vars
  BY <1>4, NobodyTrack DEF vars, fsvars, svars
<1>5. ASSUME NEW t \in Threads, NEW n \in Names, NEW f \in FlagSets,
             syscall_storage_obj_open(t, n, f) \/ syscall_storage_obj_create(t, n, f)
      PROVE  TrackInv'
  BY <1>5, GetTrack DEF syscall_storage_obj_open, syscall_storage_obj_create
<1>6. ASSUME NEW t \in Threads,
             \/ read_head(t) \/ init_file(t) \/ init_file_end(t)
             \/ syscall_storage_obj_read_fails(t)
             \/ syscall_storage_obj_write(t) \/ write_end(t)
             \/ syscall_storage_obj_trunc(t)
      PROVE  TrackInv'
  BY <1>6, ReadHeadTrack, InitFileTrack, InitFileEndTrack, ReadFailsTrack, WriteTrack,
     WriteEndTrack, TruncTrack
<1>7. ASSUME NEW t \in Threads,
             \/ syscall_storage_obj_del(t) \/ del_end(t)
             \/ tee_obj_close(t) \/ obj_release(t)
      PROVE  TrackInv'
  BY <1>7, DelTrack, DelEndTrack, CloseTrack, ReleaseTrack
<1>8. ASSUME NEW t \in Threads,
             \/ \E m \in Names : syscall_storage_obj_rename(t, m)
             \/ rename_move(t) \/ rename_end(t) \/ rename_pobj(t) \/ rename_unreserve(t)
      PROVE  TrackInv'
  BY <1>8, ReserveTrack, MoveTrack, RenameEndTrack, RenamePobjTrack, UnreserveTrack
<1>9. ASSUME NEW t \in Threads, object_aborts(t)
      PROVE  TrackInv'
  BY <1>1, <1>9 DEF object_aborts, Abort
<1>10. ASSUME NEW e \in Enums,
             \/ syscall_storage_start_enum(e) \/ syscall_storage_next_enum(e)
             \/ enum_read_head(e) \/ syscall_storage_reset_enum(e)
       PROVE  TrackInv'
  BY <1>10, EnumTrack
<1>11. ASSUME NEW e \in Enums, enum_aborts(e)
       PROVE  TrackInv'
  BY <1>1, <1>11 DEF enum_aborts, Abort
<1> QED BY <1>2, <1>3, <1>4, <1>5, <1>6, <1>7, <1>8, <1>9, <1>10, <1>11 DEF Next

(* Which mishaps may happen is never changed.                              *)
LEMMA MishapsStay ==
  ASSUME [Next]_vars
  PROVE  UNCHANGED mishaps
<1>1. CASE crash \/ ree_fs \/ UNCHANGED vars
  BY <1>1 DEF crash, ree_fs, Reset, svars, vars
<1>2. ASSUME NEW t \in Threads,
             \/ \E n \in Names, f \in FlagSets : \/ syscall_storage_obj_open(t, n, f)
                                                \/ syscall_storage_obj_create(t, n, f)
             \/ read_head(t) \/ init_file(t) \/ init_file_end(t)
             \/ syscall_storage_obj_read_fails(t)
             \/ syscall_storage_obj_write(t) \/ write_end(t)
             \/ syscall_storage_obj_trunc(t)
             \/ syscall_storage_obj_del(t) \/ del_end(t)
             \/ tee_obj_close(t) \/ obj_release(t)
      PROVE  UNCHANGED mishaps
  BY <1>2 DEF syscall_storage_obj_open, syscall_storage_obj_create, obj_get, read_head, init_file,
     init_file_end, syscall_storage_obj_read_fails, syscall_storage_obj_write, write_end,
     syscall_storage_obj_trunc, syscall_storage_obj_del, del_end, tee_obj_close, obj_release
<1>3. ASSUME NEW t \in Threads,
             \/ \E m \in Names : syscall_storage_obj_rename(t, m)
             \/ rename_move(t) \/ rename_end(t) \/ rename_pobj(t) \/ rename_unreserve(t)
             \/ object_aborts(t)
      PROVE  UNCHANGED mishaps
  BY <1>3 DEF syscall_storage_obj_rename, rename_move, rename_end, rename_pobj, rename_unreserve,
     object_aborts, Reset
<1>4. ASSUME NEW e \in Enums,
             \/ syscall_storage_start_enum(e) \/ syscall_storage_next_enum(e)
             \/ enum_read_head(e) \/ syscall_storage_reset_enum(e)
             \/ enum_aborts(e)
      PROVE  UNCHANGED mishaps
  BY <1>4 DEF syscall_storage_start_enum, syscall_storage_next_enum, enum_read_head,
     syscall_storage_reset_enum, enum_aborts, Reset
<1> QED BY <1>1, <1>2, <1>3, <1>4 DEF Next

LEMMA TrackInvariance ==
  ASSUME Unshared
  PROVE  Spec => [](PInv /\ (Tame => TrackInv))
<1> DEFINE I == Tame => TrackInv
<1>1. ASSUME Init PROVE I
  <2>1. NothingOpen /\ op = NoOp
    BY <1>1 DEF Init, FsInit, NothingOpen
  <2> QED BY <2>1, NothingTrack
<1>2. ASSUME PInv, I, [Next]_vars PROVE I'
  <2>1. UNCHANGED mishaps
    BY <1>2, MishapsStay
  <2> SUFFICES ASSUME Tame PROVE TrackInv'
    BY <2>1 DEF Tame
  <2> QED BY <1>2, <2>1, NextTrack DEF Calm
<1> QED BY <1>1, <1>2, Invariance, PTL DEF Spec

(* tee_ree_fs.c: the handle of a writer stays good, whatever other threads *)
(* do to the directory meanwhile and whichever of their RPCs fail, unless  *)
(* a rename, a truncation or the opening of the directory meets the mishap *)
(* that is its own.                                                        *)
THEOREM WritersDoFindTheirEntry ==
  ASSUME Unshared
  PROVE  Spec => []WritersFindTheirEntry
<1>1. ASSUME PInv, Tame => TrackInv PROVE WritersFindTheirEntry
  <2> SUFFICES ASSUME Tame, NEW t \in Threads, pc[t] = "idle", HasFile(t),
                      "WRITE" \in obj[t].flags, ~obj[t].fh.bad
               PROVE  LET f == obj[t].fh
                      IN /\ f.idx \in Live(dirf) /\ dirf[f.idx].num = f.num
                         /\ file[f.num] # NoFile /\ file[f.num][f.ver] = dirf[f.idx].hash
    BY DEF WritersFindTheirEntry
  <2>1. Claims(t) /\ ClaimFh(t) = obj[t].fh
    BY DEF Claims, HasFile, ClaimFh
  <2>2. op # NoOp => op.by # t
    BY <1>1, ActorFacts, PcFacts DEF ThreadOK, OpPcs
  <2>3. PICK f, n : f = obj[t].fh /\ n = ClaimName(t)
    OBVIOUS
  <2>4. Good(dirf, file, f, n)
    BY <1>1, <2>1, <2>2, <2>3 DEF TrackInv, Tracked
  <2> QED BY <2>3, <2>4 DEF Good
<1> QED BY <1>1, TrackInvariance, PTL

-----------------------------------------------------------------------------
(* As long as nothing has failed the directory is readable whenever it is  *)
(* open, the enumerations that have it open point to it, and the files     *)
(* have their trees.                                                       *)
Readable ==
  /\ dirh # Closed => ~dirh.dead
  /\ \A e \in Enums : dirs[e] # Closed => dirs[e] # Stale /\ dirh # Closed

Unspoilt ==
  /\ \A t \in Threads : pc[t] # "rename_failed" /\ (obj[t] # NoObj => ~obj[t].fh.bad)
  /\ op # NoOp /\ op.kind = "create" => ~op.fh.bad

AbortInv == (aborted => errored) /\ (~errored => Readable /\ Unspoilt)

(* A step after which the handle, if it was closed, is needed by nobody.   *)
Orderly ==
  \/ UNCHANGED <<dirh, dirs>>
  \/ \E h, n : /\ SetDirh(h, n) /\ (h # Closed => ~h.dead)
               /\ h = Closed => n = 0 \/ dirh = Closed

(* An error is remembered; otherwise the step is an orderly one.           *)
Careful == \/ errored'
           \/ ~errored /\ aborted' = aborted /\ Orderly

Unneeded == refcount = 0 => \A e \in Enums : dirs[e] = Closed

LEMMA UnneededLemma == (CountInv => Unneeded) /\ (CountInv' => Unneeded')
<1>1. CountInv => Unneeded
  BY RefsType DEF Unneeded
<1> QED BY <1>1, PTL

LEMMA CarefulStep ==
  ASSUME PInv', AbortInv, Careful, ~errored' => Unspoilt'
  PROVE  AbortInv'
<1> SUFFICES ASSUME ~errored' PROVE ~aborted' /\ Readable'
  BY DEF AbortInv
<1>1. ~errored /\ ~aborted /\ ~aborted' /\ Readable /\ Orderly
  BY DEF AbortInv, Careful
<1>2. CASE UNCHANGED <<dirh, dirs>>
  BY <1>1, <1>2 DEF Readable
<1>3. CASE \E h, n : /\ SetDirh(h, n) /\ (h # Closed => ~h.dead)
                     /\ h = Closed => n = 0 \/ dirh = Closed
  <2>1. PICK h, n : /\ SetDirh(h, n) /\ (h # Closed => ~h.dead)
                    /\ h = Closed => n = 0 \/ dirh = Closed
    BY <1>3
  <2>2. /\ dirh' = h /\ refcount' = n
        /\ \A e \in Enums : dirs'[e] = IF h = Closed /\ dirs[e] # Closed THEN Stale ELSE dirs[e]
    BY <2>1 DEF SetDirh
  <2>3. Unneeded'
    BY UnneededLemma DEF PInv, SInv
  <2>4. n = 0 => \A e \in Enums : dirs'[e] = Closed
    BY <2>2, <2>3 DEF Unneeded
  <2>5. \A e \in Enums : dirs'[e] = dirs[e]
    <3>1. Stale # Closed
      BY NonesAssumption
    <3> QED BY <1>1, <2>1, <2>2, <2>4, <3>1 DEF Readable
  <2>6. \A e \in Enums : dirs[e] # Closed => h # Closed
    BY <1>1, <2>1, <2>2, <2>4, <2>5 DEF Readable
  <2> QED BY <1>1, <2>1, <2>2, <2>5, <2>6 DEF Readable
<1> QED BY <1>1, <1>2, <1>3 DEF Orderly

(* The operations of the file system that do not change the directory.     *)
LEMMA UseCareful ==
  ASSUME FsInv, Usable, UNCHANGED aborted,
         \/ SetDirh(get_dirh, refcount + 1) /\ Works
         \/ put_dirh(get_dirh, refcount, FALSE) /\ Works
         \/ Fails
  PROVE  Careful
<1>1. CASE Fails \/ errored'
  BY <1>1 DEF Fails, Careful
<1>2. CASE ~errored' /\ Works
  <2>1. PICK h, n : h = get_dirh /\ n = refcount
    OBVIOUS
  <2>2. ~h.dead /\ h # Closed /\ ~errored
    BY <1>2, <2>1, GetDirh DEF Usable, Unlocked, Works
  <2>3. SetDirh(h, n + 1) \/ SetDirh(IF n = 0 THEN Closed ELSE h, n)
    BY <1>2, <2>1 DEF put_dirh, Fails
  <2>4. CASE SetDirh(h, n + 1) \/ (n # 0 /\ SetDirh(h, n))
    BY <2>2, <2>4 DEF Careful, Orderly
  <2>5. CASE n = 0 /\ SetDirh(Closed, n)
    <3>1. \E g, m : /\ SetDirh(g, m) /\ (g # Closed => ~g.dead)
                    /\ g = Closed => m = 0 \/ dirh = Closed
      BY <2>5, Zenon
    <3> QED BY <2>2, <3>1 DEF Careful, Orderly
  <2> QED BY <2>3, <2>4, <2>5
<1> QED BY <1>1, <1>2 DEF Fails

LEMMA PutCareful ==
  ASSUME AbortInv, UNCHANGED <<aborted, errored>>, NEW n, put_dirh(dirh, n, FALSE)
  PROVE  Careful
<1> SUFFICES ASSUME ~errored PROVE Orderly
  BY DEF Careful
<1>1. PICK h : h = dirh
  OBVIOUS
<1>2. SetDirh(IF n = 0 THEN Closed ELSE h, n) /\ (h # Closed => ~h.dead)
  BY <1>1 DEF put_dirh, AbortInv, Readable
<1>3. CASE n # 0
  <2>1. \E g, m : /\ SetDirh(g, m) /\ (g # Closed => ~g.dead)
                  /\ g = Closed => m = 0 \/ dirh = Closed
    BY <1>1, <1>2, <1>3
  <2> QED BY <2>1 DEF Orderly
<1>4. CASE n = 0
  <2>1. SetDirh(Closed, n)
    BY <1>2, <1>4
  <2>2. \E g, m : /\ SetDirh(g, m) /\ (g # Closed => ~g.dead)
                  /\ g = Closed => m = 0 \/ dirh = Closed
    BY <1>4, <2>1, Zenon
  <2> QED BY <2>2 DEF Orderly
<1> QED BY <1>3, <1>4

LEMMA EndCareful ==
  ASSUME AbortInv, NEW k, Returns(k),
         \/ op.res # "ok"
         \/ UNCHANGED <<dirh, refcount, dirs>>
         \/ put_dirh(dirh, refcount - 1, op.res # "ok")
  PROVE  Careful
<1>1. errored' = (errored \/ op.res # "ok") /\ aborted' = aborted
  BY DEF Returns
<1>2. CASE op.res # "ok" \/ errored'
  BY <1>1, <1>2 DEF Careful
<1>3. CASE op.res = "ok" /\ ~errored' /\ UNCHANGED <<dirh, dirs>>
  BY <1>1, <1>3 DEF Careful, Orderly
<1>4. CASE op.res = "ok" /\ ~errored' /\ put_dirh(dirh, refcount - 1, op.res # "ok")
  <2>1. put_dirh(dirh, refcount - 1, FALSE) /\ ~errored
    BY <1>1, <1>4 DEF put_dirh
  <2>2. PICK n : n = refcount - 1
    OBVIOUS
  <2>3. SetDirh(IF n = 0 THEN Closed ELSE dirh, n) /\ (dirh # Closed => ~dirh.dead)
    BY <2>1, <2>2 DEF put_dirh, AbortInv, Readable
  <2>4. \E g, m : /\ SetDirh(g, m) /\ (g # Closed => ~g.dead)
                  /\ g = Closed => m = 0 \/ dirh = Closed
    <3>1. CASE n # 0
      <4>1. SetDirh(dirh, n)
        BY <2>3, <3>1
      <4> QED BY <2>3, <4>1, Zenon
    <3>2. CASE n = 0
      <4>1. SetDirh(Closed, n)
        BY <2>3, <3>2
      <4> QED BY <3>2, <4>1, Zenon
    <3> QED BY <3>1, <3>2
  <2> QED BY <1>1, <2>1, <2>4 DEF Careful, Orderly
<1> QED BY <1>2, <1>3, <1>4

LEMMA BeginCareful ==
  ASSUME FsInv, AbortInv, NEW t \in Threads,
         \/ \E n \in Names : ree_fs_create(t, n) \/ ree_fs_remove(t, n)
         \/ \E n \in Names, m \in Names : ree_fs_rename(t, n, m)
         \/ \E f \in FileHandle : ree_fs_write(t, f)
  PROVE  Careful
<1>1. /\ dirh' # Closed /\ \E h : SetDirh(h, refcount + 1)
      /\ op = NoOp
  BY CreateLemma, RemoveLemma, RenameLemma, WriteLemma
<1>2. UNCHANGED <<errored, aborted>> /\ Usable
  BY DEF ree_fs_create, ree_fs_remove, ree_fs_rename, ree_fs_write, ToCommit
<1>3. PICK h : h = get_dirh
  OBVIOUS
<1>4. h = [ents |-> dirf, files |-> h.files, dead |-> FALSE]
  <2>1. h = [ents |-> dirf, files |-> h.files, dead |-> h.dead] /\ h.dead \in BOOLEAN
    BY <1>1, <1>3, GetDirh DEF HandleOK, Handle
  <2> QED BY <1>2, <1>3, <2>1 DEF Usable
<1>5. ~dirh'.dead
  <2>1. CASE \E n \in Names : ree_fs_create(t, n)
    <3>0. PICK n \in Names : ree_fs_create(t, n)
      BY <2>1
    <3> DEFINE k == tee_fs_dirfile_get_tmp(h)
               i == tee_fs_dirfile_find(h.ents, n)
               j == IF i = 0 THEN FreeIndex(h.ents) ELSE i
               x == [name |-> n, num |-> k, hash |-> FreshContent(k, 0)]
    <3>1. dirh' = [h EXCEPT !.files = @ \cup {k}, !.ents = write_dent(@, j, x)]
      BY <1>3, <3>0 DEF ree_fs_create, ToCommit, SetDirh
    <3> HIDE DEF k, i, j, x
    <3>2. DOMAIN h = {"ents", "files", "dead"} /\ h.dead = FALSE
      BY <1>4
    <3>3. dirh'.dead = h.dead
      BY <3>1, <3>2
    <3> QED BY <3>2, <3>3
  <2>2. CASE \E n \in Names : ree_fs_remove(t, n)
    <3>1. PICK i : dirh' = tee_fs_dirfile_remove(h, i)
      BY <1>3, <2>2 DEF ree_fs_remove, ToCommit, SetDirh
    <3>2. DOMAIN h = {"ents", "files", "dead"} /\ h.dead = FALSE
      BY <1>4
    <3>3. dirh'.dead = h.dead
      BY <3>1, <3>2 DEF tee_fs_dirfile_remove
    <3> QED BY <3>2, <3>3
  <2>3. CASE \E n \in Names, m \in Names : ree_fs_rename(t, n, m)
    <3>1. PICK i, m : dirh' = [h EXCEPT !.ents[i].name = m]
      BY <1>3, <2>3 DEF ree_fs_rename, ToCommit, SetDirh
    <3>2. DOMAIN h = {"ents", "files", "dead"} /\ h.dead = FALSE
      BY <1>4
    <3>3. dirh'.dead = h.dead
      BY <3>1, <3>2
    <3> QED BY <3>2, <3>3
  <2>4. CASE \E f \in FileHandle : ree_fs_write(t, f)
    <3>1. PICK f, c : dirh' = tee_fs_dirfile_update_hash(h, f, c)
      BY <1>3, <2>4 DEF ree_fs_write, ToCommit, SetDirh
    <3>2. DOMAIN h = {"ents", "files", "dead"} /\ h.dead = FALSE
      BY <1>4
    <3>3. dirh'.dead = h.dead
      BY <3>1, <3>2 DEF tee_fs_dirfile_update_hash
    <3> QED BY <3>2, <3>3
  <2> QED BY <2>1, <2>2, <2>3, <2>4
<1>6. PICK g, n : SetDirh(g, n) /\ g # Closed /\ ~g.dead
  BY <1>1, <1>5 DEF SetDirh
<1> QED BY <1>2, <1>6 DEF Careful, Orderly

LEMMA StayCareful ==
  ASSUME UNCHANGED <<dirh, dirs, errored, aborted>>
  PROVE  Careful
BY DEF Careful, Orderly

LEMMA RefusedCareful ==
  ASSUME Refused
  PROVE  Careful
BY DEF Refused, Fails, Careful

LEMMA ThreadCareful ==
  ASSUME PInv, AbortInv, NEW t \in Threads,
         \/ \E n \in Names, f \in FlagSets : syscall_storage_obj_open(t, n, f)
                                             \/ syscall_storage_obj_create(t, n, f)
         \/ read_head(t) \/ init_file(t) \/ init_file_end(t)
         \/ syscall_storage_obj_read_fails(t)
         \/ syscall_storage_obj_write(t) \/ write_end(t)
         \/ syscall_storage_obj_trunc(t)
         \/ syscall_storage_obj_del(t) \/ del_end(t)
         \/ tee_obj_close(t) \/ obj_release(t)
         \/ \E m \in Names : syscall_storage_obj_rename(t, m)
         \/ rename_move(t) \/ rename_end(t) \/ rename_pobj(t) \/ rename_unreserve(t)
  PROVE  Careful
<1>1. FsInv /\ SInv /\ NamesKnown /\ ThreadOK(t) /\ (obj[t] # NoObj => NameOf(t) \in Names)
  BY ActorFacts
<1>2. CASE \/ \E n \in Names, f \in FlagSets : syscall_storage_obj_open(t, n, f)
                                               \/ syscall_storage_obj_create(t, n, f)
           \/ obj_release(t)
           \/ \E m \in Names : syscall_storage_obj_rename(t, m)
           \/ rename_pobj(t) \/ rename_unreserve(t)
  <2>1. UNCHANGED <<fsvars, started>>
    BY <1>2 DEF syscall_storage_obj_open, syscall_storage_obj_create, obj_get, obj_release,
       syscall_storage_obj_rename, rename_pobj, rename_unreserve, Stay
  <2> QED BY <2>1, StayCareful DEF fsvars
<1>3. CASE read_head(t)
  <2>1. /\ Usable /\ UNCHANGED <<started, aborted>>
        /\ \/ SetDirh(get_dirh, refcount + 1) /\ Works
           \/ put_dirh(get_dirh, refcount, FALSE) /\ Works
           \/ Fails
    BY <1>3 DEF read_head, ree_fs_open, ree_fs_open_not_found, ree_fs_open_corrupt,
       ree_fs_open_fails, OnlyMemory
  <2> QED BY <1>1, <2>1, UseCareful
<1>4. CASE init_file(t)
  <2>1. obj[t] # NoObj /\ UNCHANGED started
    BY <1>1, <1>4 DEF init_file, ThreadOK
  <2>2. CASE ree_fs_create(t, NameOf(t))
    BY <1>1, <2>1, <2>2, BeginCareful
  <2>3. CASE ree_fs_create_fails
    BY <2>3, RefusedCareful DEF ree_fs_create_fails
  <2> QED BY <1>4, <2>2, <2>3 DEF init_file
<1>5. CASE init_file_end(t) \/ write_end(t) \/ del_end(t) \/ rename_end(t)
  <2>1. /\ UNCHANGED started
        /\ \/ op.res # "ok" \/ UNCHANGED <<dirh, refcount, dirs>>
           \/ put_dirh(dirh, refcount - 1, op.res # "ok")
    BY <1>5 DEF init_file_end, write_end, del_end, rename_end, ree_fs_create_end, ree_fs_write_end,
       ree_fs_remove_end, ree_fs_rename_end
  <2>2. \E k : Returns(k)
    BY <1>5 DEF init_file_end, write_end, del_end, rename_end, ree_fs_create_end, ree_fs_write_end,
       ree_fs_remove_end, ree_fs_rename_end
  <2> QED BY <2>1, <2>2, EndCareful
<1>6. CASE syscall_storage_obj_read_fails(t)
  BY <1>6 DEF syscall_storage_obj_read_fails, Fails, Careful
<1>7. CASE syscall_storage_obj_write(t)
  <2>1. obj[t].fh \in FileHandle /\ UNCHANGED started
    BY <1>1, <1>7, UseLemma DEF syscall_storage_obj_write
  <2>2. CASE ree_fs_write(t, obj[t].fh)
    BY <1>1, <2>1, <2>2, BeginCareful
  <2>3. CASE ree_fs_write_fails(obj[t].fh)
    BY <2>3, RefusedCareful DEF ree_fs_write_fails
  <2> QED BY <1>7, <2>2, <2>3 DEF syscall_storage_obj_write
<1>8. CASE syscall_storage_obj_trunc(t)
  <2>1. \/ ree_fs_truncate(obj[t].fh)
        \/ \E g : ree_fs_truncate_fails(obj[t].fh, g)
        \/ ree_fs_write_fails(obj[t].fh)
    BY <1>8 DEF syscall_storage_obj_trunc
  <2>2. CASE ree_fs_truncate(obj[t].fh)
    <3>1. Usable /\ UNCHANGED aborted /\ put_dirh(get_dirh, refcount, FALSE) /\ Works
      BY <2>2 DEF ree_fs_truncate, OnlyMemory
    <3> QED BY <1>1, <3>1, UseCareful
  <2>3. CASE \E g : ree_fs_truncate_fails(obj[t].fh, g)
    BY <2>3 DEF ree_fs_truncate_fails, Fails, Careful
  <2>4. CASE ree_fs_write_fails(obj[t].fh)
    BY <2>4, RefusedCareful DEF ree_fs_write_fails
  <2> QED BY <2>1, <2>2, <2>3, <2>4
<1>9. CASE syscall_storage_obj_del(t)
  <2>1. obj[t] # NoObj /\ UNCHANGED started
    BY <1>1, <1>9 DEF syscall_storage_obj_del, CanDelete, Use, ThreadOK
  <2>2. CASE ree_fs_remove(t, NameOf(t))
    BY <1>1, <2>1, <2>2, BeginCareful
  <2>3. CASE ree_fs_remove_fails
    BY <2>3, RefusedCareful DEF ree_fs_remove_fails
  <2> QED BY <1>9, <2>2, <2>3 DEF syscall_storage_obj_del
<1>10. CASE rename_move(t)
  <2>1. obj[t] # NoObj /\ UNCHANGED started /\ pobj[dst[t]].name \in Names
    BY <1>1, <1>10 DEF rename_move, ThreadOK, NamesKnown
  <2>2. CASE ree_fs_rename(t, NameOf(t), pobj[dst[t]].name)
    BY <1>1, <2>1, <2>2, BeginCareful
  <2>3. CASE ree_fs_rename_fails
    BY <2>3, RefusedCareful DEF ree_fs_rename_fails
  <2> QED BY <1>10, <2>2, <2>3 DEF rename_move
<1>11. CASE tee_obj_close(t)
  <2>1. UNCHANGED started
    BY <1>11 DEF tee_obj_close
  <2>2. CASE Stay
    BY <2>1, <2>2, StayCareful DEF Stay, fsvars
  <2>3. CASE ree_fs_close
    BY <2>1, <2>3, PutCareful DEF ree_fs_close, Works, OnlyMemory
  <2> QED BY <1>11, <2>2, <2>3 DEF tee_obj_close
<1> QED BY <1>2, <1>3, <1>4, <1>5, <1>6, <1>7, <1>8, <1>9, <1>10, <1>11

(* As long as nothing fails no handle becomes bad.                         *)
LEMMA UnspoiltStep ==
  ASSUME PInv, Unspoilt, NEW u \in Threads, NEW x, obj' = [obj EXCEPT ![u] = x],
         x # NoObj => ~x.fh.bad,
         NEW l, pc' = [pc EXCEPT ![u] = l], l # "rename_failed",
         op' = op \/ op' = NoOp \/ op'.kind # "create" \/ ~op'.fh.bad
  PROVE  Unspoilt'
<1>1. obj'[u] = x /\ pc'[u] = l
  BY ActorFacts
<1>2. \A t \in Threads : t # u => obj'[t] = obj[t] /\ pc'[t] = pc[t]
  BY ActorFacts DEF CallInv
<1> QED BY <1>1, <1>2 DEF Unspoilt

LEMMA ThreadUnspoilt ==
  ASSUME PInv, Unspoilt, ~errored', NEW t \in Threads,
         \/ \E n \in Names, f \in FlagSets : syscall_storage_obj_open(t, n, f)
                                             \/ syscall_storage_obj_create(t, n, f)
         \/ read_head(t) \/ init_file(t) \/ init_file_end(t)
         \/ syscall_storage_obj_read_fails(t)
         \/ syscall_storage_obj_write(t) \/ write_end(t)
         \/ syscall_storage_obj_trunc(t)
         \/ syscall_storage_obj_del(t) \/ del_end(t)
         \/ tee_obj_close(t) \/ obj_release(t)
         \/ \E m \in Names : syscall_storage_obj_rename(t, m)
         \/ rename_move(t) \/ rename_end(t) \/ rename_pobj(t) \/ rename_unreserve(t)
  PROVE  Unspoilt'
<1>1. FsInv /\ SInv /\ NamesKnown /\ ThreadOK(t) /\ (obj[t] # NoObj => obj[t] \in Object)
      /\ NoHandle.bad = FALSE
  BY ActorFacts DEF NoHandle
<1>2. (obj[t] # NoObj => ~obj[t].fh.bad) /\ pc[t] # "rename_failed"
  BY DEF Unspoilt
<1>3. \A f : obj[t] # NoObj /\ SetHandle(t, f) =>
        \E x : obj' = [obj EXCEPT ![t] = x] /\ x.fh = f
  <2> SUFFICES ASSUME NEW f, obj[t] # NoObj, SetHandle(t, f)
               PROVE  \E x : obj' = [obj EXCEPT ![t] = x] /\ x.fh = f
    OBVIOUS
  <2>1. PICK x : x = [obj[t] EXCEPT !.fh = f]
    OBVIOUS
  <2>2. obj' = [obj EXCEPT ![t] = x] /\ x.fh = f
    BY <1>1, <2>1, ThreadFacts DEF Object
  <2> QED BY <2>2
<1>4. CASE \E n \in Names, f \in FlagSets : syscall_storage_obj_open(t, n, f)
                                            \/ syscall_storage_obj_create(t, n, f)
  <2>1. PICK n \in Names, f \in FlagSets, l \in {"open", "create"} : obj_get(t, n, f, l)
    BY <1>4 DEF syscall_storage_obj_open, syscall_storage_obj_create
  <2>2. PICK p \in Pobjs : obj' = [obj EXCEPT ![t] = [flags |-> f, po |-> p, fh |-> NoHandle]]
    BY <2>1 DEF obj_get
  <2>3. pc' = [pc EXCEPT ![t] = l] /\ op' = op /\ l # "rename_failed"
    BY <2>1 DEF obj_get, Goto, Stay, fsvars
  <2>4. PICK x : x = [flags |-> f, po |-> p, fh |-> NoHandle]
    OBVIOUS
  <2>5. obj' = [obj EXCEPT ![t] = x] /\ ~x.fh.bad
    BY <1>1, <2>2, <2>4
  <2> QED BY <2>3, <2>5, UnspoiltStep
<1>5. CASE read_head(t)
  <2>1. obj[t] # NoObj
    BY <1>1, <1>5 DEF read_head, ThreadOK
  <2>2. op' = op /\ \E l \in {"idle", "close", "purge", "release"} : pc' = [pc EXCEPT ![t] = l]
    BY <1>5 DEF read_head, ree_fs_open, ree_fs_open_not_found, ree_fs_open_corrupt,
       ree_fs_open_fails, OnlyMemory, Goto
  <2>3. UNCHANGED obj \/ \E k \in Nums, i \in DOMAIN get_dirh.ents, v \in Vers :
                           SetHandle(t, [num |-> k, idx |-> i, ver |-> v, bad |-> FALSE])
    BY <1>5 DEF read_head
  <2>4. UNCHANGED obj \/ \E f : SetHandle(t, f) /\ ~f.bad
    <3> SUFFICES ASSUME ~UNCHANGED obj PROVE \E f : SetHandle(t, f) /\ ~f.bad
      OBVIOUS
    <3>1. PICK k \in Nums, i \in DOMAIN get_dirh.ents, v \in Vers :
            SetHandle(t, [num |-> k, idx |-> i, ver |-> v, bad |-> FALSE])
      BY <2>3
    <3>2. PICK f : f = [num |-> k, idx |-> i, ver |-> v, bad |-> FALSE]
      OBVIOUS
    <3>3. SetHandle(t, f) /\ ~f.bad
      BY <3>1, <3>2
    <3> QED BY <3>3
  <2>5. \E x : obj' = [obj EXCEPT ![t] = x] /\ (x # NoObj => ~x.fh.bad)
    BY <1>2, <1>3, <2>1, <2>4, ActorFacts
  <2> QED BY <2>2, <2>5, UnspoiltStep
<1>6. CASE init_file(t) \/ syscall_storage_obj_del(t) \/ del_end(t) \/ rename_move(t)
           \/ rename_end(t) \/ rename_pobj(t) \/ \E m \in Names : syscall_storage_obj_rename(t, m)
  <2>1. UNCHANGED obj
    BY <1>6 DEF init_file, syscall_storage_obj_del, del_end, rename_move, rename_end, rename_pobj,
       syscall_storage_obj_rename
  <2>2. \E l : pc' = [pc EXCEPT ![t] = l] /\ l # "rename_failed"
    <3>1. CASE rename_move(t)
      BY <3>1 DEF rename_move, ree_fs_rename_fails, Refused, Fails, Goto
    <3>2. CASE rename_end(t)
      <4>1. op.res = "ok"
        BY <3>2 DEF rename_end, ree_fs_rename_end, Returns
      <4> QED BY <3>2, <4>1 DEF rename_end, Goto
    <3>3. CASE init_file(t) \/ syscall_storage_obj_del(t) \/ del_end(t) \/ rename_pobj(t)
               \/ \E m \in Names : syscall_storage_obj_rename(t, m)
      <4>1. \/ Goto(t, "creating") \/ Goto(t, "release") \/ Goto(t, "purge") \/ Goto(t, "deleting")
            \/ Goto(t, "close") \/ Goto(t, "unreserve") \/ Goto(t, "rename")
        BY <3>3 DEF init_file, syscall_storage_obj_del, del_end, rename_pobj,
           syscall_storage_obj_rename
      <4>2. PICK l \in {"creating", "release", "purge", "deleting", "close", "unreserve", "rename"} :
              Goto(t, l)
        BY <4>1
      <4>3. pc' = [pc EXCEPT ![t] = l] /\ l # "rename_failed"
        BY <4>2 DEF Goto
      <4> QED BY <4>3
    <3> QED BY <1>6, <3>1, <3>2, <3>3
  <2>3. op' = op \/ op' = NoOp \/ op'.kind # "create" \/ ~op'.fh.bad
    <3>1. CASE init_file(t)
      <4>1. ree_fs_create(t, NameOf(t)) /\ obj[t] # NoObj
        BY <1>1, <3>1 DEF init_file, ree_fs_create_fails, Refused, Fails, ThreadOK
      <4>2. PICK n \in Names : n = NameOf(t)
        BY <4>1, ActorFacts
      <4>3. Created(t, n)
        BY <1>1, <4>1, <4>2, CreateLemma
      <4>4. PICK k, i, old : Begun(t, "create", n, n, [num |-> k, idx |-> i, ver |-> 0, bad |-> FALSE], old)
        BY <4>3 DEF Created
      <4>5. PICK f : f = [num |-> k, idx |-> i, ver |-> 0, bad |-> FALSE]
        OBVIOUS
      <4>6. op'.fh = f
        BY <4>4, <4>5 DEF Begun
      <4> QED BY <4>5, <4>6
    <3>2. CASE syscall_storage_obj_del(t)
      <4>1. ree_fs_remove(t, NameOf(t)) /\ obj[t] # NoObj
        BY <1>1, <3>2 DEF syscall_storage_obj_del, ree_fs_remove_fails, Refused, Fails, CanDelete,
           Use, ThreadOK
      <4>2. PICK n \in Names : n = NameOf(t)
        BY <4>1, ActorFacts
      <4> QED BY <1>1, <4>1, <4>2, RemoveLemma
    <3>3. CASE rename_move(t)
      <4>1. obj[t] # NoObj /\ pobj[dst[t]].name \in Names
        BY <1>1, <3>3 DEF rename_move, ThreadOK, NamesKnown
      <4>2. PICK n \in Names, m \in Names : n = NameOf(t) /\ m = pobj[dst[t]].name
        BY <4>1, ActorFacts
      <4>3. ree_fs_rename(t, n, m)
        BY <3>3, <4>2 DEF rename_move, ree_fs_rename_fails, Refused, Fails
      <4> QED BY <1>1, <4>3, RenameLemma
    <3>4. CASE del_end(t) \/ rename_end(t) \/ rename_pobj(t)
               \/ \E m \in Names : syscall_storage_obj_rename(t, m)
      BY <3>4 DEF del_end, ree_fs_remove_end, rename_end, ree_fs_rename_end, Returns, rename_pobj,
         syscall_storage_obj_rename, Stay, fsvars
    <3> QED BY <1>6, <3>1, <3>2, <3>3, <3>4
  <2>4. obj' = [obj EXCEPT ![t] = obj[t]]
    BY <2>1, ActorFacts
  <2> QED BY <1>2, <2>2, <2>3, <2>4, UnspoiltStep
<1>7. CASE init_file_end(t)
  <2>1. op.kind = "create" /\ op # NoOp /\ op.res = "ok" /\ op' = NoOp
    BY <1>7 DEF init_file_end, ree_fs_create_end, Returns
  <2>2. SetHandle(t, op.fh) /\ pc' = [pc EXCEPT ![t] = "idle"] /\ ~op.fh.bad /\ obj[t] # NoObj
    BY <1>1, <1>7, <2>1 DEF init_file_end, Goto, Unspoilt, ThreadOK
  <2>3. \E x : obj' = [obj EXCEPT ![t] = x] /\ x.fh = op.fh
    BY <1>3, <2>2
  <2> QED BY <2>1, <2>2, <2>3, UnspoiltStep
<1>8. CASE syscall_storage_obj_read_fails(t)
  BY <1>8 DEF syscall_storage_obj_read_fails, Fails
<1>9. CASE syscall_storage_obj_write(t)
  <2>3. /\ UNCHANGED obj /\ pc' = [pc EXCEPT ![t] = "writing"] /\ ree_fs_write(t, obj[t].fh)
        /\ Use(t, "WRITE")
    BY <1>9 DEF syscall_storage_obj_write, Goto, ree_fs_write_fails, Refused, Fails
  <2>4. obj[t].fh \in FileHandle
    BY <1>1, <2>3, UseLemma
  <2>1. UNCHANGED obj /\ pc' = [pc EXCEPT ![t] = "writing"] /\ op'.kind = "write"
    BY <1>1, <2>3, <2>4, WriteLemma
  <2>2. obj' = [obj EXCEPT ![t] = obj[t]]
    BY <2>1, ActorFacts
  <2> QED BY <1>2, <2>1, <2>2, UnspoiltStep
<1>10. CASE write_end(t)
  <2>1. op.res = "ok" /\ op' = NoOp /\ op # NoOp /\ op.kind = "write"
    BY <1>10 DEF write_end, ree_fs_write_end, Returns
  <2>2. op.fh \in FileHandle /\ obj[t] # NoObj
    BY <1>1, <1>10, <2>1 DEF FsInv, OpOK, ThreadOK, write_end
  <2>3. PICK f : f = [op.fh EXCEPT !.bad = (op.res # "ok")]
    OBVIOUS
  <2>4. ~f.bad
    BY <2>1, <2>2, <2>3 DEF FileHandle
  <2>5. SetHandle(t, f) /\ pc' = [pc EXCEPT ![t] = "idle"]
    BY <1>10, <2>3 DEF write_end, Goto
  <2>6. \E x : obj' = [obj EXCEPT ![t] = x] /\ x.fh = f
    BY <1>3, <2>2, <2>5
  <2> QED BY <2>1, <2>4, <2>5, <2>6, UnspoiltStep
<1>11. CASE syscall_storage_obj_trunc(t)
  <2>1. ree_fs_truncate(obj[t].fh) /\ UNCHANGED <<obj, pc>>
    BY <1>11 DEF syscall_storage_obj_trunc, ree_fs_truncate_fails, ree_fs_write_fails, Refused, Fails
  <2>2. op' = op
    BY <2>1 DEF ree_fs_truncate, OnlyMemory
  <2> QED BY <2>1, <2>2 DEF Unspoilt
<1>12. CASE tee_obj_close(t)
  <2>1. SetHandle(t, NoHandle) /\ pc' = [pc EXCEPT ![t] = "release"] /\ op' = op /\ obj[t] # NoObj
    BY <1>12 DEF tee_obj_close, Goto, Stay, fsvars, ree_fs_close, OnlyMemory
  <2>2. \E x : obj' = [obj EXCEPT ![t] = x] /\ x.fh = NoHandle
    BY <1>3, <2>1
  <2> QED BY <1>1, <2>1, <2>2, UnspoiltStep
<1>13. CASE obj_release(t)
  <2>1. /\ obj' = [obj EXCEPT ![t] = NoObj] /\ pc' = [pc EXCEPT ![t] = "idle"] /\ op' = op
    BY <1>13 DEF obj_release, Goto, Stay, fsvars
  <2> QED BY <2>1, UnspoiltStep
<1>14. CASE rename_unreserve(t)
  <2>1. UNCHANGED obj /\ pc' = [pc EXCEPT ![t] = "idle"] /\ op' = op
    BY <1>2, <1>14 DEF rename_unreserve, Goto, Stay, fsvars
  <2>2. obj' = [obj EXCEPT ![t] = obj[t]]
    BY <2>1, ActorFacts
  <2> QED BY <1>2, <2>1, <2>2, UnspoiltStep
<1> QED BY <1>4, <1>5, <1>6, <1>7, <1>8, <1>9, <1>10, <1>11, <1>12, <1>13, <1>14

LEMMA EnumUnspoilt ==
  ASSUME PInv, Unspoilt, NEW e \in Enums,
         \/ syscall_storage_start_enum(e) \/ syscall_storage_next_enum(e)
         \/ enum_read_head(e) \/ syscall_storage_reset_enum(e)
  PROVE  Unspoilt'
<1>1. /\ UNCHANGED obj
      /\ pc' = pc \/ \E l \in {"idle", "peek"} : pc' = [pc EXCEPT ![e] = l]
  BY DEF syscall_storage_start_enum, syscall_storage_next_enum, enum_read_head,
     syscall_storage_reset_enum, Goto
<1>2. \A t \in Threads : pc'[t] = pc[t]
  BY <1>1, SetsAssumption DEF PInv, SInv, CallInv
<1>3. op' = op
  BY DEF syscall_storage_start_enum, syscall_storage_next_enum, enum_read_head,
     syscall_storage_reset_enum, ree_fs_opendir, ree_fs_opendir_fails, ree_fs_readdir,
     ree_fs_readdir_ends, ree_fs_open_close, ree_fs_open_fails, ree_fs_closedir, Stay, fsvars,
     OnlyMemory
<1> QED BY <1>1, <1>2, <1>3 DEF Unspoilt

(* Enumerations.                                                           *)
LEMMA EnumReadable ==
  ASSUME PInv, PInv', AbortInv, NEW e \in Enums,
         \/ syscall_storage_start_enum(e) \/ syscall_storage_next_enum(e)
         \/ enum_read_head(e) \/ syscall_storage_reset_enum(e)
  PROVE  AbortInv' /\ (errored => errored')
<1>1. FsInv /\ CallInv /\ EnumOK(e) /\ Stale # Closed /\ 0 # Closed /\ 0 # Stale
  BY NonesAssumption DEF PInv, SInv, CallInv
<1>2. dirs = [d \in Enums |-> dirs[d]] /\ started = [d \in Enums |-> started[d]]
  BY <1>1 DEF CallInv
<1>3. CASE errored'
  BY <1>3 DEF AbortInv
<1>8. errored => errored'
  BY DEF syscall_storage_start_enum, syscall_storage_next_enum, enum_read_head,
     syscall_storage_reset_enum, ree_fs_opendir, ree_fs_opendir_fails, ree_fs_readdir,
     ree_fs_readdir_ends, ree_fs_open_close, ree_fs_open_fails, ree_fs_closedir, Stay, fsvars,
     Works, Fails
<1>9. ~errored' => Unspoilt'
  <2> SUFFICES ASSUME ~errored' PROVE Unspoilt'
    OBVIOUS
  <2>1. Unspoilt
    BY <1>8 DEF AbortInv
  <2> QED BY <2>1, EnumUnspoilt
<1>10. CASE ~errored' /\ syscall_storage_start_enum(e) /\ ree_fs_opendir_fails
  <2>1. Usable /\ UNCHANGED aborted /\ put_dirh(get_dirh, refcount, FALSE) /\ Works
    BY <1>10 DEF ree_fs_opendir_fails, OnlyMemory, Fails
  <2> QED BY <1>1, <1>8, <1>9, <2>1, UseCareful, CarefulStep
<1>4. CASE ~errored' /\ syscall_storage_start_enum(e) /\ ree_fs_opendir(e)
  <2>1. ree_fs_opendir(e)
    BY <1>4
  <2>2. /\ dirh' = get_dirh /\ dirs' = [dirs EXCEPT ![e] = 0] /\ UNCHANGED <<errored, aborted>>
        /\ op = NoOp /\ ~get_dirh.dead /\ started' = [started EXCEPT ![e] = TRUE]
    BY <1>4, <2>1 DEF ree_fs_opendir, Works, OnlyMemory, Usable, Unlocked, syscall_storage_start_enum
  <2>3. get_dirh # Closed
    BY <1>1, <2>2, GetDirh
  <2>4. /\ dirs'[e] = 0 /\ \A d \in Enums : d # e => dirs'[d] = dirs[d] /\ started'[d] = started[d]
    BY <1>2, <2>2
  <2>5. Readable
    BY <1>4, <2>2 DEF AbortInv
  <2> QED BY <1>1, <1>8, <1>9, <2>2, <2>3, <2>4, <2>5 DEF AbortInv, Readable
<1>5. CASE ~errored' /\ syscall_storage_next_enum(e)
  <2>1. /\ UNCHANGED <<errored, aborted, started, dirh>>
        /\ \/ UNCHANGED dirs
           \/ dirs[e] # Stale /\ Remaining(dirh.ents, dirs[e]) # {}
              /\ dirs' = [dirs EXCEPT ![e] = Min(Remaining(dirh.ents, dirs[e]))]
    BY <1>5 DEF syscall_storage_next_enum, ree_fs_readdir, ree_fs_readdir_ends, Works, Fails, OnlyMemory
  <2>2. dirs[e] # Closed /\ op = NoOp
    BY <1>5 DEF syscall_storage_next_enum, ree_fs_readdir, ree_fs_readdir_ends, Unlocked
  <2>3. Readable
    BY <1>5, <2>1 DEF AbortInv
  <2>4. CASE UNCHANGED dirs
    BY <1>8, <1>9, <2>1, <2>3, <2>4 DEF AbortInv, Readable
  <2>5. CASE /\ Remaining(dirh.ents, dirs[e]) # {}
             /\ dirs' = [dirs EXCEPT ![e] = Min(Remaining(dirh.ents, dirs[e]))]
    <3>1. PICK d : d = dirh.ents
      OBVIOUS
    <3>2. WellFormed(d)
      BY <1>1, <2>2, <2>3, <3>1 DEF FsInv, Readable
    <3>3. PICK R : R = Remaining(d, dirs[e])
      OBVIOUS
    <3>4. R \in SUBSET Nat /\ R # {}
      BY <2>5, <3>1, <3>2, <3>3, DirType DEF Remaining
    <3>5. Min(R) \in Nat
      BY <3>4, MinLemma
    <3>6. dirs'[e] \in Nat /\ \A x \in Enums : x # e => dirs'[x] = dirs[x]
      BY <1>2, <2>5, <3>1, <3>3, <3>5
    <3>7. dirs'[e] # Closed /\ dirs'[e] # Stale
      BY <3>6, NonesAssumption
    <3> QED BY <1>8, <1>9, <2>1, <2>2, <2>3, <3>6, <3>7 DEF AbortInv, Readable
  <2> QED BY <2>1, <2>4, <2>5
<1>6. CASE ~errored' /\ enum_read_head(e)
  <2>1. /\ Usable /\ UNCHANGED <<started, aborted>> /\ put_dirh(get_dirh, refcount, FALSE) /\ Works
    BY <1>6 DEF enum_read_head, ree_fs_open_close, ree_fs_open_fails, OnlyMemory, Fails
  <2> QED BY <1>1, <1>8, <1>9, <2>1, UseCareful, CarefulStep
<1>7. CASE ~errored' /\ syscall_storage_reset_enum(e)
  <2>1. /\ started' = [started EXCEPT ![e] = FALSE] /\ UNCHANGED <<errored, aborted>>
        /\ \/ UNCHANGED <<dirh, dirs>>
           \/ /\ dirh' = IF refcount' = 0 THEN Closed ELSE dirh
              /\ dirs' = [dirs EXCEPT ![e] = Closed]
    BY <1>7 DEF syscall_storage_reset_enum, Stay, fsvars, ree_fs_closedir, Works, OnlyMemory
  <2>2. started'[e] = FALSE /\ \A d \in Enums : d # e => started'[d] = started[d]
    BY <1>2, <2>1
  <2>3. Readable
    BY <1>7, <2>1 DEF AbortInv
  <2>4. CASE UNCHANGED <<dirh, dirs>>
    BY <1>8, <1>9, <2>1, <2>2, <2>3, <2>4 DEF AbortInv, Readable
  <2>5. CASE /\ dirh' = IF refcount' = 0 THEN Closed ELSE dirh
             /\ dirs' = [dirs EXCEPT ![e] = Closed]
    <3>1. dirs'[e] = Closed /\ \A d \in Enums : d # e => dirs'[d] = dirs[d]
      BY <1>2, <2>5
    <3>2. Unneeded'
      BY UnneededLemma DEF PInv, SInv
    <3>3. \A d \in Enums : dirs'[d] # Closed => refcount' # 0
      BY <3>2 DEF Unneeded
    <3> QED BY <1>8, <1>9, <2>1, <2>2, <2>3, <2>5, <3>1, <3>3 DEF AbortInv, Readable
  <2> QED BY <2>1, <2>4, <2>5
<1> QED BY <1>3, <1>4, <1>5, <1>6, <1>7, <1>10 DEF syscall_storage_start_enum

(* The core stops only after an error.                                     *)
LEMMA AbortsErrored ==
  ASSUME PInv, errored \/ TrackInv, AbortInv, "enum" \notin mishaps,
         \/ \E t \in Threads : object_aborts(t)
         \/ \E e \in Enums : enum_aborts(e)
  PROVE  errored'
<1> SUFFICES ASSUME ~errored' PROVE FALSE
  OBVIOUS
<1>0. UNCHANGED errored
  BY DEF object_aborts, enum_aborts, FirstFindFails
<1>1. Readable /\ Unspoilt /\ FsInv /\ SInv /\ TrackInv
  BY <1>0 DEF AbortInv, PInv, SInv
<1>2. ~DirUseAborts
  <2> SUFFICES ASSUME op = NoOp, get_dirh.dead PROVE FALSE
    BY DEF DirUseAborts, Unlocked
  <2>1. CASE dirh = Closed
    BY <2>1 DEF get_dirh, tee_fs_dirfile_open
  <2>2. CASE dirh # Closed
    BY <1>1, <2>2 DEF get_dirh, Readable
  <2> QED BY <2>1, <2>2
<1>3. ASSUME NEW t \in Threads, object_aborts(t) PROVE FALSE
  <2>1. Use(t, "WRITE") /\ ree_fs_write_aborts(obj[t].fh)
    BY <1>1, <1>2, <1>3 DEF object_aborts, FirstFindFails, Unspoilt
  <2>2. obj[t].fh \in FileHandle /\ pc[t] = "idle" /\ obj[t] # NoObj
    BY <1>1, <2>1, UseLemma
  <2>3. PICK f, n, h : f = obj[t].fh /\ n = ClaimName(t) /\ h = get_dirh
    OBVIOUS
  <2>4. op = NoOp /\ ~HashAsserts(h, f)
    BY <1>2, <2>1, <2>3 DEF ree_fs_write_aborts, Usable, Unlocked
  <2>5. Claims(t)
    BY <1>1, <2>1, <2>2 DEF Claims, Use, Unspoilt
  <2>6. Good(dirf, file, f, n)
    BY <1>1, <2>3, <2>4, <2>5, ClaimFacts
  <2>7. HandleOK(h) /\ h.ents = dirf
    BY <1>1, <2>3, <2>4, GetDirh
  <2>8. f.idx \in Live(dirf) /\ dirf[f.idx].num = f.num
    BY <2>6 DEF Good
  <2>9. dirf[f.idx] # Free /\ f.num \in NumsOf(dirf)
    BY <2>8 DEF Live, NumsOf
  <2> QED BY <2>4, <2>7, <2>8, <2>9 DEF HashAsserts, NumberAt, HandleOK
<1>4. ASSUME NEW e \in Enums, enum_aborts(e) PROVE FALSE
  BY <1>1, <1>2, <1>4 DEF enum_aborts, Readable, ree_fs_readdir_aborts, ree_fs_closedir_aborts
<1> QED BY <1>3, <1>4

LEMMA NextAbort ==
  ASSUME PInv, PInv', errored \/ TrackInv, AbortInv, "enum" \notin mishaps, [Next]_vars
  PROVE  AbortInv' /\ (errored => errored' \/ crash)
<1>1. CASE \/ \E t \in Threads : object_aborts(t)
           \/ \E e \in Enums : enum_aborts(e)
  BY <1>1, AbortsErrored DEF AbortInv
<1>2. CASE crash
  BY <1>2 DEF crash, FsCrash, FsReset, Reset, AbortInv, Readable, Unspoilt
<1>3. CASE ree_fs \/ UNCHANGED vars
  <2>1. CASE open_dirh_replaces
    BY <2>1 DEF open_dirh_replaces, Fails, AbortInv
  <2>2. CASE ~open_dirh_replaces
    <3>1. UNCHANGED <<dirh, dirs, errored, aborted>>
      BY <1>3, <2>2 DEF ree_fs, commit_dirh_writes, commit_dirh_writes_fails, vars, fsvars, svars
    <3>2. /\ UNCHANGED <<obj, pc>>
          /\ op' = op \/ (op # NoOp /\ op'.kind = op.kind /\ op'.fh = op.fh)
      <4>1. CASE UNCHANGED vars
        BY <4>1 DEF vars, fsvars, svars
      <4>2. CASE ree_fs
        <5>1. UNCHANGED <<obj, pc>> /\ op # NoOp
          BY <2>2, <4>2 DEF ree_fs, commit_dirh_writes, commit_dirh_writes_fails, svars
        <5>2. op \in Operation
          BY <5>1 DEF PInv, SInv, FsInv, OpOK
        <5>3. \E d, r : op' = [op EXCEPT !.pc = "end", !.done = d, !.res = r]
                        \/ op' = [op EXCEPT !.pc = "end", !.done = d]
          BY <2>2, <4>2 DEF ree_fs, commit_dirh_writes, commit_dirh_writes_fails
        <5> QED BY <5>1, <5>2, <5>3 DEF Operation
      <4> QED BY <1>3, <4>1, <4>2
    <3>3. ~errored' => Unspoilt'
      BY <3>1, <3>2 DEF AbortInv, Unspoilt
    <3>4. Careful \/ errored
      BY <3>1, StayCareful
    <3> QED BY <3>1, <3>3, <3>4, CarefulStep DEF AbortInv
  <2> QED BY <2>1, <2>2
<1>4. ASSUME NEW t \in Threads,
             \/ \E n \in Names, f \in FlagSets : syscall_storage_obj_open(t, n, f)
                                                 \/ syscall_storage_obj_create(t, n, f)
             \/ read_head(t) \/ init_file(t) \/ init_file_end(t)
             \/ syscall_storage_obj_read_fails(t)
             \/ syscall_storage_obj_write(t) \/ write_end(t)
             \/ syscall_storage_obj_trunc(t)
             \/ syscall_storage_obj_del(t) \/ del_end(t)
             \/ tee_obj_close(t) \/ obj_release(t)
             \/ \E m \in Names : syscall_storage_obj_rename(t, m)
             \/ rename_move(t) \/ rename_end(t) \/ rename_pobj(t) \/ rename_unreserve(t)
      PROVE  AbortInv' /\ (errored => errored')
  <2>1. Careful
    BY <1>4, ThreadCareful
  <2>2. errored => errored'
    BY <2>1 DEF Careful
  <2>3. ~errored' => Unspoilt'
    <3> SUFFICES ASSUME ~errored' PROVE Unspoilt'
      OBVIOUS
    <3>1. Unspoilt
      BY <2>2 DEF AbortInv
    <3> QED BY <1>4, <3>1, ThreadUnspoilt
  <2> QED BY <2>1, <2>2, <2>3, CarefulStep
<1>5. ASSUME NEW e \in Enums,
             \/ syscall_storage_start_enum(e) \/ syscall_storage_next_enum(e)
             \/ enum_read_head(e) \/ syscall_storage_reset_enum(e)
      PROVE  AbortInv' /\ (errored => errored')
  BY <1>5, EnumReadable
<1> QED BY <1>1, <1>2, <1>3, <1>4, <1>5 DEF Next

(* The assertions of fs_dirfile.c and tee_ree_fs.c hold, and no pointer to *)
(* a handle or a tree that is gone is followed, as long as no RPC has      *)
(* failed and no create, rename or remove been refused; a TA that asks for *)
(* the next object of an enumeration whose start failed is excepted.  No   *)
(* other mishap matters: objects are lost track of after an error only.    *)
THEOREM AbortsDoFollowErrors ==
  ASSUME Unshared
  PROVE  Spec => []AbortsFollowErrors
<1> DEFINE I == "enum" \notin mishaps => AbortInv /\ (errored \/ TrackInv)
<1>1. ASSUME Init PROVE I
  <2>1. NothingOpen /\ op = NoOp
    BY <1>1 DEF Init, FsInit, NothingOpen
  <2>2. TrackInv
    BY <2>1, NothingTrack
  <2> QED BY <1>1, <2>2 DEF Init, FsInit, AbortInv, Readable, Unspoilt
<1>2. ASSUME PInv, PInv', I, [Next]_vars PROVE I'
  <2>0. UNCHANGED mishaps
    BY <1>2, MishapsStay
  <2> SUFFICES ASSUME "enum" \notin mishaps PROVE AbortInv' /\ (errored' \/ TrackInv')
    BY <2>0
  <2>1. AbortInv' /\ (errored => errored' \/ crash)
    BY <1>2, NextAbort
  <2>2. CASE crash
    <3>1. NothingOpen' /\ op' = NoOp
      BY <2>2 DEF crash, FsCrash, Reset, NothingOpen, FsReset
    <3>2. TrackInv'
      BY <3>1, ResetTrack
    <3> QED BY <2>1, <3>2
  <2>3. CASE ~crash /\ ~errored'
    <3>1. TrackInv'
      BY <1>2, <2>0, <2>1, <2>3, NextTrack DEF Calm
    <3> QED BY <2>1, <3>1
  <2> QED BY <2>1, <2>2, <2>3
<1>3. ASSUME I PROVE AbortsFollowErrors
  BY <1>3 DEF AbortInv, AbortsFollowErrors
<1> HIDE DEF I
<1> QED BY <1>1, <1>2, <1>3, Invariance, PTL DEF Spec

-----------------------------------------------------------------------------
(* What opens find in the directory d, with the files fl.                  *)
Has(fl, k, c) == fl[k] # NoFile /\ \E v \in Vers : fl[k][v] = c

ContentIn(d, fl, n) ==
  LET i == tee_fs_dirfile_find(d, n)
  IN IF i # 0 /\ Has(fl, d[i].num, d[i].hash) THEN <<d[i].num, d[i].hash>> ELSE <<>>

StoreIn(d, fl) == [n \in Names |-> ContentIn(d, fl, n)]

LEMMA PairLemma ==
  ASSUME NEW a, NEW b, NEW c, NEW d
  PROVE  <<a, b>> # <<>> /\ (<<a, b>> = <<c, d>> => a = c /\ b = d)
OBVIOUS

LEMMA ContentLemma ==
  ASSUME NEW d, WellFormed(d), NEW fl, NEW n
  PROVE  /\ NoName(d, n) => ContentIn(d, fl, n) = <<>>
         /\ \A i \in Live(d) : d[i].name = n =>
              ContentIn(d, fl, n) = IF Has(fl, d[i].num, d[i].hash)
                                    THEN <<d[i].num, d[i].hash>> ELSE <<>>
         /\ ContentIn(d, fl, n) # <<>> =>
              \E i \in Live(d) : /\ d[i].name = n
                                 /\ ContentIn(d, fl, n) = <<d[i].num, d[i].hash>>
<1>1. PICK j : j = tee_fs_dirfile_find(d, n)
  OBVIOUS
<1>2. \/ j = 0 /\ \A i \in Live(d) : d[i].name # n
      \/ j # 0 /\ j \in Live(d) /\ d[j].name = n
  BY <1>1, FindLemma
<1>3. ContentIn(d, fl, n) = IF j # 0 /\ Has(fl, d[j].num, d[j].hash)
                            THEN <<d[j].num, d[j].hash>> ELSE <<>>
  BY <1>1 DEF ContentIn
<1>4. \A i \in Live(d) : d[i].name = n => i = j
  BY <1>2 DEF WellFormed
<1>5. NoName(d, n) => j = 0
  BY <1>2 DEF NoName
<1> QED BY <1>2, <1>3, <1>4, <1>5

(* The objects of d have the same files in gl as in fl.                    *)
SameFiles(d, fl, gl) == \A i \in Live(d) : Has(gl, d[i].num, d[i].hash) <=> Has(fl, d[i].num, d[i].hash)

LEMMA SameStore ==
  ASSUME NEW d, WellFormed(d), NEW fl, NEW gl, SameFiles(d, fl, gl)
  PROVE  StoreIn(d, gl) = StoreIn(d, fl)
<1>1. ASSUME NEW n \in Names PROVE ContentIn(d, gl, n) = ContentIn(d, fl, n)
  <2>1. CASE NoName(d, n)
    BY <2>1, ContentLemma
  <2>2. CASE ~NoName(d, n)
    <3>1. PICK i \in Live(d) : d[i].name = n
      BY <2>2 DEF NoName
    <3> QED BY <3>1, ContentLemma DEF SameFiles
  <2> QED BY <2>1, <2>2
<1> QED BY <1>1 DEF StoreIn

(* Files that no object has may change.                                    *)
LEMMA OtherFiles ==
  ASSUME NEW d, NEW fl, NEW gl, \A k \in NumsOf(d) : gl[k] = fl[k]
  PROVE  SameFiles(d, fl, gl)
<1>1. \A i \in Live(d) : d[i].num \in NumsOf(d)
  BY DEF NumsOf
<1> QED BY <1>1 DEF SameFiles, Has

(* What the operations are to do to the store (ObjStore!Effect).           *)
Effects(k, n, m, S, T) ==
  \/ /\ k \in {"create", "write"}
     /\ T[n] \notin {S[x] : x \in Names} \cup {<<>>}
     /\ T = [S EXCEPT ![n] = T[n]]
  \/ k = "remove" /\ T = [S EXCEPT ![n] = <<>>]
  \/ k = "rename" /\ S[m] = <<>> /\ T = [S EXCEPT ![m] = S[n], ![n] = <<>>]

(* Objects of other names than that of the entry i.                        *)
LEMMA BesideStore ==
  ASSUME NEW d, WellFormed(d), NEW e, WellFormed(e), NEW i, Beside(d, e, i), NEW fl, NEW n,
         i \in Live(d) => d[i].name # n, i \in Live(e) => e[i].name # n
  PROVE  ContentIn(e, fl, n) = ContentIn(d, fl, n)
<1>1. CASE NoName(d, n)
  <2>1. NoName(e, n)
    BY <1>1 DEF NoName, Beside
  <2> QED BY <1>1, <2>1, ContentLemma
<1>2. CASE ~NoName(d, n)
  <2>1. PICK j \in Live(d) : d[j].name = n
    BY <1>2 DEF NoName
  <2>2. j \in Live(e) /\ e[j] = d[j]
    BY <2>1 DEF Beside
  <2>3. ContentIn(d, fl, n) = IF Has(fl, d[j].num, d[j].hash) THEN <<d[j].num, d[j].hash>> ELSE <<>>
    BY <2>1, ContentLemma
  <2>4. ContentIn(e, fl, n) = IF Has(fl, e[j].num, e[j].hash) THEN <<e[j].num, e[j].hash>> ELSE <<>>
    BY <2>1, <2>2, ContentLemma
  <2> QED BY <2>2, <2>3, <2>4
<1> QED BY <1>1, <1>2

LEMMA PutEffect ==
  ASSUME NEW kind \in {"create", "write"}, NEW d, WellFormed(d), NEW e, WellFormed(e), NEW i,
         NEW fl, NEW n \in Names, Beside(d, e, i),
         i \in Live(d) => d[i].name = n,
         i \in Live(e), e[i].name = n, Has(fl, e[i].num, e[i].hash),
         \A j \in Live(d) : d[j].num # e[i].num \/ d[j].hash # e[i].hash
  PROVE  Effects(kind, n, n, StoreIn(d, fl), StoreIn(e, fl))
<1> DEFINE S == StoreIn(d, fl)
           T == StoreIn(e, fl)
<1>1. \A x \in Names : x # n => ContentIn(e, fl, x) = ContentIn(d, fl, x)
  BY BesideStore
<1>2. ContentIn(e, fl, n) = <<e[i].num, e[i].hash>>
  BY ContentLemma
<1>3. \A x \in Names : S[x] = ContentIn(d, fl, x) /\ T[x] = ContentIn(e, fl, x)
  BY DEF StoreIn
<1>4. S = [x \in Names |-> S[x]] /\ T = [x \in Names |-> T[x]]
  BY DEF StoreIn
<1>5. ASSUME NEW x \in Names PROVE S[x] # T[n]
  <2> SUFFICES ASSUME ContentIn(d, fl, x) = <<e[i].num, e[i].hash>> PROVE FALSE
    BY <1>2, <1>3
  <2>1. ContentIn(d, fl, x) # <<>>
    BY PairLemma
  <2>2. PICK j \in Live(d) : ContentIn(d, fl, x) = <<d[j].num, d[j].hash>>
    BY <2>1, ContentLemma
  <2> QED BY <2>2, PairLemma
<1>6. T[n] # <<>>
  BY <1>2, <1>3, PairLemma
<1> HIDE DEF S, T
<1>7. T = [S EXCEPT ![n] = T[n]]
  BY <1>1, <1>3, <1>4
<1>8. Effects(kind, n, n, S, T)
  BY <1>5, <1>6, <1>7 DEF Effects
<1> QED BY <1>8 DEF S, T

LEMMA RemoveEffect ==
  ASSUME NEW d, WellFormed(d), NEW e, WellFormed(e), NEW i \in Live(d),
         NEW fl, NEW n \in Names, Beside(d, e, i), d[i].name = n, i \notin Live(e)
  PROVE  Effects("remove", n, n, StoreIn(d, fl), StoreIn(e, fl))
<1> DEFINE S == StoreIn(d, fl)
           T == StoreIn(e, fl)
<1>1. \A x \in Names : x # n => ContentIn(e, fl, x) = ContentIn(d, fl, x)
  BY BesideStore
<1>2. NoName(e, n)
  BY DEF NoName, Beside, WellFormed
<1>3. ContentIn(e, fl, n) = <<>>
  BY <1>2, ContentLemma
<1>4. \A x \in Names : S[x] = ContentIn(d, fl, x) /\ T[x] = ContentIn(e, fl, x)
  BY DEF StoreIn
<1>5. S = [x \in Names |-> S[x]] /\ T = [x \in Names |-> T[x]]
  BY DEF StoreIn
<1> HIDE DEF S, T
<1>6. T = [S EXCEPT ![n] = <<>>]
  BY <1>1, <1>3, <1>4, <1>5
<1>7. Effects("remove", n, n, S, T)
  BY <1>6 DEF Effects
<1> QED BY <1>7 DEF S, T

LEMMA MoveEffect ==
  ASSUME NEW d, WellFormed(d), NEW e, WellFormed(e), NEW i \in Live(d),
         NEW fl, NEW n \in Names, NEW m \in Names, Beside(d, e, i), d[i].name = n, NoName(d, m),
         i \in Live(e), e[i].name = m, e[i].num = d[i].num, e[i].hash = d[i].hash
  PROVE  Effects("rename", n, m, StoreIn(d, fl), StoreIn(e, fl))
<1> DEFINE S == StoreIn(d, fl)
           T == StoreIn(e, fl)
<1>1. \A x \in Names : x \notin {n, m} => ContentIn(e, fl, x) = ContentIn(d, fl, x)
  BY BesideStore
<1>2. NoName(e, n) /\ m # n
  BY DEF NoName, Beside, WellFormed
<1>3. ContentIn(e, fl, n) = <<>> /\ ContentIn(d, fl, m) = <<>>
  BY <1>2, ContentLemma
<1>4. ContentIn(e, fl, m) = ContentIn(d, fl, n)
  <2>1. ContentIn(e, fl, m) = IF Has(fl, e[i].num, e[i].hash) THEN <<e[i].num, e[i].hash>> ELSE <<>>
    BY ContentLemma
  <2>2. ContentIn(d, fl, n) = IF Has(fl, d[i].num, d[i].hash) THEN <<d[i].num, d[i].hash>> ELSE <<>>
    BY ContentLemma
  <2> QED BY <2>1, <2>2
<1>5. \A x \in Names : S[x] = ContentIn(d, fl, x) /\ T[x] = ContentIn(e, fl, x)
  BY DEF StoreIn
<1>6. S = [x \in Names |-> S[x]] /\ T = [x \in Names |-> T[x]]
  BY DEF StoreIn
<1> HIDE DEF S, T
<1>7. T = [S EXCEPT ![m] = S[n], ![n] = <<>>]
  BY <1>1, <1>2, <1>3, <1>4, <1>5, <1>6
<1>8. Effects("rename", n, m, S, T)
  BY <1>3, <1>5, <1>7 DEF Effects
<1> QED BY <1>8 DEF S, T

-----------------------------------------------------------------------------
(* An operation under way: its commit will have its effect and no other;   *)
(* once it has, the disk has what is in memory; the file of a create is    *)
(* not on disk before.                                                     *)
OpInv == op # NoOp =>
  /\ op.name \in Names /\ op.to \in Names
  /\ op.pc = "commit" =>
       /\ op.done = FALSE
       /\ Effects(op.kind, op.name, op.to, StoreIn(dirf, file), StoreIn(dirh.ents, file))
  /\ op.done => dirf = dirh.ents
  /\ op.kind = "create" => /\ dirh.ents[op.fh.idx].name = op.name
                           /\ op.done \/ op.fh.num \notin NumsOf(dirf)
                           /\ op.done => op.res = "ok"

(* The kinds of steps: one that nobody who opens an object can tell,       *)
QuietStore == /\ UNCHANGED <<dirf, op>> /\ SameFiles(dirf, file, file')
              /\ op # NoOp => UNCHANGED <<file, dirh>>

(* the begin of an operation,                                              *)
BeginStore == /\ op = NoOp /\ op' # NoOp /\ dirf' = dirf /\ SameFiles(dirf, file, file')
              /\ op'.pc = "commit" /\ OpInv'

(* its end,                                                                *)
EndStore ==
  /\ op # NoOp /\ op.pc = "end" /\ op' = NoOp /\ dirf' = dirf
  /\ IF op.kind = "create" /\ op.res = "error"
     THEN file' = [file EXCEPT ![op.fh.num] = NoFile]
     ELSE \A k \in NumsOf(dirf) : file'[k] = file[k]

(* the commit, or a reset.                                                 *)
StoreStep == QuietStore \/ BeginStore \/ EndStore \/ ree_fs \/ FsReset

LEMMA QuietFiles ==
  ASSUME UNCHANGED <<dirf, file, op>>, op # NoOp => dirh' = dirh
  PROVE  QuietStore
BY DEF QuietStore, SameFiles

LEMMA CreatedStore ==
  ASSUME PInv, PInv', op = NoOp, op' # NoOp, NEW t \in Threads, NEW n \in Names, Created(t, n)
  PROVE  BeginStore
<1>1. PICK k \in Nums, i \in 1..MaxFiles, c \in Contents :
        /\ k \notin NumsOf(dirf) /\ file' = [file EXCEPT ![k] = NewFile(c)]
        /\ Beside(dirf, dirh'.ents, i)
        /\ i \in Live(dirh'.ents) /\ dirh'.ents[i] = [name |-> n, num |-> k, hash |-> c]
        /\ i \in Live(dirf) => dirf[i].name = n
        /\ Begun(t, "create", n, n, [num |-> k, idx |-> i, ver |-> 0, bad |-> FALSE],
                 IF i \in Live(dirf) THEN dirf[i].num ELSE NoNum)
  BY DEF Created
<1>2. PICK d, e, fl : d = dirf /\ e = dirh'.ents /\ fl = file'
  OBVIOUS
<1>3. file \in Files /\ WellFormed(d)
  BY <1>2 DEF PInv, SInv, FsInv, Files
<1>4. WellFormed(e)
  BY <1>2 DEF PInv, SInv, FsInv, OpOK, HandleOK
<1>5. fl[k] = NewFile(c) /\ \A j \in Nums : j # k => fl[j] = file[j]
  BY <1>1, <1>2, <1>3 DEF Files
<1>6. NewFile(c) # NoFile /\ NewFile(c)[0] = c
  BY NonesAssumption DEF NewFile, Vers, FileVersions, Contents
<1>7. Has(fl, k, c)
  BY <1>5, <1>6 DEF Has, Vers
<1>8. e[i].name = n /\ e[i].num = k /\ e[i].hash = c /\ i \in Live(e) /\ Beside(d, e, i)
  BY <1>1, <1>2
<1>9. \A j \in Live(d) : d[j].num # e[i].num \/ d[j].hash # e[i].hash
  BY <1>1, <1>2, <1>8 DEF NumsOf
<1>10. Has(fl, e[i].num, e[i].hash) /\ (i \in Live(d) => d[i].name = n)
  BY <1>1, <1>2, <1>7, <1>8
<1>11. Effects("create", n, n, StoreIn(d, fl), StoreIn(e, fl))
  BY <1>3, <1>4, <1>8, <1>9, <1>10, PutEffect
<1>12. /\ op'.kind = "create" /\ op'.name = n /\ op'.to = n /\ op'.pc = "commit" /\ op'.done = FALSE
       /\ op'.fh.idx = i /\ op'.fh.num = k /\ dirf' = d
  BY <1>1, <1>2 DEF Begun
<1>13. OpInv'
  BY <1>1, <1>2, <1>8, <1>11, <1>12 DEF OpInv
<1>14. \A j \in NumsOf(d) : fl[j] = file[j]
  <2>1. NumsOf(d) \subseteq Nums
    BY <1>3, DirType DEF NumsOf
  <2> QED BY <1>1, <1>2, <1>5, <2>1
<1>15. SameFiles(d, file, fl)
  BY <1>14, OtherFiles
<1> QED BY <1>2, <1>12, <1>13, <1>15 DEF BeginStore

(* The file that is written keeps the version that was loaded.             *)
LEMMA LoadedKept ==
  ASSUME WellFormed(dirf), file \in Files, NEW f \in FileHandle, NEW n, Good(dirf, file, f, n),
         NEW c \in Contents, NEW fl, fl = [file EXCEPT ![f.num][1 - f.ver] = c]
  PROVE  SameFiles(dirf, file, fl) /\ Has(fl, f.num, c)
<1>1. /\ f.idx \in Live(dirf) /\ dirf[f.idx].num = f.num
      /\ file[f.num] # NoFile /\ file[f.num][f.ver] = dirf[f.idx].hash
  BY DEF Good
<1>2. f.num \in Nums /\ file[f.num] \in FileVersions /\ f.ver \in Vers
      /\ 1 - f.ver \in Vers /\ 1 - f.ver # f.ver
  BY <1>1 DEF FileHandle, Files, Vers
<1>3. PICK x : x = [file[f.num] EXCEPT ![1 - f.ver] = c]
  OBVIOUS
<1>4. x \in FileVersions /\ x[1 - f.ver] = c /\ x[f.ver] = file[f.num][f.ver]
  BY <1>2, <1>3 DEF FileVersions
<1>5. fl[f.num] = x /\ \A k \in Nums : k # f.num => fl[k] = file[k]
  BY <1>2, <1>3 DEF Files
<1>6. x # NoFile
  BY <1>4, NonesAssumption
<1>7. Has(fl, f.num, c) /\ Has(fl, f.num, dirf[f.idx].hash) /\ Has(file, f.num, dirf[f.idx].hash)
  BY <1>1, <1>2, <1>4, <1>5, <1>6 DEF Has
<1>8. ASSUME NEW i \in Live(dirf)
      PROVE  Has(fl, dirf[i].num, dirf[i].hash) <=> Has(file, dirf[i].num, dirf[i].hash)
  <2>1. CASE i = f.idx
    BY <1>1, <1>7, <2>1
  <2>2. CASE i # f.idx
    <3>1. dirf[i].num # f.num /\ dirf[i].num \in Nums
      BY <1>1, <2>2, DirType DEF WellFormed, Entry
    <3>2. fl[dirf[i].num] = file[dirf[i].num]
      BY <1>5, <3>1
    <3> QED BY <3>2 DEF Has
  <2> QED BY <2>1, <2>2
<1> QED BY <1>7, <1>8 DEF SameFiles

LEMMA WrittenStore ==
  ASSUME PInv, PInv', op = NoOp, op' # NoOp, NEW t \in Threads, NEW f \in FileHandle,
         NEW n \in Names, Good(dirf, file, f, n), Written(t, f)
  PROVE  BeginStore
<1>1. /\ f.idx \in Live(dirf) /\ dirf[f.idx].num = f.num /\ dirf[f.idx].name = n
  BY DEF Good
<1>2. PICK c \in Contents :
        /\ file' = [file EXCEPT ![f.num][1 - f.ver] = c]
        /\ Beside(dirf, dirh'.ents, f.idx) /\ f.idx \in Live(dirh'.ents)
        /\ dirh'.ents[f.idx] = [dirf[f.idx] EXCEPT !.hash = c]
        /\ c # dirf[f.idx].hash
        /\ Begun(t, "write", n, n, [f EXCEPT !.ver = 1 - f.ver], NoNum)
  BY <1>1 DEF Written
<1>3. PICK d, e, fl, i : d = dirf /\ e = dirh'.ents /\ fl = file' /\ i = f.idx
  OBVIOUS
<1>4. file \in Files /\ WellFormed(d) /\ d[i] \in Entry
  BY <1>1, <1>3, DirType DEF PInv, SInv, FsInv, Files
<1>5. WellFormed(e)
  BY <1>3 DEF PInv, SInv, FsInv, OpOK, HandleOK
<1>6. SameFiles(d, file, fl) /\ Has(fl, f.num, c)
  BY <1>2, <1>3, <1>4, LoadedKept
<1>7. /\ e[i].name = n /\ e[i].num = f.num /\ e[i].hash = c /\ i \in Live(e) /\ Beside(d, e, i)
  BY <1>1, <1>2, <1>3, <1>4 DEF Entry
<1>8. ASSUME NEW j \in Live(d) PROVE d[j].num # e[i].num \/ d[j].hash # e[i].hash
  BY <1>1, <1>2, <1>3, <1>4, <1>7 DEF WellFormed
<1>9. Has(fl, e[i].num, e[i].hash) /\ (i \in Live(d) => d[i].name = n)
  BY <1>1, <1>3, <1>6, <1>7
<1>10. Effects("write", n, n, StoreIn(d, fl), StoreIn(e, fl))
  BY <1>4, <1>5, <1>7, <1>8, <1>9, PutEffect
<1>11. /\ op'.kind = "write" /\ op'.name = n /\ op'.to = n /\ op'.pc = "commit" /\ op'.done = FALSE
       /\ dirf' = d
  BY <1>2, <1>3 DEF Begun
<1>12. OpInv'
  BY <1>3, <1>10, <1>11 DEF OpInv
<1> QED BY <1>3, <1>6, <1>11, <1>12 DEF BeginStore

LEMMA RenamedStore ==
  ASSUME PInv, PInv', op = NoOp, op' # NoOp, NEW t \in Threads, NEW n \in Names, NEW m \in Names,
         Renamed(t, n, m)
  PROVE  BeginStore
<1>1. PICK i \in Live(dirf) :
        /\ dirf[i].name = n /\ NoName(dirf, m) /\ UNCHANGED file
        /\ Beside(dirf, dirh'.ents, i)
        /\ i \in Live(dirh'.ents) /\ dirh'.ents[i] = [dirf[i] EXCEPT !.name = m]
        /\ Begun(t, "rename", n, m, Closed, NoNum)
  BY DEF Renamed
<1>2. PICK d, e, fl : d = dirf /\ e = dirh'.ents /\ fl = file'
  OBVIOUS
<1>3. WellFormed(d) /\ d[i] \in Entry /\ i \in Live(d)
  BY <1>2, DirType DEF PInv, SInv, FsInv
<1>4. WellFormed(e)
  BY <1>2 DEF PInv, SInv, FsInv, OpOK, HandleOK
<1>5. /\ e[i].name = m /\ e[i].num = d[i].num /\ e[i].hash = d[i].hash /\ i \in Live(e)
      /\ Beside(d, e, i) /\ d[i].name = n /\ NoName(d, m)
  BY <1>1, <1>2, <1>3 DEF Entry
<1>6. Effects("rename", n, m, StoreIn(d, fl), StoreIn(e, fl))
  BY <1>3, <1>4, <1>5, MoveEffect
<1>7. /\ op'.kind = "rename" /\ op'.name = n /\ op'.to = m /\ op'.pc = "commit" /\ op'.done = FALSE
      /\ dirf' = d
  BY <1>1, <1>2 DEF Begun
<1>8. OpInv'
  BY <1>2, <1>6, <1>7 DEF OpInv
<1> QED BY <1>1, <1>2, <1>7, <1>8 DEF BeginStore, SameFiles

LEMMA RemovedStore ==
  ASSUME PInv, PInv', op = NoOp, op' # NoOp, NEW t \in Threads, NEW n \in Names, Removed(t, n)
  PROVE  BeginStore
<1>1. PICK i \in Live(dirf) :
        /\ dirf[i].name = n /\ UNCHANGED file
        /\ Beside(dirf, dirh'.ents, i) /\ i \notin Live(dirh'.ents)
        /\ Begun(t, "remove", n, n, Closed, dirf[i].num)
  BY DEF Removed
<1>2. PICK d, e, fl : d = dirf /\ e = dirh'.ents /\ fl = file'
  OBVIOUS
<1>3. WellFormed(d) /\ i \in Live(d) /\ d[i].name = n /\ Beside(d, e, i) /\ i \notin Live(e)
  BY <1>1, <1>2 DEF PInv, SInv, FsInv
<1>4. WellFormed(e)
  BY <1>2 DEF PInv, SInv, FsInv, OpOK, HandleOK
<1>5. Effects("remove", n, n, StoreIn(d, fl), StoreIn(e, fl))
  BY <1>3, <1>4, RemoveEffect
<1>6. /\ op'.kind = "remove" /\ op'.name = n /\ op'.to = n /\ op'.pc = "commit" /\ op'.done = FALSE
      /\ dirf' = d
  BY <1>1, <1>2 DEF Begun
<1>7. OpInv'
  BY <1>2, <1>5, <1>6 DEF OpInv
<1> QED BY <1>1, <1>2, <1>6, <1>7 DEF BeginStore, SameFiles

(* The end of an operation.                                                *)
LEMMA EndIsEnd ==
  ASSUME PInv, TrackInv, OpInv, NEW t \in Threads,
         init_file_end(t) \/ write_end(t) \/ del_end(t) \/ rename_end(t)
  PROVE  EndStore
<1>1. PICK k : Returns(k)
  BY DEF init_file_end, write_end, del_end, rename_end, ree_fs_create_end, ree_fs_write_end,
     ree_fs_remove_end, ree_fs_rename_end
<1>2. op # NoOp /\ op.pc = "end" /\ op' = NoOp /\ dirf' = dirf /\ op.kind = k
  BY <1>1 DEF Returns
<1>3. OpOK /\ op.res \in {"ok", "error"} /\ file \in Files /\ WellFormed(dirf) /\ Adds
  BY <1>2 DEF PInv, SInv, FsInv, OpOK, Operation, Files, TrackInv
<1>4. ASSUME op.res = "ok", Unlink(op.old) PROVE \A j \in NumsOf(dirf) : file'[j] = file[j]
  <2>1. dirf = dirh.ents /\ NumsOf(dirf) \subseteq Nums
    BY <1>2, <1>3, <1>4, DirType DEF OpOK, NumsOf
  <2>2. op.old # NoNum => op.old \notin NumsOf(dirf)
    BY <1>2, <1>3, <2>1 DEF Adds
  <2> QED BY <1>3, <1>4, <2>1, <2>2 DEF Unlink, Files
<1>5. CASE init_file_end(t)
  <2>1. op.kind = "create" /\ IF op.res = "ok" THEN Unlink(op.old)
                              ELSE file' = [file EXCEPT ![op.fh.num] = NoFile]
    BY <1>5 DEF init_file_end, ree_fs_create_end, Returns
  <2> QED BY <1>2, <1>3, <1>4, <2>1 DEF EndStore
<1>6. CASE write_end(t) \/ rename_end(t)
  <2>1. op.kind # "create" /\ UNCHANGED file
    BY <1>6 DEF write_end, rename_end, ree_fs_write_end, ree_fs_rename_end, Returns
  <2> QED BY <1>2, <2>1 DEF EndStore
<1>7. CASE del_end(t)
  <2>1. op.kind # "create" /\ IF op.res = "ok" THEN Unlink(op.old) ELSE UNCHANGED file
    BY <1>7 DEF del_end, ree_fs_remove_end, Returns
  <2> QED BY <1>2, <1>3, <1>4, <2>1 DEF EndStore
<1> QED BY <1>5, <1>6, <1>7

(* What a write syncs is not the version that the directory names.         *)
LEMMA SyncedQuiet ==
  ASSUME PInv, TrackInv, NEW t \in Threads, Use(t, "WRITE"), ~obj[t].fh.bad, op = NoOp,
         MaybeSynced(obj[t].fh), UNCHANGED <<dirf, op>>
  PROVE  QuietStore
<1>1. FsInv /\ file \in Files /\ WellFormed(dirf)
  BY DEF PInv, SInv, FsInv, Files
<1>2. PICK f : f = obj[t].fh
  OBVIOUS
<1>3. file' \in {file, synced(f)}
  BY <1>2 DEF MaybeSynced
<1>4. CASE file' = file
  BY <1>1, <1>4, QuietFiles
<1>5. CASE file' = synced(f)
  <2>1. Claims(t) /\ f \in FileHandle
    BY <1>2, ActorFacts, UseLemma DEF Claims, Use, Idle
  <2>2. PICK n : n = ClaimName(t)
    OBVIOUS
  <2>3. Good(dirf, file, f, n)
    BY <1>1, <1>2, <2>1, <2>2, ClaimFacts
  <2>4. NextContent(f) \in Contents
    BY <1>1, FreshLemma DEF NextContent
  <2>5. file' = [file EXCEPT ![f.num][1 - f.ver] = NextContent(f)]
    BY <1>5 DEF synced
  <2>6. PICK c \in Contents : file' = [file EXCEPT ![f.num][1 - f.ver] = c]
    BY <2>4, <2>5
  <2>7. SameFiles(dirf, file, file')
    BY <1>1, <2>1, <2>3, <2>6, LoadedKept
  <2> QED BY <1>1, <2>7 DEF QuietStore
<1> QED BY <1>3, <1>4, <1>5

(* A failed create or write has not changed an object.                     *)
LEMMA FailsQuiet ==
  ASSUME PInv, TrackInv, NEW t \in Threads,
         \/ ree_fs_create_fails
         \/ Use(t, "WRITE") /\ ree_fs_write_fails(obj[t].fh)
  PROVE  QuietStore
<1>1. op = NoOp /\ UNCHANGED <<dirf, op>> /\ FsInv /\ file \in Files /\ WellFormed(dirf)
  BY DEF ree_fs_create_fails, ree_fs_write_fails, Usable, Unlocked, Refused, PInv, SInv, FsInv, Files
<1>2. CASE ree_fs_create_fails
  <2> DEFINE k == tee_fs_dirfile_get_tmp(get_dirh)
  <2>1. k \in Nums /\ Unlink(k)
    BY <1>2 DEF ree_fs_create_fails
  <2>2. HandleOK(get_dirh) /\ get_dirh.ents = dirf
    BY <1>1, GetDirh
  <2>3. k \notin NumsOf(dirf)
    BY <2>2, TmpLemma DEF HandleOK
  <2> HIDE DEF k
  <2>4. NumsOf(dirf) \subseteq Nums
    BY <1>1, DirType DEF NumsOf
  <2>5. \A j \in NumsOf(dirf) : file'[j] = file[j]
    BY <1>1, <2>1, <2>3, <2>4 DEF Unlink, Files
  <2>6. SameFiles(dirf, file, file')
    BY <2>5, OtherFiles
  <2> QED BY <1>1, <2>6 DEF QuietStore
<1>3. CASE Use(t, "WRITE") /\ ree_fs_write_fails(obj[t].fh)
  BY <1>1, <1>3, SyncedQuiet DEF ree_fs_write_fails
<1> QED BY <1>2, <1>3

LEMMA ThreadStore ==
  ASSUME PInv, PInv', TrackInv, OpInv, NEW t \in Threads,
         \/ \E n \in Names, f \in FlagSets : syscall_storage_obj_open(t, n, f)
                                             \/ syscall_storage_obj_create(t, n, f)
         \/ read_head(t) \/ init_file(t) \/ init_file_end(t)
         \/ syscall_storage_obj_read_fails(t)
         \/ syscall_storage_obj_write(t) \/ write_end(t)
         \/ syscall_storage_obj_trunc(t)
         \/ syscall_storage_obj_del(t) \/ del_end(t)
         \/ tee_obj_close(t) \/ obj_release(t)
         \/ \E m \in Names : syscall_storage_obj_rename(t, m)
         \/ rename_move(t) \/ rename_end(t) \/ rename_pobj(t) \/ rename_unreserve(t)
  PROVE  StoreStep
<1>1. FsInv /\ SInv /\ NamesKnown /\ ThreadOK(t) /\ (obj[t] # NoObj => NameOf(t) \in Names)
  BY ActorFacts
<1>2. CASE \/ \E n \in Names, f \in FlagSets : syscall_storage_obj_open(t, n, f)
                                               \/ syscall_storage_obj_create(t, n, f)
           \/ obj_release(t) \/ tee_obj_close(t)
           \/ \E m \in Names : syscall_storage_obj_rename(t, m)
           \/ rename_pobj(t) \/ rename_unreserve(t)
  <2>1. UNCHANGED <<dirf, file, op>> /\ (op # NoOp => dirh' = dirh)
    BY <1>2 DEF syscall_storage_obj_open, syscall_storage_obj_create, obj_get, obj_release,
       tee_obj_close, ree_fs_close, OnlyMemory, Unlocked,
       syscall_storage_obj_rename, rename_pobj, rename_unreserve, Stay, fsvars
  <2> QED BY <2>1, QuietFiles DEF StoreStep
<1>3. CASE read_head(t) \/ syscall_storage_obj_read_fails(t)
  <2>1. UNCHANGED <<dirf, file, op>> /\ op = NoOp
    BY <1>3 DEF read_head, ree_fs_open, ree_fs_open_not_found, ree_fs_open_corrupt,
       ree_fs_open_fails, OnlyMemory, Usable, Unlocked, syscall_storage_obj_read_fails
  <2> QED BY <2>1, QuietFiles DEF StoreStep
<1>9. CASE syscall_storage_obj_trunc(t)
  <2>1. /\ Use(t, "WRITE")
        /\ \/ ree_fs_truncate(obj[t].fh)
           \/ \E g : ree_fs_truncate_fails(obj[t].fh, g)
           \/ ree_fs_write_fails(obj[t].fh)
    BY <1>9 DEF syscall_storage_obj_trunc
  <2>2. /\ op = NoOp /\ ~obj[t].fh.bad /\ UNCHANGED <<dirf, op>>
    BY <2>1 DEF ree_fs_truncate, ree_fs_truncate_fails, ree_fs_write_fails, Refused, OnlyMemory,
       Usable, Unlocked
  <2>3. MaybeSynced(obj[t].fh)
    BY <2>1 DEF ree_fs_truncate, ree_fs_truncate_fails, ree_fs_write_fails, OnlyMemory, MaybeSynced
  <2> QED BY <2>1, <2>2, <2>3, SyncedQuiet DEF StoreStep
<1>4. CASE init_file_end(t) \/ write_end(t) \/ del_end(t) \/ rename_end(t)
  BY <1>4, EndIsEnd DEF StoreStep
<1>5. CASE init_file(t)
  <2>1. obj[t] # NoObj
    BY <1>1, <1>5 DEF init_file, ThreadOK
  <2>2. CASE ree_fs_create(t, NameOf(t))
    <3>1. PICK n \in Names : n = NameOf(t)
      BY <1>1, <2>1
    <3>2. op = NoOp /\ op' # NoOp /\ Created(t, n)
      BY <1>1, <2>2, <3>1, CreateLemma
    <3> QED BY <3>2, CreatedStore DEF StoreStep
  <2>3. CASE ree_fs_create_fails
    BY <2>3, FailsQuiet DEF StoreStep
  <2> QED BY <1>5, <2>2, <2>3 DEF init_file
<1>6. CASE syscall_storage_obj_write(t)
  <2>1. PICK f : f = obj[t].fh
    OBVIOUS
  <2>2. Use(t, "WRITE") /\ pc[t] = "idle" /\ obj[t] # NoObj /\ f \in FileHandle
    BY <1>1, <1>6, <2>1, UseLemma DEF syscall_storage_obj_write
  <2>3. CASE ree_fs_write(t, f)
    <3>1. op = NoOp /\ op' # NoOp /\ Written(t, f)
      BY <1>1, <2>2, <2>3, WriteLemma
    <3>2. PICK n \in Names : n = NameOf(t)
      BY <1>1, <2>2
    <3>3. Claims(t)
      BY <2>1, <2>2, <2>3 DEF Claims, Use, ree_fs_write
    <3>4. Good(dirf, file, f, n)
      BY <2>1, <2>2, <3>1, <3>2, <3>3, ClaimFacts DEF ClaimName
    <3> QED BY <2>2, <3>1, <3>2, <3>4, WrittenStore DEF StoreStep
  <2>4. CASE ree_fs_write_fails(f)
    BY <2>1, <2>2, <2>4, FailsQuiet DEF StoreStep
  <2> QED BY <1>6, <2>1, <2>3, <2>4 DEF syscall_storage_obj_write
<1>7. CASE syscall_storage_obj_del(t)
  <2>1. obj[t] # NoObj
    BY <1>1, <1>7 DEF syscall_storage_obj_del, CanDelete, Use, ThreadOK
  <2>2. CASE ree_fs_remove(t, NameOf(t))
    <3>1. PICK n \in Names : n = NameOf(t)
      BY <1>1, <2>1
    <3>2. op = NoOp /\ op' # NoOp /\ Removed(t, n)
      BY <1>1, <2>2, <3>1, RemoveLemma
    <3> QED BY <3>2, RemovedStore DEF StoreStep
  <2>3. CASE ree_fs_remove_fails
    BY <2>3, QuietFiles DEF StoreStep, ree_fs_remove_fails, Refused, Usable, Unlocked
  <2> QED BY <1>7, <2>2, <2>3 DEF syscall_storage_obj_del
<1>8. CASE rename_move(t)
  <2>1. obj[t] # NoObj /\ pobj[dst[t]].name \in Names
    BY <1>1, <1>8 DEF rename_move, ThreadOK, NamesKnown
  <2>2. PICK n \in Names, m \in Names : n = NameOf(t) /\ m = pobj[dst[t]].name
    BY <1>1, <2>1
  <2>3. CASE ree_fs_rename(t, n, m)
    <3>1. op = NoOp /\ op' # NoOp /\ Renamed(t, n, m)
      BY <1>1, <2>3, RenameLemma
    <3> QED BY <3>1, RenamedStore DEF StoreStep
  <2>4. CASE ree_fs_rename_fails
    BY <2>4, QuietFiles DEF StoreStep, ree_fs_rename_fails, Refused, Usable, Unlocked
  <2> QED BY <1>8, <2>2, <2>3, <2>4 DEF rename_move
<1> QED BY <1>2, <1>3, <1>4, <1>5, <1>6, <1>7, <1>8, <1>9

LEMMA NextStore ==
  ASSUME PInv, PInv', TrackInv, OpInv, [Next]_vars
  PROVE  StoreStep
<1>1. CASE crash \/ (\E t \in Threads : object_aborts(t)) \/ (\E e \in Enums : enum_aborts(e))
  BY <1>1 DEF crash, object_aborts, enum_aborts, FsCrash, Abort, StoreStep
<1>2. CASE ree_fs
  BY <1>2 DEF StoreStep
<1>3. CASE UNCHANGED vars
  BY <1>3, QuietFiles DEF vars, fsvars, StoreStep
<1>4. ASSUME NEW t \in Threads,
             \/ \E n \in Names, f \in FlagSets : syscall_storage_obj_open(t, n, f)
                                                 \/ syscall_storage_obj_create(t, n, f)
             \/ read_head(t) \/ init_file(t) \/ init_file_end(t)
             \/ syscall_storage_obj_read_fails(t)
             \/ syscall_storage_obj_write(t) \/ write_end(t)
             \/ syscall_storage_obj_trunc(t)
             \/ syscall_storage_obj_del(t) \/ del_end(t)
             \/ tee_obj_close(t) \/ obj_release(t)
             \/ \E m \in Names : syscall_storage_obj_rename(t, m)
             \/ rename_move(t) \/ rename_end(t) \/ rename_pobj(t) \/ rename_unreserve(t)
      PROVE  StoreStep
  BY <1>4, ThreadStore
<1>5. ASSUME NEW e \in Enums,
             \/ syscall_storage_start_enum(e) \/ syscall_storage_next_enum(e)
             \/ enum_read_head(e) \/ syscall_storage_reset_enum(e)
      PROVE  StoreStep
  <2>1. OnlyMemory /\ (op # NoOp => dirh' = dirh)
    BY <1>5 DEF syscall_storage_start_enum, syscall_storage_next_enum, enum_read_head,
       syscall_storage_reset_enum, ree_fs_opendir, ree_fs_opendir_fails, ree_fs_readdir,
       ree_fs_readdir_ends, ree_fs_open_close, ree_fs_open_fails, ree_fs_closedir, Stay, fsvars,
       Usable, Unlocked, OnlyMemory
  <2> QED BY <2>1, QuietFiles DEF OnlyMemory, StoreStep
<1> QED BY <1>1, <1>2, <1>3, <1>4, <1>5 DEF Next

(* The commit, as the abstract store sees it.                              *)
Commits ==
  \E b \in BOOLEAN, r \in {"ok", "error"} :
    /\ op # NoOp /\ op.pc = "commit" /\ UNCHANGED <<file, dirh>>
    /\ op' = [op EXCEPT !.pc = "end", !.done = b, !.res = r]
    /\ dirf' = (IF b THEN dirh.ents ELSE dirf) /\ (~b => r = "error")
    /\ op.kind = "create" /\ b => r = "ok"

LEMMA ReeFsCommits ==
  ASSUME PInv, ree_fs, Sound
  PROVE  Commits
<1>0. commit_dirh_writes \/ commit_dirh_writes_fails
  BY DEF ree_fs, open_dirh_replaces, Sound
<1>1. op # NoOp /\ op.pc = "commit" /\ UNCHANGED <<file, dirh>>
  BY <1>0 DEF commit_dirh_writes, commit_dirh_writes_fails
<1>2. op \in Operation /\ op.res = "ok"
  BY <1>1 DEF PInv, SInv, FsInv, OpOK
<1>3. CASE commit_dirh_writes
  <2>1. op' = [op EXCEPT !.pc = "end", !.done = TRUE, !.res = "ok"] /\ dirf' = dirh.ents
    BY <1>2, <1>3 DEF commit_dirh_writes, Operation
  <2> QED BY <1>1, <2>1 DEF Commits
<1>4. CASE commit_dirh_writes_fails
  <2>1. PICK b \in BOOLEAN :
          /\ b /\ op.kind = "create" => "create" \in mishaps
          /\ dirf' = IF b THEN dirh.ents ELSE dirf
          /\ op' = [op EXCEPT !.pc = "end", !.done = b, !.res = "error"]
    BY <1>4 DEF commit_dirh_writes_fails
  <2>2. ~(op.kind = "create" /\ b)
    BY <2>1 DEF Sound
  <2> QED BY <1>1, <2>1, <2>2 DEF Commits
<1> QED BY <1>0, <1>3, <1>4

LEMMA NextOp ==
  ASSUME PInv, OpInv, StoreStep, Sound
  PROVE  OpInv'
<1>1. CASE QuietStore
  BY <1>1 DEF QuietStore, OpInv
<1>2. CASE BeginStore
  BY <1>2 DEF BeginStore
<1>3. CASE EndStore \/ FsReset
  BY <1>3 DEF EndStore, FsReset, OpInv
<1>4. CASE ree_fs
  <2>1. PICK b \in BOOLEAN, r \in {"ok", "error"} :
          /\ op # NoOp /\ op.pc = "commit" /\ UNCHANGED <<file, dirh>>
          /\ op' = [op EXCEPT !.pc = "end", !.done = b, !.res = r]
          /\ dirf' = (IF b THEN dirh.ents ELSE dirf)
          /\ op.kind = "create" /\ b => r = "ok"
    BY <1>4, ReeFsCommits DEF Commits
  <2>2. op \in Operation
    BY <2>1 DEF PInv, SInv, FsInv, OpOK
  <2>3. /\ op'.name = op.name /\ op'.to = op.to /\ op'.pc = "end" /\ op'.done = b
        /\ op'.kind = op.kind /\ op'.fh = op.fh /\ op'.res = r
    BY <2>1, <2>2 DEF Operation
  <2>4. /\ op.name \in Names /\ op.to \in Names
        /\ op.kind = "create" => /\ dirh.ents[op.fh.idx].name = op.name
                                 /\ op.fh.num \notin NumsOf(dirf)
    BY <2>1 DEF OpInv
  <2> QED BY <2>1, <2>3, <2>4 DEF OpInv
<1> QED BY <1>1, <1>2, <1>3, <1>4 DEF StoreStep

-----------------------------------------------------------------------------
(* The variables of the abstract store.                                    *)
Stored == [n \in Names |-> Content(n)]
Asked == IF op = NoOp THEN NoOp
         ELSE [kind |-> op.kind, name |-> op.name, to |-> op.to, done |-> op.done,
               res |-> IF op.pc = "commit" THEN "none" ELSE op.res]

LEMMA StoredLemma ==
  Stored = StoreIn(dirf, file) /\ Stored' = StoreIn(dirf', file')
<1>1. \A n : Content(n) = ContentIn(dirf, file, n)
  BY DEF Content, ContentIn, VersionOf, Has
<1>2. \A n : Content(n)' = ContentIn(dirf', file', n)
  BY DEF Content, ContentIn, VersionOf, Has
<1> QED BY <1>1, <1>2 DEF Stored, StoreIn

LEMMA AskedLemma ==
  ASSUME PInv, OpInv, op # NoOp
  PROVE  /\ Asked # NoOp
         /\ Asked = [kind |-> op.kind, name |-> op.name, to |-> op.to, done |-> op.done,
                     res |-> IF op.pc = "commit" THEN "none" ELSE op.res]
         /\ op.kind \in Store!Kinds /\ op.done \in BOOLEAN /\ op.res \in {"ok", "error"}
<1>1. Asked = [kind |-> op.kind, name |-> op.name, to |-> op.to, done |-> op.done,
               res |-> IF op.pc = "commit" THEN "none" ELSE op.res]
  BY DEF Asked
<1>2. op \in Operation /\ op.name \in Names /\ op.to \in Names
  BY DEF PInv, SInv, FsInv, OpOK, OpInv
<1>3. /\ op.kind \in {"create", "write", "rename", "remove"} /\ op.done \in BOOLEAN
      /\ op.res \in {"ok", "error"}
  BY <1>2 DEF Operation
<1>4. Asked \in [kind : {"create", "write", "rename", "remove"}, name : Names, to : Names,
                 done : BOOLEAN, res : {"none", "ok", "error"}]
  BY <1>1, <1>2, <1>3
<1> QED BY <1>1, <1>3, <1>4, NoRequestAssumption DEF Store!Kinds

(* The same in the next state.                                             *)
LEMMA AskedNext ==
  ASSUME PInv', OpInv', op' # NoOp
  PROVE  /\ Asked' # NoOp
         /\ Asked' = [kind |-> op'.kind, name |-> op'.name, to |-> op'.to, done |-> op'.done,
                      res |-> IF op'.pc = "commit" THEN "none" ELSE op'.res]
         /\ op'.kind \in Store!Kinds
<1>1. Asked' = [kind |-> op'.kind, name |-> op'.name, to |-> op'.to, done |-> op'.done,
                res |-> IF op'.pc = "commit" THEN "none" ELSE op'.res]
  BY DEF Asked
<1>2. op' \in Operation /\ op'.name \in Names /\ op'.to \in Names
  BY DEF PInv, SInv, FsInv, OpOK, OpInv
<1>3. /\ op'.kind \in {"create", "write", "rename", "remove"} /\ op'.done \in BOOLEAN
      /\ op'.res \in {"ok", "error"}
  BY <1>2 DEF Operation
<1>4. Asked' \in [kind : {"create", "write", "rename", "remove"}, name : Names, to : Names,
                  done : BOOLEAN, res : {"none", "ok", "error"}]
  BY <1>1, <1>2, <1>3
<1> QED BY <1>1, <1>3, <1>4, NoRequestAssumption DEF Store!Kinds

(* The steps of the abstract store, in these names.                        *)
LEMMA StoreNext ==
  ASSUME \/ Stored' = Stored /\ Asked' = Asked
         \/ Stored' = Stored /\ Asked' = NoOp
         \/ /\ Asked = NoOp /\ Stored' = Stored
            /\ Asked' \in [kind : Store!Kinds, name : Names, to : Names, done : {FALSE}, res : {"none"}]
         \/ /\ Asked # NoOp /\ Asked.res = "none"
            /\ \/ Asked' = [Asked EXCEPT !.res = "error"] /\ Stored' = Stored
               \/ /\ Effects(Asked.kind, Asked.name, Asked.to, Stored, Stored')
                  /\ \E r \in {"ok", "error"} : Asked' = [Asked EXCEPT !.done = TRUE, !.res = r]
  PROVE  [Store!Next]_(Store!vars)
BY DEF Stored, Asked, Effects, Store!Next, Store!vars, Store!Begin, Store!Commit, Store!Effect,
   Store!Put, Store!Pending, Store!Fail, Store!Return, Store!Crash

(* What a failure does to the request.                                     *)
LEMMA FailRequest ==
  ASSUME NEW k, NEW n, NEW m, NEW r, NEW q, NEW p,
         q = [kind |-> k, name |-> n, to |-> m, done |-> FALSE, res |-> "none"],
         p = [kind |-> k, name |-> n, to |-> m, done |-> FALSE, res |-> r]
  PROVE  p = [q EXCEPT !.res = r]
<1> DEFINE R(x) == [kind : {k}, name : {n}, to : {m}, done : BOOLEAN, res : {x}]
           f == [q EXCEPT !.res = r]
<1>1. q \in R("none") /\ q.done = FALSE
  OBVIOUS
<1>2. p \in R(r) /\ p.done = FALSE
  OBVIOUS
<1>3. f \in R(r) /\ f.done = FALSE
  BY <1>1
<1> HIDE DEF f
<1>4. p = f
  BY <1>2, <1>3
<1> QED BY <1>4 DEF f

(* Every step is one of the abstract store, or none.                       *)
LEMMA StepStore ==
  ASSUME PInv, PInv', TrackInv, OpInv, OpInv', StoreStep, Sound
  PROVE  [Store!Next]_(Store!vars)
<1>1. WellFormed(dirf) /\ file \in Files
  BY DEF PInv, SInv, FsInv, Files
<1>2. ASSUME dirf' = dirf, SameFiles(dirf, file, file') PROVE Stored' = Stored
  BY <1>1, <1>2, SameStore, StoredLemma
<1>3. CASE QuietStore
  <2>1. Stored' = Stored /\ Asked' = Asked
    BY <1>2, <1>3 DEF QuietStore, Asked
  <2> QED BY <2>1, StoreNext
<1>4. CASE BeginStore
  <2>1. Stored' = Stored /\ Asked = NoOp /\ op' # NoOp /\ op'.pc = "commit"
    BY <1>2, <1>4 DEF BeginStore, Asked
  <2>2. Asked' \in [kind : Store!Kinds, name : Names, to : Names, done : {FALSE}, res : {"none"}]
    <3>1. op'.name \in Names /\ op'.to \in Names /\ op'.done = FALSE
      BY <2>1 DEF OpInv
    <3>2. op'.kind \in Store!Kinds
      BY <2>1, AskedNext
    <3>3. Asked' = [kind |-> op'.kind, name |-> op'.name, to |-> op'.to, done |-> FALSE, res |-> "none"]
      BY <2>1, <3>1, AskedNext
    <3>4. PICK k, n, m : k = op'.kind /\ n = op'.name /\ m = op'.to
      OBVIOUS
    <3> QED BY <3>1, <3>2, <3>3, <3>4
  <2> QED BY <2>1, <2>2, StoreNext
<1>5. CASE ree_fs
  <2>1. PICK b \in BOOLEAN, r \in {"ok", "error"} :
          /\ op # NoOp /\ op.pc = "commit" /\ UNCHANGED <<file, dirh>>
          /\ op' = [op EXCEPT !.pc = "end", !.done = b, !.res = r]
          /\ dirf' = (IF b THEN dirh.ents ELSE dirf) /\ (~b => r = "error")
    BY <1>5, ReeFsCommits DEF Commits
  <2>2. op \in Operation /\ op.done = FALSE
        /\ Effects(op.kind, op.name, op.to, StoreIn(dirf, file), StoreIn(dirh.ents, file))
    BY <2>1 DEF PInv, SInv, FsInv, OpOK, OpInv
  <2>3. /\ op' \in Operation /\ op'.name = op.name /\ op'.to = op.to /\ op'.pc = "end"
        /\ op'.done = b /\ op'.kind = op.kind /\ op'.res = r
    BY <2>1, <2>2 DEF Operation
  <2>4. op' # NoOp
    BY <2>3, NoOpAssumption
  <2>5. /\ Asked # NoOp
        /\ Asked = [kind |-> op.kind, name |-> op.name, to |-> op.to, done |-> FALSE, res |-> "none"]
    BY <2>1, <2>2, AskedLemma
  <2>6. Asked' = [kind |-> op.kind, name |-> op.name, to |-> op.to, done |-> b, res |-> r]
    BY <2>3, <2>4, AskedNext
  <2>7. Asked.res = "none" /\ Asked.kind = op.kind /\ Asked.name = op.name /\ Asked.to = op.to
    BY <2>5
  <2>8. CASE b = TRUE
    <3>1. Stored' = StoreIn(dirh.ents, file) /\ Stored = StoreIn(dirf, file)
      BY <2>1, <2>8, StoredLemma
    <3>2. Effects(Asked.kind, Asked.name, Asked.to, Stored, Stored')
      BY <2>2, <2>7, <3>1
    <3>3. Asked' = [kind |-> op.kind, name |-> op.name, to |-> op.to, done |-> TRUE, res |-> r]
      BY <2>6, <2>8
    <3>4. Asked' = [Asked EXCEPT !.done = TRUE, !.res = r]
      <4>1. PICK k, n, m, q, p : /\ k = op.kind /\ n = op.name /\ m = op.to
                                 /\ q = Asked /\ p = Asked'
        OBVIOUS
      <4>2. /\ q = [kind |-> k, name |-> n, to |-> m, done |-> FALSE, res |-> "none"]
            /\ p = [kind |-> k, name |-> n, to |-> m, done |-> TRUE, res |-> r]
        BY <2>5, <3>3, <4>1
      <4> DEFINE R(x) == [kind : {k}, name : {n}, to : {m}, done : BOOLEAN, res : {x}]
                 c == [q EXCEPT !.done = TRUE, !.res = r]
      <4>3. q \in R("none") /\ p \in R(r) /\ p.done = TRUE
        BY <4>2
      <4>4. c \in R(r) /\ c.done = TRUE
        BY <4>3
      <4> HIDE DEF c
      <4>5. p = c
        BY <4>3, <4>4
      <4> QED BY <4>1, <4>5 DEF c
    <3> QED BY <2>5, <2>7, <3>2, <3>4, StoreNext
  <2>9. CASE b = FALSE
    <3>1. Stored' = Stored
      BY <2>1, <2>9, StoredLemma
    <3>2. Asked' = [kind |-> op.kind, name |-> op.name, to |-> op.to, done |-> FALSE, res |-> "error"]
      BY <2>1, <2>6, <2>9
    <3>3. Asked' = [Asked EXCEPT !.res = "error"]
      <4>1. PICK k, n, m, q, p : /\ k = op.kind /\ n = op.name /\ m = op.to
                                 /\ q = Asked /\ p = Asked'
        OBVIOUS
      <4>2. /\ q = [kind |-> k, name |-> n, to |-> m, done |-> FALSE, res |-> "none"]
            /\ p = [kind |-> k, name |-> n, to |-> m, done |-> FALSE, res |-> "error"]
        BY <2>5, <3>2, <4>1
      <4>3. p = [q EXCEPT !.res = "error"]
        BY <4>2, FailRequest
      <4> QED BY <4>1, <4>3
    <3> QED BY <2>5, <2>7, <3>1, <3>3, StoreNext
  <2> QED BY <2>8, <2>9
<1>6. CASE FsReset
  <2>1. /\ Asked' = NoOp /\ dirf' = dirf
        /\ file' = [k \in Nums |-> IF k \in NumsOf(dirf) THEN file[k] ELSE NoFile]
    BY <1>6 DEF FsReset, Asked
  <2>2. NumsOf(dirf) \subseteq Nums
    BY <1>1, DirType DEF NumsOf
  <2>3. SameFiles(dirf, file, file')
    BY <2>1, <2>2, OtherFiles
  <2>4. Stored' = Stored
    BY <1>2, <2>1, <2>3
  <2> QED BY <2>1, <2>4, StoreNext
<1>7. CASE EndStore
  <2>1. op # NoOp /\ op.pc = "end" /\ Asked' = NoOp /\ dirf' = dirf /\ op \in Operation
    BY <1>7 DEF EndStore, Asked, PInv, SInv, FsInv, OpOK
  <2>2. CASE ~(op.kind = "create" /\ op.res = "error")
    <3>1. SameFiles(dirf, file, file')
      BY <1>7, <2>2, OtherFiles DEF EndStore
    <3>2. Stored' = Stored
      BY <1>2, <2>1, <3>1
    <3> QED BY <2>1, <3>2, StoreNext
  <2>3. CASE op.kind = "create" /\ op.res = "error" /\ ~op.done
    <3>1. op.fh.num \notin NumsOf(dirf) /\ NumsOf(dirf) \subseteq Nums
      BY <1>1, <2>1, <2>3, DirType DEF OpInv, NumsOf
    <3>2. file' = [file EXCEPT ![op.fh.num] = NoFile]
      BY <1>7, <2>3 DEF EndStore
    <3>3. \A k \in NumsOf(dirf) : file'[k] = file[k]
      BY <1>1, <3>1, <3>2 DEF Files
    <3>4. SameFiles(dirf, file, file')
      BY <3>3, OtherFiles
    <3>5. Stored' = Stored
      BY <1>2, <2>1, <3>4
    <3> QED BY <2>1, <3>5, StoreNext
  <2>4. CASE op.kind = "create" /\ op.res = "error" /\ op.done
    BY <2>1, <2>4 DEF OpInv
  <2>5. op.res \in {"ok", "error"} /\ op.done \in BOOLEAN
    BY <2>1 DEF Operation
  <2> QED BY <2>2, <2>3, <2>4, <2>5
<1> QED BY <1>3, <1>4, <1>5, <1>6, <1>7 DEF StoreStep

(* secure_storage.md:9, 193: the file system's create, write, rename and   *)
(* delete are atomic, whichever RPC fails and whenever the power goes      *)
(* (ObjStore.tla), unless one of five mishaps is met.                      *)
THEOREM StoreIsAtomic ==
  ASSUME Unshared
  PROVE  Spec => IsSoundStore
<1> DEFINE I == Sound => OpInv
           A == Sound => UNCHANGED <<dirf, file, op>> \/ Store!Next
<1>1. ASSUME Init PROVE I /\ Store!Init
  BY <1>1 DEF Init, FsInit, OpInv, Store!Init
<1>2. ASSUME PInv, PInv', Tame => TrackInv, I, [Next]_vars
      PROVE  I' /\ [A]_(Store!vars)
  <2>1. UNCHANGED mishaps
    BY <1>2, MishapsStay
  <2> SUFFICES ASSUME Sound PROVE OpInv' /\ [Store!Next]_(Store!vars)
    BY <2>1 DEF Sound
  <2>2. TrackInv /\ OpInv
    BY <1>2 DEF Sound, Tame
  <2> QED BY <1>2, <2>2, NextStore, NextOp, StepStore
<1>3. Spec => [](PInv /\ (Tame => TrackInv))
  BY TrackInvariance
<1> QED BY <1>1, <1>2, <1>3, PTL DEF Spec, IsSoundStore
=============================================================================
