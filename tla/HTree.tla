-------------------------------- MODULE HTree --------------------------------
(***************************************************************************)
(* One file of the REE file system (core/tee/fs_htree.c, used the way      *)
(* core/tee/tee_ree_fs.c uses it): a binary hash tree over the data        *)
(* blocks, of which every element (header, node, block) has two versions   *)
(* on disk, one committed and one to be written.                           *)
(*                                                                         *)
(* Every write RPC to the normal world is one step.  Between two of them,  *)
(* or in the middle of one, the power may go or the RPC may fail; the      *)
(* tree in memory is then gone.  Writes reach the disk in order (the files *)
(* are open with O_SYNC); an interrupted write leaves the old element, the *)
(* new one or neither, except that a header, which lies in the first       *)
(* sector, is written whole (external).                                    *)
(*                                                                         *)
(* Data: a block is written with a fresh IV each time, so no two writes    *)
(* are alike on disk; the n-th write is the number n.  A tag is the number *)
(* it authenticates, and a hash is the tuple of the four things it hashes. *)
(* Lengths are in blocks.                                                  *)
(***************************************************************************)
EXTENDS Integers, Sequences, SequencesExt

CONSTANTS MaxBlocks,   \* bound on the blocks of the file
          MaxWrites,   \* bound on the writes of blocks
          MaxCut,      \* a truncation leaves at most so many blocks less
                       \* than the tree has nodes
          WriteAhead,  \* the TA goes on with an object whose tree on the
                       \* disk is ahead of its directory entry; otherwise
                       \* it closes it
          CounterMod,  \* the counter of the header is a uint32_t
          NoFile, Closed, Zero, Torn

ASSUME BoundsAssumption == /\ MaxBlocks \in Nat \ {0} /\ MaxWrites \in Nat
                           /\ MaxCut \in Nat /\ WriteAhead \in BOOLEAN
                           /\ CounterMod \in Nat
                           /\ CounterMod > (MaxBlocks + 1) * MaxWrites + 2

Vers == {0, 1}
Ids == 1..MaxBlocks          \* node ids; block b belongs to node b + 1
Blocks == 0..MaxBlocks - 1
Data == 1..MaxWrites

ASSUME NonesAssumption == {NoFile, Closed} \cap Seq(Data \cup {Zero, Torn}) = {}

(* What stands in the place of a hash, and is none: of a node that was     *)
(* never written, of one whose write was interrupted, of a file without a  *)
(* name.                                                                   *)
ZeroHash == <<>>
TornHash == <<Torn>>
NoHash == <<NoFile>>

VARIABLES
  head,     \* disk: tee_fs_htree_image, both versions
  node,     \* disk: tee_fs_htree_node_image of each node, both versions
  block,    \* disk: the data blocks, both versions
  hash,     \* the root hash the owner of the file trusts: its directory
            \* entry (or RPMB), NoHash before the file has a name
  anchored, \* the file is opened with a hash; otherwise by the counters
  ht,       \* struct tee_fs_htree in memory, or Closed
  pc,       \* what is done with it
  seq       \* writes so far

vars == <<head, node, block, hash, anchored, ht, pc, seq>>
disk == <<head, node, block>>

ZeroImage == [hash |-> ZeroHash, tag |-> Zero, blk |-> 0, child |-> <<0, 0>>]
ZeroHead == [counter |-> 0, root |-> ZeroHash, max |-> 0, len |-> 0]

Init == /\ head = [v \in Vers |-> ZeroHead]
        /\ node = [n \in Ids |-> [v \in Vers |-> ZeroImage]]
        /\ block = [b \in Blocks |-> [v \in Vers |-> Zero]]
        /\ hash = NoHash
        /\ anchored \in BOOLEAN
        /\ ht = Closed
        /\ pc = "closed"
        /\ seq = 0

-----------------------------------------------------------------------------
(* The tree.  T is the sequence of node images 1..n.                       *)
Parent(n) == n \div 2
Side(n) == (n % 2) + 1       \* n & 1, as an index of a pair
Children(T, n) == {c \in {2 * n, 2 * n + 1} : c <= Len(T)}

(* calc_node_hash                                                          *)
calc_node_hash(T, n) ==
  <<T[n].tag, T[n].blk, T[n].child, [c \in Children(T, n) |-> T[c].hash]>>

(* get_idx_from_counter; -1 is no usable header.                           *)
get_idx_from_counter(c0, c1) ==
  IF c0 % 2 = 0
  THEN IF c1 % 2 = 0 \/ c0 > c1 THEN 0 ELSE 1
  ELSE IF c1 % 2 = 1 THEN 1 ELSE -1

(* init_head_from_data: the version that is committed, or -1.              *)
HeadVersion ==
  IF anchored
  THEN IF hash = NoHash THEN -1
       ELSE IF node[1][0].hash = hash THEN 0
       ELSE IF node[1][1].hash = hash THEN 1 ELSE -1
  ELSE get_idx_from_counter(head[0].counter, head[1].counter)

(* The nodes 1..n of the images N below the root of version v, each in the *)
(* version its parent says.                                                *)
TreeFrom(N, n, v) ==
  LET img[i \in 1..n] == IF i = 1 THEN N[1][v]
                         ELSE N[i][img[Parent(i)].child[Side(i)]]
  IN [i \in 1..n |-> img[i]]

(* There is always a root.                                                 *)
NodeCount(max) == IF max < 1 THEN 1 ELSE max

init_tree_from_data(v) == TreeFrom(node, NodeCount(head[v].max), v)

(* verify_root, verify_tree.                                               *)
Verified(v) ==
  LET T == init_tree_from_data(v)
  IN /\ head[v].root = T[1].hash /\ T[1].hash # ZeroHash
     /\ \A i \in DOMAIN T : T[i].hash = calc_node_hash(T, i)

(* What tee_fs_htree_open finds on the disk.                               *)
Openable == HeadVersion # -1 /\ Verified(HeadVersion)

Loaded == LET h == head[HeadVersion]
          IN [counter |-> h.counter, max |-> h.max, len |-> h.len, dirty |-> FALSE,
              node |-> init_tree_from_data(HeadVersion),
              changed |-> {}, updated |-> {}]

(* Authenticated encryption accepts what was encrypted with the same tag.  *)
Authentic(image, tag) == image = tag

(* tee_fs_htree_read_block: there is a node, and the block has its tag.    *)
Readable(t, b) == /\ b < Len(t.node)
                  /\ Authentic(block[b][t.node[b + 1].blk], t.node[b + 1].tag)

-----------------------------------------------------------------------------
(* init_root_node and what else tee_fs_htree_open sets up for a new file.  *)
(* The root is not marked dirty.                                           *)
NewTree == [counter |-> 0, max |-> 0, len |-> 0, dirty |-> TRUE,
            node |-> <<[ZeroImage EXCEPT !.hash = calc_node_hash(<<ZeroImage>>, 1)]>>,
            changed |-> {}, updated |-> {}]

(* ree_fs_create up to the call of tee_fs_htree_sync_to_storage in         *)
(* tee_fs_htree_open; the file is empty on disk.  ree_fs_create goes on    *)
(* with writes, a sync and set_name, or the file is removed.               *)
tee_fs_htree_create ==
  /\ pc = "closed" /\ ~Openable
  /\ head' = [v \in Vers |-> ZeroHead]
  /\ node' = [n \in Ids |-> [v \in Vers |-> ZeroImage]]
  /\ block' = [b \in Blocks |-> [v \in Vers |-> Zero]]
  /\ ht' = NewTree
  /\ pc' = "create"
  /\ UNCHANGED <<hash, anchored, seq>>

tee_fs_htree_open ==
  /\ pc = "closed" /\ Openable
  /\ ht' = Loaded
  /\ pc' = "open"
  /\ UNCHANGED <<disk, hash, anchored, seq>>

(* tee_fs_htree_close, after an error too; what was not synced is lost.    *)
Lose == ht' = Closed /\ pc' = "closed" /\ UNCHANGED <<hash, anchored>>

tee_fs_htree_close == pc \in {"open", "extended", "stale"} /\ Lose /\ UNCHANGED <<disk, seq>>

(* A read of a block the file has changes nothing, unless the RPC fails or *)
(* the block is not authentic: then the tree is closed.                    *)
ree_fs_read_fails ==
  pc \in {"open", "extended"} /\ ht.len > 0 /\ Lose /\ UNCHANGED <<disk, seq>>

crash == pc # "closed" /\ Lose /\ UNCHANGED <<disk, seq>>

-----------------------------------------------------------------------------
(* Definitions marked "Fault" are wrong on purpose: each stands in for the *)
(* definition after it to show that a property notices the mistake.        *)

(* The nodes T with those that are missing up to node n.                   *)
Extended(T, n) == [i \in 1..n |-> IF i <= Len(T) THEN T[i] ELSE ZeroImage]

(* Fault: imeta.max_node_id stays behind.                                  *)
get_node_uncounted(t, n) == IF n <= Len(t.node) THEN t
                            ELSE [t EXCEPT !.node = Extended(@, n)]

(* get_node to create node n.                                              *)
get_node(t, n) == IF n <= Len(t.node) THEN t
                  ELSE [t EXCEPT !.node = Extended(@, n), !.max = n]

(* Fault: the committed version of the block is overwritten.               *)
BlockInPlace(t, b) == LET u == get_node(t, b + 1)
                      IN [u EXCEPT !.node[b + 1].tag = seq + 1,
                            !.updated = @ \cup {b + 1}, !.changed = @ \cup {b + 1},
                            !.dirty = TRUE, !.len = IF b = @ THEN b + 1 ELSE @]

(* The tree after tee_fs_htree_write_block, and the new file length.       *)
BlockWritten(t, b) ==
  LET u == get_node(t, b + 1)
      n == b + 1
  IN [u EXCEPT !.node[n].tag = seq + 1,
               !.node[n].blk = IF n \in u.updated THEN @ ELSE 1 - @,
               !.updated = @ \cup {n}, !.changed = @ \cup {n},
               !.dirty = TRUE, !.len = IF b = @ THEN n ELSE @]

(* out_of_place_write of block b, one pass of its loop: a block the file   *)
(* has already is read first.                                              *)
CanWrite(b) == pc \in {"open", "extended", "write"} /\ b <= ht.len /\ seq < MaxWrites

out_of_place_write(b) ==
  LET t == BlockWritten(ht, b) IN
  /\ CanWrite(b) /\ (b < ht.len => Readable(ht, b))
  /\ ht' = t
  /\ block' = [block EXCEPT ![b][t.node[b + 1].blk] = seq + 1]
  /\ seq' = seq + 1
  /\ UNCHANGED <<head, node, hash, anchored>>

(* ree_fs_write: after the last block comes the sync.                      *)
write_block(b) == out_of_place_write(b) /\ pc' = "write"

(* ree_fs_truncate to more than the file has, which is for objects and not *)
(* for the directory file: the last block is filled, or blocks are added,  *)
(* and the tree is left as it is then, dirty and not synced.  One step is  *)
(* one block; a longer extension is several.                               *)
Named == anchored /\ hash # NoHash

ree_fs_extend(b) ==
  /\ Named /\ pc \in {"open", "extended"} /\ ht.len <= b + 1
  /\ out_of_place_write(b)
  /\ pc' = "extended"

(* The write or the extension fails.  ree_fs_truncate then reports success *)
(* all the same, and what is done next with the handle but to close it     *)
(* follows a null pointer, which for the disk is a crash.                  *)

write_block_fails(b) ==
  LET v == BlockWritten(ht, b).node[b + 1].blk IN
  /\ CanWrite(b)
  /\ IF b < ht.len /\ ~Readable(ht, b) THEN UNCHANGED <<block, seq>>
     ELSE /\ \E x \in {seq + 1, Torn} : block' = [block EXCEPT ![b][v] = x]
          /\ seq' = seq + 1
  /\ Lose
  /\ UNCHANGED <<head, node>>

(* ree_fs_truncate to n blocks, no more than the file has.                 *)
(* tee_fs_htree_truncate keeps the nodes up to n + 1 and marks no node     *)
(* dirty; the file loses the blocks after block n in both versions; and it *)
(* is not synced.                                                          *)
tee_fs_htree_truncate(t, n) ==
  IF n + 1 < t.max
  THEN [t EXCEPT !.node = SubSeq(@, 1, n + 1), !.max = n + 1, !.dirty = TRUE,
                 !.changed = @ \cap 1..n + 1, !.updated = @ \cap 1..n + 1]
  ELSE t

CanTruncate(n) == /\ Named /\ pc \in {"open", "extended"} /\ n <= ht.len
                  /\ n + MaxCut >= Len(ht.node)

ree_fs_truncate(n) ==
  /\ CanTruncate(n)
  /\ ht' = [tee_fs_htree_truncate(ht, n) EXCEPT !.len = n]
  /\ block' = [b \in Blocks |-> IF b <= n THEN block[b] ELSE [v \in Vers |-> Zero]]
  /\ UNCHANGED <<head, node, hash, anchored, pc, seq>>

(* When the truncate RPC fails, the tree is synced instead, with whatever  *)
(* an extension left, and the directory is not told.                       *)
ree_fs_truncate_fails(n) ==
  /\ CanTruncate(n)
  /\ ht' = tee_fs_htree_truncate(ht, n)
  /\ pc' = IF ht'.dirty THEN "resync" ELSE "open"
  /\ UNCHANGED <<disk, hash, anchored, seq>>

-----------------------------------------------------------------------------
(* tee_fs_htree_sync_to_storage.  "sync" is followed by the update of the  *)
(* hash the owner trusts, "resync" and "create" are not.                   *)
Syncing == pc \in {"sync", "resync", "create"}

sync_to_storage == /\ pc = "write"
                   /\ pc' = "sync"
                   /\ UNCHANGED <<disk, hash, anchored, ht, seq>>

(* traverse_post_order over the nodes 1..m.                                *)
PostOrder(m) ==
  LET post[n \in 1..m] ==
        (IF 2 * n <= m THEN post[2 * n] ELSE <<>>)
        \o (IF 2 * n + 1 <= m THEN post[2 * n + 1] ELSE <<>>) \o <<n>>
  IN post[1]

(* htree_sync_node_to_storage of node n in memory, and the version.        *)
NodeSynced(t, n) ==
  LET p == Parent(n)
      u == IF n = 1 THEN t
           ELSE [t EXCEPT !.node[p].child[Side(n)] = 1 - @, !.changed = @ \cup {p}]
  IN [u EXCEPT !.node[n].hash = calc_node_hash(u.node, n),
               !.changed = @ \ {n}, !.updated = @ \ {n}]

NodeVersion(t, n) == IF n = 1 THEN 1 - (t.counter % 2)
                     ELSE t.node[Parent(n)].child[Side(n)]

(* The traversal passes over the nodes that are not dirty.                 *)
FirstDirty(t) == LET s == PostOrder(Len(t.node))
                 IN s[SelectInSeq(s, LAMBDA n : n \in t.changed)]

sync_node ==
  LET n == FirstDirty(ht)
      t == NodeSynced(ht, n)
  IN /\ Syncing /\ ht.changed # {}
     /\ node' = [node EXCEPT ![n][NodeVersion(t, n)] = t.node[n]]
     /\ ht' = t
     /\ UNCHANGED <<head, block, hash, anchored, pc, seq>>

sync_node_fails ==
  LET n == FirstDirty(ht)
      t == NodeSynced(ht, n)
  IN /\ Syncing /\ ht.changed # {}
     /\ \E x \in {t.node[n], [ZeroImage EXCEPT !.hash = TornHash]} :
          node' = [node EXCEPT ![n][NodeVersion(t, n)] = x]
     /\ Lose
     /\ UNCHANGED <<head, block, seq>>

(* Fault: the header goes to the version of the counter before update_root.*)
write_head_first(t) ==
  head' = [head EXCEPT ![t.counter % 2] =
             [counter |-> (t.counter + 1) % CounterMod, root |-> t.node[1].hash,
              max |-> t.max, len |-> t.len]]

(* update_root and rpc_write_head.                                         *)
write_head(t) ==
  LET c == (t.counter + 1) % CounterMod
  IN head' = [head EXCEPT ![c % 2] = [counter |-> c, root |-> t.node[1].hash,
                                      max |-> t.max, len |-> t.len]]

(* The handle of a file that is ahead of the directory: ree_fs_create      *)
(* closes a file that has no name yet, ree_fs_write, which reports the     *)
(* error, and ree_fs_truncate, which does not, leave the handle to the TA. *)
WhenAhead == IF WriteAhead /\ hash # NoHash THEN "open" ELSE "stale"

sync_head ==
  /\ Syncing /\ ht.changed = {}
  /\ write_head(ht)
  /\ ht' = [ht EXCEPT !.counter = (@ + 1) % CounterMod, !.dirty = FALSE]
  /\ pc' = CASE pc = "create" -> "dummy"
             [] pc = "resync" -> WhenAhead
             [] pc = "sync" /\ anchored -> "commit"
             [] OTHER -> "open"
  /\ UNCHANGED <<node, block, hash, anchored, seq>>

sync_head_fails ==
  /\ Syncing /\ ht.changed = {}
  /\ write_head(ht)
  /\ Lose
  /\ UNCHANGED <<node, block, seq>>

(* The end of tee_fs_htree_open for a new file: dummy_head.                *)
write_dummy_head ==
  /\ pc = "dummy"
  /\ head' = [head EXCEPT ![0] = ZeroHead]
  /\ pc' = "open"
  /\ UNCHANGED <<node, block, hash, anchored, ht, seq>>

(* tee_fs_dirfile_update_hash or _rename, and commit_dirh_writes: the      *)
(* directory is a file like this one, so this is one atomic step.          *)
commit_dirh_writes ==
  /\ pc = "commit"
  /\ hash' = ht.node[1].hash
  /\ pc' = "open"
  /\ UNCHANGED <<disk, anchored, ht, seq>>

(* The directory is not updated and ree_fs_write returns the error: the    *)
(* directory is closed (put_dirh), but the file stays open with the new    *)
(* tree.                                                                   *)
commit_dirh_writes_fails ==
  /\ pc = "commit"
  /\ pc' = WhenAhead
  /\ UNCHANGED <<disk, hash, anchored, ht, seq>>

-----------------------------------------------------------------------------
Next == \/ tee_fs_htree_create \/ tee_fs_htree_open \/ tee_fs_htree_close
        \/ ree_fs_read_fails \/ crash
        \/ \E b \in Blocks : write_block(b) \/ ree_fs_extend(b) \/ write_block_fails(b)
        \/ \E n \in 0..MaxBlocks : ree_fs_truncate(n) \/ ree_fs_truncate_fails(n)
        \/ sync_to_storage \/ sync_node \/ sync_node_fails
        \/ sync_head \/ sync_head_fails \/ write_dummy_head
        \/ commit_dirh_writes \/ commit_dirh_writes_fails

Spec == Init /\ [][Next]_vars

-----------------------------------------------------------------------------
PCs == {"closed", "open", "extended", "write", "create", "dummy", "sync", "resync",
        "commit", "stale"}

(* Types, and that the tree in memory fits what is written of it: a node   *)
(* for every block, imeta.max_node_id (get_node, tee_fs_htree_truncate) is *)
(* the last node, and a tree with a dirty node is dirty, so that           *)
(* tee_fs_htree_sync_to_storage does not return early.                     *)
TypeOK ==
  /\ pc \in PCs /\ (pc = "closed" => ht = Closed)
  /\ seq \in 0..MaxWrites
  /\ \A v \in Vers :
       /\ head[v].counter \in 0..CounterMod - 1
       /\ head[v].max \in 0..MaxBlocks /\ head[v].len \in 0..MaxBlocks
       /\ \A n \in Ids : node[n][v].blk \in Vers
       /\ \A b \in Blocks : block[b][v] \in Data \cup {Zero, Torn}
  /\ pc # "closed" =>
       /\ ht.max = Len(ht.node) \/ (ht.max = 0 /\ Len(ht.node) = 1)
       /\ ht.len <= Len(ht.node)
       /\ ht.updated \subseteq ht.changed /\ ht.changed \subseteq 1..Len(ht.node)
       /\ ht.changed # {} => ht.dirty

(* The counters of the two headers tell which one is newer: they are those *)
(* of their versions and follow each other, whatever was interrupted, so   *)
(* get_idx_from_counter never finds two it cannot order.                   *)
HeadersOrdered ==
  /\ head[0].counter % 2 = 0
  /\ head[1].counter % 2 = 1 \/ head[1] = ZeroHead
  /\ head[0].counter - head[1].counter \in {-1, 0, 1}

(* The blocks of a tree, when all of them have their tags.                 *)
Contents(t) == IF \A b \in 0..t.len - 1 : Readable(t, b)
               THEN [i \in 1..t.len |-> t.node[i].tag]
               ELSE NoFile

File == INSTANCE AtomicFile WITH
          content <- IF Openable THEN Contents(Loaded) ELSE NoFile,
          work <- IF pc = "closed" THEN Closed ELSE Contents(ht)

(* fs_htree.h:31: an update is atomic.  What an open finds on the disk is  *)
(* always what the last completed commit wrote, all of it, wherever the    *)
(* update after it was interrupted; and what the tree in memory says can   *)
(* be read back.                                                           *)
IsAtomicFile == File!Spec
=============================================================================
