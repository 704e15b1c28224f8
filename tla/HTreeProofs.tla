----------------------------- MODULE HTreeProofs -----------------------------
(***************************************************************************)
(* Theorems about HTree.tla, for files of any size and any number of       *)
(* writes.                                                                 *)
(*                                                                         *)
(* HeadersAreOrdered: whatever is interrupted or fails, the counters of    *)
(* the two headers on disk tell which of them is newer.                    *)
(*                                                                         *)
(* TypesAreKept and FileIsAtomic: as long as truncations cut no node, the  *)
(* tree in memory is of the shape that is written of it, and as long as an *)
(* object that is ahead of its directory entry is closed, the file on disk *)
(* is updated atomically.  An object is ahead after a write that reports   *)
(* an error, and after a truncation that reports none.  Where truncations  *)
(* cut nodes, or an object that is ahead is written, the file is not       *)
(* atomic, as TLC shows.                                                   *)
(*                                                                         *)
(* NothingOverlaps and TruncationCutsBehind: the layout of FileLayout.tla  *)
(* keeps apart what HTree.tla has in separate variables, in files of any   *)
(* size.                                                                   *)
(*                                                                         *)
(* A tree is a recursive function of its images, and the order of the      *)
(* writes is a recursive function of the number of nodes.  What they       *)
(* compute is proved by the least counterexample: LeastNumber.             *)
(***************************************************************************)
EXTENDS HTree, FileLayout, SequenceTheorems, WellFoundedInduction, TLAPS

-----------------------------------------------------------------------------
(* The inductive invariant.  A tree in memory has the counter of one of    *)
(* the headers, and its next sync writes the other one.                    *)

(* A counter cannot wrap: it grows with a sync only, which a write or the  *)
(* loss of a node must have made necessary, and nodes come from writes: at *)
(* most MaxBlocks from one, when a truncation that failed has removed the  *)
(* others.                                                                 *)
Spent(counter, max, dirty) == counter + max + (IF dirty THEN 1 ELSE 0)
Budget == (MaxBlocks + 1) * seq + 1

HeadOK(v) ==
  /\ head[v].counter \in Nat
  /\ head[v].max \in 0..MaxBlocks
  /\ Spent(head[v].counter, head[v].max, FALSE) <= Budget

Fields(t) == [counter |-> t.counter, max |-> t.max, len |-> t.len, dirty |-> t.dirty,
              node |-> t.node, changed |-> t.changed, updated |-> t.updated]

(* The tree t, of which version v of the header was loaded or written last.*)
TreeOK(t) ==
  /\ t = Fields(t)
  /\ t.counter \in Nat /\ t.max \in 0..MaxBlocks /\ t.dirty \in BOOLEAN
  /\ Spent(t.counter, t.max, t.dirty) <= Budget
  /\ t.counter = head[t.counter % 2].counter

HInv ==
  /\ head = [v \in Vers |-> head[v]]
  /\ \A v \in Vers : HeadOK(v)
  /\ seq \in 0..MaxWrites
  /\ HeadersOrdered
  /\ pc # "closed" => TreeOK(ht)
  /\ pc \in {"write", "extended", "create", "sync", "resync"} => ht.dirty
  /\ pc = "create" => ht.counter = 0
  /\ pc = "dummy" => ht.counter = 1

-----------------------------------------------------------------------------
(* The steps that leave the headers and the number of writes alone.        *)
LEMMA SameHeads ==
  ASSUME HInv, UNCHANGED <<head, seq>>,
         pc' # "closed" => TreeOK(ht'),
         pc' \in {"write", "extended", "create", "sync", "resync"} => ht'.dirty,
         pc' = "create" => ht'.counter = 0,
         pc' = "dummy" => ht'.counter = 1
  PROVE  HInv'
BY DEF HInv, HeadOK, HeadersOrdered, TreeOK, Budget, Spent

(* A tree that was closed is not looked at.                                *)
LEMMA LoseStep ==
  ASSUME HInv, Lose, UNCHANGED <<head, seq>>
  PROVE  HInv'
BY SameHeads DEF Lose

(* One more write allows one more sync, and one for each node it adds.     *)
LEMMA BudgetGrows ==
  ASSUME HInv, seq' = seq + 1, seq < MaxWrites
  PROVE  /\ Budget \in Nat /\ Budget' = Budget + MaxBlocks + 1
         /\ seq' \in 0..MaxWrites
BY BoundsAssumption DEF Budget, HInv

(* A counter that may still grow is below the modulus.                     *)
LEMMA NoWrap ==
  ASSUME HInv, NEW c \in Nat, c + 1 <= Budget
  PROVE  (c + 1) % CounterMod = c + 1 /\ (c + 1) % 2 = 1 - (c % 2)
<1>1. seq \in Nat /\ seq <= MaxWrites
  BY BoundsAssumption DEF HInv
<1>2. (MaxBlocks + 1) * seq <= (MaxBlocks + 1) * MaxWrites
  BY <1>1, BoundsAssumption
<1>3. c + 1 < CounterMod
  BY <1>2, <1>1, BoundsAssumption DEF Budget
<1> QED BY <1>3, BoundsAssumption

(* A write of a block that failed: the tree is closed.                     *)
LEMMA WriteFailed ==
  ASSUME HInv, UNCHANGED head, seq' = seq + 1, seq < MaxWrites, pc' = "closed"
  PROVE  HInv'
<1> USE BoundsAssumption
<1>1. \A v \in Vers : HeadOK(v)'
  <2>1. Budget' >= Budget /\ Budget \in Nat /\ Budget' \in Nat
    BY BudgetGrows
  <2> QED BY <2>1 DEF HInv, HeadOK, Spent
<1>2. seq' \in 0..MaxWrites
  BY BudgetGrows
<1> QED BY <1>1, <1>2 DEF HInv, HeadersOrdered

(* A block that is written adds nodes and makes the tree dirty.            *)
LEMMA BlockWrittenTree ==
  ASSUME NEW t, NEW b \in Blocks, t = Fields(t), NEW u, u = BlockWritten(t, b)
  PROVE  /\ u = Fields(u)
         /\ u.counter = t.counter /\ u.dirty = TRUE
         /\ u.max \in {t.max, b + 1}
<1>1. /\ get_node(t, b + 1) = Fields(get_node(t, b + 1))
      /\ get_node(t, b + 1).counter = t.counter
      /\ get_node(t, b + 1).max \in {t.max, b + 1}
  BY DEF get_node, Fields
<1> QED BY <1>1 DEF BlockWritten, Fields

(* The tree of a file that is opened has the counter of the header that    *)
(* was chosen, which is one that was written.                              *)
LEMMA LoadedTree ==
  ASSUME HInv, Openable
  PROVE  TreeOK(Loaded)
<1>1. HeadVersion \in {0, 1}
  BY DEF Openable, HeadVersion, get_idx_from_counter
<1> SUFFICES ASSUME NEW v \in {0, 1}, v = HeadVersion PROVE TreeOK(Loaded)
  BY <1>1
<1>2. head[v].root # ZeroHash
  BY DEF Openable, Verified
<1>3. head[v] # ZeroHead
  BY <1>2 DEF ZeroHead
<1>4. head[v].counter % 2 = v
  BY <1>3 DEF HInv, HeadersOrdered
<1>5. HeadOK(v)
  BY DEF HInv, Vers
<1>6. /\ Loaded.counter = head[v].counter /\ Loaded.max = head[v].max
      /\ Loaded.dirty = FALSE /\ Loaded = Fields(Loaded)
  BY DEF Loaded, Fields
<1> QED BY <1>4, <1>5, <1>6 DEF TreeOK, HeadOK

(* The header of the other version is written and its counter is the next  *)
(* one.                                                                    *)
LEMMA HeadWritten ==
  ASSUME HInv, TreeOK(ht), ht.dirty = TRUE, write_head(ht), UNCHANGED seq
  PROVE  /\ head' = [v \in Vers |-> head'[v]]
         /\ \A v \in Vers : HeadOK(v)'
         /\ HeadersOrdered'
         /\ (ht.counter + 1) % CounterMod = ht.counter + 1
         /\ head'[(ht.counter + 1) % 2].counter = ht.counter + 1
<1> SUFFICES ASSUME NEW c \in Nat, c = ht.counter,
                    NEW m \in 0..MaxBlocks, m = ht.max
             PROVE  /\ head' = [v \in Vers |-> head'[v]]
                    /\ \A v \in Vers : HeadOK(v)'
                    /\ HeadersOrdered'
                    /\ (c + 1) % CounterMod = c + 1
                    /\ head'[(c + 1) % 2].counter = c + 1
  BY DEF TreeOK
<1>1. c + m + 1 <= Budget
  BY DEF TreeOK, Spent
<1>2. Budget \in Nat
  BY BoundsAssumption DEF Budget, HInv
<1>3. c + 1 <= Budget
  BY <1>1, <1>2, BoundsAssumption
<1>4. (c + 1) % CounterMod = c + 1 /\ (c + 1) % 2 = 1 - (c % 2)
  BY <1>3, NoWrap
<1>5. PICK w \in {0, 1} : w = c % 2
  OBVIOUS
<1>6. head' = [head EXCEPT ![1 - w] = [counter |-> c + 1, root |-> ht.node[1].hash,
                                       max |-> m, len |-> ht.len]]
  BY <1>4, <1>5 DEF write_head
<1>7. head = [v \in Vers |-> head[v]] /\ HeadOK(0) /\ HeadOK(1) /\ head[w].counter = c
  BY <1>5 DEF HInv, Vers, TreeOK
<1>8. /\ head'[w] = head[w] /\ head'[1 - w].counter = c + 1 /\ head'[1 - w].max = m
      /\ head' = [v \in Vers |-> head'[v]]
  <2>1. w \in Vers /\ 1 - w \in Vers /\ w # 1 - w
    BY <1>5 DEF Vers
  <2> QED BY <1>6, <1>7, <2>1
<1>9. Budget' = Budget
  BY DEF Budget
<1>10. HeadOK(w)' /\ HeadOK(1 - w)'
  BY <1>1, <1>7, <1>8, <1>9 DEF HeadOK, Spent
<1>11. HeadersOrdered'
  <2>1. (c + 1) % 2 = 1 - w /\ c % 2 = w
    BY <1>4, <1>5
  <2>2. head[w].counter = c /\ head[w] = head'[w]
    BY <1>7, <1>8
  <2>3. CASE w = 0
    BY <2>1, <2>2, <2>3, <1>8 DEF HeadersOrdered
  <2>4. CASE w = 1
    BY <2>1, <2>2, <2>4, <1>8 DEF HeadersOrdered, HInv
  <2> QED BY <2>3, <2>4
<1>12. \A v \in Vers : HeadOK(v)'
  BY <1>5, <1>10 DEF Vers
<1> QED BY <1>4, <1>5, <1>8, <1>11, <1>12

-----------------------------------------------------------------------------
(* A block is written, by a write or by an extension.                      *)
BlockStep(b) == /\ out_of_place_write(b) /\ pc' \in {"write", "extended"}
                /\ pc' = "extended" => Named

LEMMA InitHInv == Init => HInv
<1> SUFFICES ASSUME Init PROVE HInv
  OBVIOUS
<1>1. Budget = 1 /\ seq \in 0..MaxWrites
  BY BoundsAssumption DEF Init, Budget
<1>2. \A v \in Vers : head[v] = ZeroHead
  BY DEF Init
<1>3. head = [v \in Vers |-> head[v]]
  BY DEF Init
<1>4. \A v \in Vers : HeadOK(v)
  BY <1>1, <1>2, BoundsAssumption DEF HeadOK, ZeroHead, Spent
<1>5. HeadersOrdered
  BY <1>2 DEF HeadersOrdered, ZeroHead, Vers
<1> QED BY <1>1, <1>3, <1>4, <1>5 DEF HInv, Init

LEMMA NextHInv == HInv /\ [Next]_vars => HInv'
<1> SUFFICES ASSUME HInv, [Next]_vars PROVE HInv'
  OBVIOUS
<1> DEFINE Dirty == {"write", "extended", "create", "sync", "resync"}
<1>0. Budget \in Nat /\ seq \in 0..MaxWrites /\ seq \in Nat
  BY BoundsAssumption DEF HInv, Budget
<1>1. CASE UNCHANGED vars
  BY <1>1, SameHeads DEF vars, HInv, TreeOK, Budget
<1>2. CASE tee_fs_htree_create
  <2>1. /\ head' = [v \in Vers |-> ZeroHead] /\ ht' = NewTree /\ pc' = "create" /\ seq' = seq
    BY <1>2 DEF tee_fs_htree_create
  <2>2. Budget' = Budget
    BY <2>1 DEF Budget
  <2>3. \A v \in Vers : HeadOK(v)'
    BY <1>0, <2>1, <2>2, BoundsAssumption DEF HeadOK, ZeroHead, Spent
  <2>4. HeadersOrdered'
    BY <2>1 DEF HeadersOrdered, ZeroHead, Vers
  <2>5. Budget >= 1
    BY <1>0, BoundsAssumption DEF Budget
  <2>6. TreeOK(NewTree)'
    BY <1>0, <2>1, <2>2, <2>5, BoundsAssumption DEF TreeOK, NewTree, Fields, Spent, ZeroHead, Vers
  <2>7. ht'.dirty /\ ht'.counter = 0
    BY <2>1 DEF NewTree
  <2> QED BY <1>0, <2>1, <2>3, <2>4, <2>6, <2>7 DEF HInv
<1>3. CASE tee_fs_htree_open
  <2>1. TreeOK(Loaded)
    BY <1>3, LoadedTree DEF tee_fs_htree_open
  <2> QED BY <1>3, <2>1, SameHeads DEF tee_fs_htree_open, disk
<1>4. CASE tee_fs_htree_close \/ ree_fs_read_fails \/ crash
  BY <1>4, LoseStep DEF tee_fs_htree_close, ree_fs_read_fails, crash, disk
<1>5. ASSUME NEW b \in Blocks, BlockStep(b) PROVE HInv'
  <2>1. /\ ht' = BlockWritten(ht, b) /\ UNCHANGED head /\ seq' = seq + 1 /\ seq < MaxWrites
        /\ pc' \in {"write", "extended"} /\ pc # "closed"
    BY <1>5 DEF BlockStep, out_of_place_write, CanWrite
  <2>2. TreeOK(ht)
    BY <2>1 DEF HInv
  <2>3. /\ ht' = Fields(ht') /\ ht'.counter = ht.counter /\ ht'.dirty = TRUE
        /\ ht'.max \in {ht.max, b + 1}
    BY <2>1, <2>2, BlockWrittenTree DEF TreeOK
  <2>4. Budget' = Budget + MaxBlocks + 1 /\ seq' \in 0..MaxWrites
    BY <2>1, BudgetGrows
  <2>5. ht'.max \in 0..MaxBlocks
    BY <2>2, <2>3, BoundsAssumption DEF TreeOK, Blocks
  <2>6. Spent(ht.counter, ht.max, ht.dirty) <= Budget /\ ht.counter \in Nat /\ ht.max \in Nat
    BY <2>2 DEF TreeOK
  <2>7. Spent(ht'.counter, ht'.max, TRUE) <= Budget'
    BY <1>0, <2>3, <2>4, <2>5, <2>6, BoundsAssumption DEF Spent
  <2>8. TreeOK(ht)'
    BY <2>1, <2>2, <2>3, <2>5, <2>7 DEF TreeOK
  <2>9. \A v \in Vers : HeadOK(v)'
    BY <1>0, <2>1, <2>4, BoundsAssumption DEF HInv, HeadOK, Spent
  <2> QED BY <2>1, <2>3, <2>4, <2>8, <2>9 DEF HInv, HeadersOrdered
<1>6. ASSUME NEW b \in Blocks, write_block_fails(b) PROVE HInv'
  <2>1. CASE seq' = seq
    BY <1>6, <2>1, LoseStep DEF write_block_fails
  <2>2. CASE seq' = seq + 1
    BY <1>6, <2>2, WriteFailed DEF write_block_fails, Lose, CanWrite
  <2> QED BY <1>6, <2>1, <2>2 DEF write_block_fails
<1>7. ASSUME NEW n \in 0..MaxBlocks, ree_fs_truncate(n) \/ ree_fs_truncate_fails(n) PROVE HInv'
  <2>1. /\ UNCHANGED <<head, seq>> /\ pc \in {"open", "extended"}
        /\ pc' \in {"open", "extended", "resync"}
        /\ ht' \in {tee_fs_htree_truncate(ht, n), [tee_fs_htree_truncate(ht, n) EXCEPT !.len = n]}
        /\ (pc' = "resync" => ht'.dirty) /\ (pc' = "extended" => pc = "extended")
    BY <1>7 DEF ree_fs_truncate, ree_fs_truncate_fails, CanTruncate, disk
  <2>2. TreeOK(ht) /\ (pc = "extended" => ht.dirty)
    BY <2>1 DEF HInv
  <2>3. /\ ht' = Fields(ht') /\ ht'.counter = ht.counter
        /\ \/ ht'.max = ht.max /\ ht'.dirty = ht.dirty
           \/ ht'.max = n + 1 /\ n + 1 < ht.max /\ ht'.dirty = TRUE
    BY <2>1, <2>2 DEF TreeOK, tee_fs_htree_truncate, Fields
  <2>4. /\ Spent(ht.counter, ht.max, ht.dirty) <= Budget /\ ht.counter \in Nat
        /\ ht.max \in 0..MaxBlocks /\ ht.dirty \in BOOLEAN
        /\ ht.counter = head[ht.counter % 2].counter
    BY <2>2 DEF TreeOK
  <2>5. Spent(ht'.counter, ht'.max, ht'.dirty) <= Budget /\ ht'.max \in 0..MaxBlocks
        /\ ht'.dirty \in BOOLEAN
    <3>1. CASE ht'.max = ht.max /\ ht'.dirty = ht.dirty
      BY <2>3, <2>4, <3>1
    <3>2. CASE ht'.max = n + 1 /\ n + 1 < ht.max /\ ht'.dirty = TRUE
      <4>1. ht.counter + ht.max <= Budget
        BY <1>0, <2>4 DEF Spent
      <4>2. ht'.counter + ht'.max + 1 <= Budget
        BY <1>0, <2>3, <2>4, <3>2, <4>1, BoundsAssumption
      <4>3. ht'.max \in 0..MaxBlocks
        BY <2>4, <3>2, BoundsAssumption
      <4> QED BY <3>2, <4>2, <4>3 DEF Spent
    <3> QED BY <2>3, <3>1, <3>2
  <2>6. TreeOK(ht')
    BY <2>3, <2>4, <2>5 DEF TreeOK
  <2>7. pc' \in Dirty => ht'.dirty
    BY <2>1, <2>2, <2>3
  <2> QED BY <2>1, <2>6, <2>7, SameHeads
<1>8. CASE sync_to_storage \/ commit_dirh_writes \/ commit_dirh_writes_fails
  <2>1. /\ UNCHANGED <<head, seq, ht>> /\ pc # "closed" /\ pc' \notin {"dummy", "create"}
        /\ pc' \in Dirty => pc = "write"
    BY <1>8 DEF sync_to_storage, commit_dirh_writes, commit_dirh_writes_fails, disk, WhenAhead
  <2>2. TreeOK(ht) /\ (pc = "write" => ht.dirty)
    BY <2>1 DEF HInv
  <2> QED BY <2>1, <2>2, SameHeads
<1>9. CASE sync_node
  <2> DEFINE n == FirstDirty(ht)
             u == NodeSynced(ht, n)
  <2>1. /\ UNCHANGED <<head, seq, pc>> /\ ht' = u /\ pc \in Dirty /\ pc # "write"
    BY <1>9 DEF sync_node, Syncing
  <2>2. TreeOK(ht) /\ ht.dirty /\ (pc = "create" => ht.counter = 0)
    BY <2>1 DEF HInv
  <2>3. /\ u = Fields(u) /\ u.counter = ht.counter /\ u.dirty = ht.dirty /\ u.max = ht.max
    <3> DEFINE p == Parent(n)
               w == IF n = 1 THEN ht
                    ELSE [ht EXCEPT !.node[p].child[Side(n)] = 1 - @, !.changed = @ \cup {p}]
    <3>1. w = Fields(w) /\ w.counter = ht.counter /\ w.dirty = ht.dirty /\ w.max = ht.max
      BY <2>2 DEF TreeOK, Fields
    <3>2. u = [w EXCEPT !.node[n].hash = calc_node_hash(w.node, n),
                        !.changed = @ \ {n}, !.updated = @ \ {n}]
      BY DEF NodeSynced
    <3> HIDE DEF w, u
    <3> QED BY <3>1, <3>2 DEF Fields
  <2> HIDE DEF u, n
  <2>4. TreeOK(u)
    BY <2>2, <2>3 DEF TreeOK
  <2> QED BY <2>1, <2>2, <2>3, <2>4, SameHeads
<1>10. CASE sync_node_fails
  BY <1>10, LoseStep DEF sync_node_fails
<1>11. CASE sync_head
  <2>1. /\ write_head(ht) /\ UNCHANGED seq /\ Syncing
        /\ ht' = [ht EXCEPT !.counter = (@ + 1) % CounterMod, !.dirty = FALSE]
        /\ pc' \in {"dummy", "commit", "stale", "open"} /\ (pc' = "dummy" => pc = "create")
    BY <1>11 DEF sync_head, WhenAhead
  <2>2. TreeOK(ht) /\ ht.dirty = TRUE
    BY <2>1 DEF HInv, Syncing, TreeOK
  <2>3. /\ head' = [v \in Vers |-> head'[v]]
        /\ \A v \in Vers : HeadOK(v)'
        /\ HeadersOrdered'
        /\ (ht.counter + 1) % CounterMod = ht.counter + 1
        /\ head'[(ht.counter + 1) % 2].counter = ht.counter + 1
    BY <2>1, <2>2, HeadWritten
  <2>4. /\ ht' = Fields(ht') /\ ht'.counter = ht.counter + 1 /\ ht'.max = ht.max
        /\ ht'.dirty = FALSE
    BY <2>1, <2>2, <2>3 DEF TreeOK, Fields
  <2>5. Budget' = Budget
    BY <2>1 DEF Budget
  <2>6. /\ Spent(ht.counter, ht.max, TRUE) <= Budget /\ ht.counter \in Nat
        /\ ht.max \in 0..MaxBlocks
    BY <2>2 DEF TreeOK
  <2>7. Spent(ht.counter + 1, ht.max, FALSE) <= Budget
    BY <1>0, <2>6, BoundsAssumption DEF Spent
  <2>8. TreeOK(ht)'
    <3>1. Spent(ht'.counter, ht'.max, ht'.dirty) <= Budget'
      BY <2>4, <2>5, <2>7
    <3>2. ht'.counter \in Nat /\ ht'.counter = head'[ht'.counter % 2].counter
      BY <2>3, <2>4, <2>6
    <3> QED BY <2>4, <2>6, <3>1, <3>2 DEF TreeOK
  <2>9. pc' = "dummy" => ht'.counter = 1
    BY <2>1, <2>4 DEF HInv
  <2> QED BY <1>0, <2>1, <2>3, <2>8, <2>9 DEF HInv
<1>12. CASE sync_head_fails
  <2>1. TreeOK(ht) /\ ht.dirty = TRUE /\ write_head(ht) /\ UNCHANGED seq /\ pc' = "closed"
    BY <1>12 DEF HInv, Syncing, TreeOK, sync_head_fails, Lose
  <2> QED BY <1>0, <2>1, HeadWritten DEF HInv
<1>13. CASE write_dummy_head
  <2>1. /\ head' = [head EXCEPT ![0] = ZeroHead] /\ pc' = "open" /\ pc = "dummy"
        /\ UNCHANGED <<ht, seq>>
    BY <1>13 DEF write_dummy_head
  <2>2. TreeOK(ht) /\ ht.counter = 1 /\ head[1].counter = 1
    BY <2>1 DEF HInv, TreeOK
  <2>3. /\ head'[0] = ZeroHead /\ head'[1] = head[1] /\ head' = [v \in Vers |-> head'[v]]
    <3>1. head = [v \in Vers |-> head[v]]
      BY DEF HInv
    <3>2. head' = [v \in Vers |-> IF v = 0 THEN ZeroHead ELSE head[v]]
      BY <2>1, <3>1 DEF Vers
    <3> QED BY <3>2 DEF Vers
  <2>4. Budget' = Budget
    BY <2>1 DEF Budget
  <2>5. HeadOK(0)' /\ HeadOK(1)'
    BY <1>0, <2>3, <2>4, BoundsAssumption DEF HeadOK, HInv, Vers, ZeroHead, Spent
  <2>6. HeadersOrdered'
    BY <2>2, <2>3 DEF HeadersOrdered, ZeroHead
  <2>7. TreeOK(ht)'
    BY <2>1, <2>2, <2>3, <2>4 DEF TreeOK
  <2> QED BY <1>0, <2>1, <2>3, <2>5, <2>6, <2>7 DEF HInv, Vers
<1> QED
  BY <1>1, <1>2, <1>3, <1>4, <1>5, <1>6, <1>7, <1>8, <1>9, <1>10, <1>11, <1>12, <1>13
  DEF Next, BlockStep, write_block, ree_fs_extend

LEMMA HeadInvariance == Spec => []HInv
BY InitHInv, NextHInv, PTL DEF Spec

(* Whatever is interrupted or fails, the counters of the two headers on    *)
(* disk are those of their versions and differ by at most one, so that     *)
(* get_idx_from_counter (fs_htree.c) knows the newer one.                  *)
THEOREM HeadersAreOrdered == Spec => []HeadersOrdered
<1>1. HInv => HeadersOrdered
  BY DEF HInv
<1> QED BY <1>1, HeadInvariance, PTL

-----------------------------------------------------------------------------
(* A set of numbers that is not empty has a least one.                     *)
LEMMA LeastNumber ==
  ASSUME NEW I \in SUBSET Nat, I # {}
  PROVE  \E i \in I : \A j \in I : i <= j
<1> DEFINE R == OpToRel(<, Nat)
<1>1. \A x, y \in Nat : <<y, x>> \in R <=> y < x
  BY DEF OpToRel
<1>2. IsWellFoundedOn(R, Nat)
  BY NatLessThanWellFounded
<1> HIDE DEF R
<1>3. PICK i \in I : \A j \in I : ~ (<<j, i>> \in R)
  BY <1>2, WFMin
<1>4. ASSUME NEW j \in I PROVE i <= j
  <2>1. i \in Nat /\ j \in Nat /\ ~ (<<j, i>> \in R)
    BY <1>3
  <2> QED BY <1>1, <2>1
<1> QED BY <1>4

(* The parent of a node has a smaller number.                              *)
LEMMA ParentSmaller ==
  ASSUME NEW i \in Nat, i >= 2
  PROVE  /\ Parent(i) \in Nat /\ Parent(i) >= 1 /\ Parent(i) < i
         /\ Side(i) \in {1, 2} /\ Side(i) \in 1..2
         /\ i \in {2 * Parent(i), 2 * Parent(i) + 1}
BY DEF Parent, Side

(* Two nodes with the same parent on the same side are the same.           *)
LEMMA SameSlot ==
  ASSUME NEW i \in Nat, NEW j \in Nat, Parent(i) = Parent(j), Side(i) = Side(j)
  PROVE  i = j
BY DEF Parent, Side

-----------------------------------------------------------------------------
(* What TreeFrom computes.                                                 *)
LinkedFrom(N, v, n, f) ==
  f = [i \in 1..n |-> IF i = 1 THEN N[1][v] ELSE N[i][f[Parent(i)].child[Side(i)]]]

LEMMA TreeExists ==
  ASSUME NEW N, NEW v, NEW n \in Nat
  PROVE  \E f : LinkedFrom(N, v, n, f)
<1> DEFINE Bad == {k \in Nat : ~ \E f : LinkedFrom(N, v, k, f)}
<1> SUFFICES ASSUME Bad # {} PROVE FALSE
  OBVIOUS
<1>1. PICK k \in Bad : \A j \in Bad : k <= j
  BY LeastNumber
<1>2. k # 0
  <2>1. LinkedFrom(N, v, 0, [i \in 1..0 |-> 0])
    BY DEF LinkedFrom
  <2> QED BY <2>1
<1>3. k - 1 \in Nat /\ k - 1 \notin Bad /\ k \in Nat
  BY <1>1, <1>2
<1>4. PICK f : LinkedFrom(N, v, k - 1, f)
  BY <1>3
<1> DEFINE g == [i \in 1..k |-> IF i = 1 THEN N[1][v] ELSE N[i][f[Parent(i)].child[Side(i)]]]
<1>5. ASSUME NEW i \in 1..k - 1 PROVE g[i] = f[i]
  <2>1. f[i] = IF i = 1 THEN N[1][v] ELSE N[i][f[Parent(i)].child[Side(i)]]
    BY <1>4 DEF LinkedFrom
  <2>2. i \in 1..k
    BY <1>3
  <2> QED BY <2>1, <2>2
<1>6. \A i \in 2..k : Parent(i) \in 1..k - 1
  BY <1>3, ParentSmaller
<1>7. LinkedFrom(N, v, k, g)
  <2>1. ASSUME NEW i \in 1..k, i # 1 PROVE g[Parent(i)] = f[Parent(i)]
    <3>1. i \in 2..k
      BY <1>3, <2>1
    <3> QED BY <3>1, <1>5, <1>6
  <2>2. \A i \in 1..k : (IF i = 1 THEN N[1][v] ELSE N[i][f[Parent(i)].child[Side(i)]])
                       = (IF i = 1 THEN N[1][v] ELSE N[i][g[Parent(i)].child[Side(i)]])
    BY <2>1
  <2> QED BY <2>2 DEF LinkedFrom
<1> QED BY <1>1, <1>7

LEMMA TreeLinks ==
  ASSUME NEW N, NEW v, NEW n \in Nat, n >= 1, NEW T, T = TreeFrom(N, n, v)
  PROVE  /\ T = [i \in 1..n |-> T[i]]
         /\ T[1] = N[1][v]
         /\ \A i \in 2..n : T[i] = N[i][T[Parent(i)].child[Side(i)]]
<1> DEFINE img == CHOOSE f : LinkedFrom(N, v, n, f)
<1>1. T = [i \in 1..n |-> img[i]]
  BY DEF TreeFrom, LinkedFrom
<1>2. LinkedFrom(N, v, n, img)
  BY TreeExists
<1> HIDE DEF img
<1>3. \A i \in 1..n : T[i] = img[i]
  BY <1>1
<1>4. T[1] = N[1][v]
  BY <1>2, <1>3 DEF LinkedFrom
<1>5. ASSUME NEW i \in 2..n PROVE T[i] = N[i][T[Parent(i)].child[Side(i)]]
  <2>1. Parent(i) \in 1..n /\ i \in 1..n /\ i # 1
    BY ParentSmaller
  <2>2. img[i] = N[i][img[Parent(i)].child[Side(i)]]
    BY <1>2, <2>1 DEF LinkedFrom
  <2> QED BY <1>3, <2>1, <2>2
<1> QED BY <1>1, <1>4, <1>5

(* The images below a root determine the tree.                             *)
LEMMA TreeUnique ==
  ASSUME NEW N, NEW v, NEW n \in Nat, n >= 1, NEW T,
         T = [i \in 1..n |-> T[i]],
         T[1] = N[1][v],
         \A i \in 2..n : T[i] = N[i][T[Parent(i)].child[Side(i)]]
  PROVE  T = TreeFrom(N, n, v)
<1> DEFINE U == TreeFrom(N, n, v)
<1>1. /\ U = [i \in 1..n |-> U[i]]
      /\ U[1] = N[1][v]
      /\ \A i \in 2..n : U[i] = N[i][U[Parent(i)].child[Side(i)]]
  BY TreeLinks
<1> HIDE DEF U
<1> DEFINE Bad == {k \in 1..n : T[k] # U[k]}
<1>2. Bad = {}
  <2> SUFFICES ASSUME Bad # {} PROVE FALSE
    OBVIOUS
  <2>0. Bad \in SUBSET Nat
    OBVIOUS
  <2>1. PICK k \in Bad : \A j \in Bad : k <= j
    <3> HIDE DEF Bad
    <3> QED BY <2>0, LeastNumber
  <2>2. k \in 1..n /\ k # 1 /\ k \in 2..n
    <3>1. k \in 1..n /\ T[k] # U[k]
      BY <2>1
    <3>2. k # 1
      BY <1>1, <3>1
    <3> QED BY <3>1, <3>2
  <2>3. Parent(k) \in 1..n /\ Parent(k) < k /\ k \in Nat
    BY <2>2, ParentSmaller
  <2>4. T[Parent(k)] = U[Parent(k)]
    <3>1. Parent(k) \notin Bad
      <4> HIDE DEF Bad
      <4> QED BY <2>1, <2>3
    <3> QED BY <2>3, <3>1
  <2>5. U[k] = N[k][U[Parent(k)].child[Side(k)]] /\ T[k] = N[k][T[Parent(k)].child[Side(k)]]
    BY <1>1, <2>2
  <2> QED BY <2>1, <2>4, <2>5
<1>3. \A k \in 1..n : T[k] = U[k]
  BY <1>2
<1> QED BY <1>1, <1>3 DEF U

-----------------------------------------------------------------------------
(* The post order traversal meets every node, and the children of a node   *)
(* before it.                                                              *)
VisitedFrom(m, l, f) ==
  f = [n \in l..m |-> (IF 2 * n <= m THEN f[2 * n] ELSE <<>>)
                     \o (IF 2 * n + 1 <= m THEN f[2 * n + 1] ELSE <<>>) \o <<n>>]

LEMMA PostOrderExists ==
  ASSUME NEW m \in Nat
  PROVE  \E f : VisitedFrom(m, 1, f)
<1> DEFINE Bad == {k \in Nat : k <= m /\ ~ \E f : VisitedFrom(m, m + 1 - k, f)}
<1>1. Bad = {}
  <2> SUFFICES ASSUME Bad # {} PROVE FALSE
    OBVIOUS
  <2>0. Bad \in SUBSET Nat
    OBVIOUS
  <2>1. PICK k \in Bad : \A j \in Bad : k <= j
    <3> HIDE DEF Bad
    <3> QED BY <2>0, LeastNumber
  <2>2. k # 0
    <3>1. m + 1..m = {}
      OBVIOUS
    <3>2. VisitedFrom(m, m + 1, [n \in m + 1..m |-> 0])
      BY <3>1 DEF VisitedFrom
    <3>3. m + 1 - 0 = m + 1
      OBVIOUS
    <3> QED BY <3>2, <3>3
  <2>3. k - 1 \in Nat /\ k - 1 \notin Bad /\ k \in Nat /\ k - 1 <= m /\ k <= m
    BY <2>1, <2>2
  <2>4. PICK l \in Nat : l = m + 1 - k /\ l >= 1 /\ l <= m
    BY <2>2, <2>3
  <2>5. PICK f : VisitedFrom(m, l + 1, f)
    BY <2>3, <2>4
  <2> DEFINE g == [n \in l..m |-> (IF 2 * n <= m THEN f[2 * n] ELSE <<>>)
                     \o (IF 2 * n + 1 <= m THEN f[2 * n + 1] ELSE <<>>) \o <<n>>]
  <2>6. ASSUME NEW n \in l + 1..m PROVE g[n] = f[n]
    <3>1. f[n] = (IF 2 * n <= m THEN f[2 * n] ELSE <<>>)
                     \o (IF 2 * n + 1 <= m THEN f[2 * n + 1] ELSE <<>>) \o <<n>>
      BY <2>5 DEF VisitedFrom
    <3>2. n \in l..m
      BY <2>4
    <3> QED BY <3>1, <3>2
  <2>7. VisitedFrom(m, l, g)
    <3>1. ASSUME NEW n \in l..m PROVE /\ 2 * n <= m => g[2 * n] = f[2 * n]
                                      /\ 2 * n + 1 <= m => g[2 * n + 1] = f[2 * n + 1]
      <4>1. /\ 2 * n <= m => 2 * n \in l + 1..m
            /\ 2 * n + 1 <= m => 2 * n + 1 \in l + 1..m
        BY <2>4
      <4> QED BY <2>6, <4>1
    <3>2. \A n \in l..m :
             (IF 2 * n <= m THEN f[2 * n] ELSE <<>>)
                \o (IF 2 * n + 1 <= m THEN f[2 * n + 1] ELSE <<>>) \o <<n>>
             = (IF 2 * n <= m THEN g[2 * n] ELSE <<>>)
                \o (IF 2 * n + 1 <= m THEN g[2 * n + 1] ELSE <<>>) \o <<n>>
      <4> HIDE DEF g
      <4> QED BY <3>1
    <3> QED BY <3>2 DEF VisitedFrom
  <2> QED BY <2>1, <2>4, <2>7
<1>2. m \notin Bad
  BY <1>1
<1>3. m + 1 - m = 1
  OBVIOUS
<1> QED BY <1>2, <1>3

(* In the sequence s, a child that the tree of m nodes has comes before    *)
(* its parent.                                                             *)
ChildrenFirst(s, m) ==
  \A k \in 1..Len(s) : \A c \in {2 * s[k], 2 * s[k] + 1} :
     c <= m => \E j \in 1..k - 1 : s[j] = c

EndsWith(s, m, n) ==
  s \in Seq(1..m) /\ Len(s) >= 1 /\ s[Len(s)] = n /\ ChildrenFirst(s, m)

LEMMA ConcatFirst ==
  ASSUME NEW m \in Nat, NEW s \in Seq(1..m), NEW t \in Seq(1..m),
         ChildrenFirst(s, m), ChildrenFirst(t, m)
  PROVE  s \o t \in Seq(1..m) /\ ChildrenFirst(s \o t, m)
<1> DEFINE r == s \o t
<1>0. PICK p \in Nat, q \in Nat : p = Len(s) /\ q = Len(t)
  BY LenProperties
<1>1. /\ r \in Seq(1..m) /\ Len(r) = p + q
      /\ \A i \in 1..p : r[i] = s[i]
      /\ \A i \in 1..q : r[p + i] = t[i]
  BY <1>0, ConcatProperties
<1> HIDE DEF r
<1>2. ASSUME NEW k \in 1..p + q, NEW c \in {2 * r[k], 2 * r[k] + 1}, c <= m
      PROVE  \E j \in 1..k - 1 : r[j] = c
  <2>1. CASE k <= p
    <3>1. k \in 1..p
      BY <2>1
    <3>2. r[k] = s[k]
      BY <1>1, <3>1
    <3>3. PICK j \in 1..k - 1 : s[j] = c
      BY <1>0, <1>2, <3>1, <3>2 DEF ChildrenFirst
    <3>4. j \in 1..p
      BY <2>1, <3>3
    <3> QED BY <1>1, <3>3, <3>4
  <2>2. CASE ~ k <= p
    <3>1. PICK i \in 1..q : k = p + i
      <4>1. k - p \in 1..q /\ k = p + (k - p)
        BY <2>2
      <4> QED BY <4>1
    <3>2. r[k] = t[i]
      BY <1>1, <3>1
    <3>3. PICK j \in 1..i - 1 : t[j] = c
      BY <1>0, <1>2, <3>2 DEF ChildrenFirst
    <3>4. j \in 1..q /\ p + j \in 1..k - 1
      BY <3>1, <3>3
    <3>5. r[p + j] = c
      BY <1>1, <3>3, <3>4
    <3> QED BY <3>4, <3>5
  <2> QED BY <2>1, <2>2
<1> QED BY <1>1, <1>2 DEF ChildrenFirst, r

LEMMA AppendFirst ==
  ASSUME NEW m \in Nat, NEW s \in Seq(1..m), ChildrenFirst(s, m), NEW n \in 1..m,
         \A c \in {2 * n, 2 * n + 1} : c <= m => \E j \in 1..Len(s) : s[j] = c
  PROVE  EndsWith(s \o <<n>>, m, n)
<1> DEFINE r == s \o <<n>>
<1>0. <<n>> \in Seq(1..m) /\ Len(<<n>>) = 1 /\ <<n>>[1] = n
  OBVIOUS
<1>p. PICK p \in Nat : p = Len(s)
  BY LenProperties
<1>1. /\ r \in Seq(1..m) /\ Len(r) = p + 1
      /\ \A i \in 1..p : r[i] = s[i]
      /\ r[p + 1] = n
  BY <1>0, <1>p, ConcatProperties
<1> HIDE DEF r
<1>2. ASSUME NEW k \in 1..p + 1, NEW c \in {2 * r[k], 2 * r[k] + 1}, c <= m
      PROVE  \E j \in 1..k - 1 : r[j] = c
  <2>1. CASE k <= p
    <3>1. k \in 1..p
      BY <2>1
    <3>2. r[k] = s[k]
      BY <1>1, <3>1
    <3>3. PICK j \in 1..k - 1 : s[j] = c
      BY <1>p, <1>2, <3>1, <3>2 DEF ChildrenFirst
    <3>4. j \in 1..p
      BY <2>1, <3>3
    <3> QED BY <1>1, <3>3, <3>4
  <2>2. CASE ~ k <= p
    <3>1. k = p + 1
      BY <2>2
    <3>2. PICK j \in 1..p : s[j] = c
      BY <1>1, <1>2, <1>p, <3>1
    <3>3. r[j] = c /\ j \in 1..k - 1
      BY <1>1, <3>1, <3>2
    <3> QED BY <3>3
  <2> QED BY <2>1, <2>2
<1>3. ChildrenFirst(r, m)
  BY <1>1, <1>2 DEF ChildrenFirst
<1> QED BY <1>1, <1>3 DEF EndsWith, r

VisitsAll(s, m) ==
  /\ s \in Seq(1..m) /\ ChildrenFirst(s, m)
  /\ \A n \in 1..m : \E k \in 1..Len(s) : s[k] = n

LEMMA PostOrderVisits ==
  ASSUME NEW m \in Nat, m >= 1
  PROVE  VisitsAll(PostOrder(m), m)
<1> DEFINE s == PostOrder(m)
<1> DEFINE post == CHOOSE f : VisitedFrom(m, 1, f)
<1>1. s = post[1]
  BY DEF PostOrder, VisitedFrom
<1>2. VisitedFrom(m, 1, post)
  BY PostOrderExists
<1> HIDE DEF post, s
<1> DEFINE Bad == {k \in Nat : k < m /\ ~ EndsWith(post[m - k], m, m - k)}
<1>3. Bad = {}
  <2> SUFFICES ASSUME Bad # {} PROVE FALSE
    OBVIOUS
  <2>0. Bad \in SUBSET Nat
    OBVIOUS
  <2>1. PICK k \in Bad : \A j \in Bad : k <= j
    <3> HIDE DEF Bad
    <3> QED BY <2>0, LeastNumber
  <2>2. PICK n \in 1..m : n = m - k
    BY <2>1
  <2>3. ASSUME NEW c \in n + 1..m PROVE EndsWith(post[c], m, c)
    <3>1. m - c \in Nat /\ m - c < k /\ m - c < m /\ m - (m - c) = c
      BY <2>1, <2>2
    <3>2. m - c \notin Bad
      <4> HIDE DEF Bad
      <4> QED BY <2>0, <2>1, <3>1
    <3> QED BY <3>1, <3>2
  <2> DEFINE A == IF 2 * n <= m THEN post[2 * n] ELSE <<>>
             B == IF 2 * n + 1 <= m THEN post[2 * n + 1] ELSE <<>>
  <2>4. post[n] = A \o B \o <<n>>
    BY <1>2 DEF VisitedFrom
  <2>5. <<>> \in Seq(1..m) /\ ChildrenFirst(<<>>, m)
    BY DEF ChildrenFirst
  <2>6. /\ A \in Seq(1..m) /\ ChildrenFirst(A, m)
        /\ 2 * n <= m => Len(A) >= 1 /\ A[Len(A)] = 2 * n
    <3>1. CASE 2 * n <= m
      <4>1. 2 * n \in n + 1..m
        BY <3>1
      <4> QED BY <2>3, <3>1, <4>1 DEF EndsWith
    <3>2. CASE ~ 2 * n <= m
      BY <2>5, <3>2
    <3> QED BY <3>1, <3>2
  <2>7. /\ B \in Seq(1..m) /\ ChildrenFirst(B, m)
        /\ 2 * n + 1 <= m => Len(B) >= 1 /\ B[Len(B)] = 2 * n + 1
    <3>1. CASE 2 * n + 1 <= m
      <4>1. 2 * n + 1 \in n + 1..m
        BY <3>1
      <4> QED BY <2>3, <3>1, <4>1 DEF EndsWith
    <3>2. CASE ~ 2 * n + 1 <= m
      BY <2>5, <3>2
    <3> QED BY <3>1, <3>2
  <2> HIDE DEF A, B
  <2> DEFINE AB == A \o B
  <2>8. AB \in Seq(1..m) /\ ChildrenFirst(AB, m)
    BY <2>6, <2>7, ConcatFirst
  <2>9. PICK p \in Nat, q \in Nat : p = Len(A) /\ q = Len(B)
    BY <2>6, <2>7, LenProperties
  <2>10. /\ Len(AB) = p + q
         /\ \A i \in 1..p : AB[i] = A[i]
         /\ \A i \in 1..q : AB[p + i] = B[i]
    BY <2>6, <2>7, <2>9, ConcatProperties
  <2> HIDE DEF AB
  <2>11. 2 * n <= m => p \in 1..Len(AB) /\ AB[p] = 2 * n
    BY <2>6, <2>9, <2>10
  <2>12. 2 * n + 1 <= m => p + q \in 1..Len(AB) /\ AB[p + q] = 2 * n + 1
    BY <2>7, <2>9, <2>10
  <2>13. \A c \in {2 * n, 2 * n + 1} : c <= m => \E j \in 1..Len(AB) : AB[j] = c
    BY <2>11, <2>12
  <2>14. EndsWith(AB \o <<n>>, m, n)
    BY <2>8, <2>13, AppendFirst
  <2>15. EndsWith(post[n], m, n)
    BY <2>4, <2>14 DEF AB
  <2> QED BY <2>1, <2>2, <2>15
<1>4. EndsWith(s, m, 1)
  <2>1. m - 1 \in Nat /\ m - 1 < m /\ m - (m - 1) = 1
    OBVIOUS
  <2>2. m - 1 \notin Bad
    BY <1>3
  <2> QED BY <1>1, <2>1, <2>2
<1> HIDE DEF Bad
<1>5. PICK l \in Nat : l = Len(s) /\ l >= 1
  BY <1>4, LenProperties DEF EndsWith
<1>6. s \in Seq(1..m) /\ ChildrenFirst(s, m) /\ s[l] = 1
  BY <1>4, <1>5 DEF EndsWith
<1> DEFINE Missed == {n \in 1..m : ~ \E k \in 1..l : s[k] = n}
<1>7. Missed = {}
  <2> SUFFICES ASSUME Missed # {} PROVE FALSE
    OBVIOUS
  <2>0. Missed \in SUBSET Nat
    OBVIOUS
  <2>1. PICK n \in Missed : \A j \in Missed : n <= j
    <3> HIDE DEF Missed
    <3> QED BY <2>0, LeastNumber
  <2>2. n \in 1..m /\ n # 1 /\ n >= 2
    <3>1. n # 1
      BY <1>5, <1>6, <2>1
    <3> QED BY <2>1, <3>1
  <2>3. /\ Parent(n) \in 1..m /\ Parent(n) < n
        /\ n \in {2 * Parent(n), 2 * Parent(n) + 1}
    BY <2>2, ParentSmaller
  <2>4. Parent(n) \notin Missed
    <3> HIDE DEF Missed
    <3> QED BY <2>1, <2>2, <2>3
  <2>5. PICK k \in 1..l : s[k] = Parent(n)
    BY <2>3, <2>4
  <2>6. PICK j \in 1..k - 1 : s[j] = n
    <3>1. \A c \in {2 * s[k], 2 * s[k] + 1} : c <= m => \E j \in 1..k - 1 : s[j] = c
      BY <1>5, <1>6, <2>5 DEF ChildrenFirst
    <3>2. n <= m /\ n \in {2 * s[k], 2 * s[k] + 1}
      BY <2>2, <2>3, <2>5
    <3> QED BY <3>1, <3>2
  <2>7. j \in 1..l
    BY <2>5, <2>6
  <2> QED BY <2>1, <2>6, <2>7
<1> QED BY <1>5, <1>6, <1>7 DEF VisitsAll, s

(* A set of nodes that has the children of its nodes.                      *)
ChildClosed(S, m) == \A j \in S : {2 * j, 2 * j + 1} \cap 1..m \subseteq S

(* The node that is written next is dirty, and nothing below it is.        *)
LEMMA FirstDirtyIsLowest ==
  ASSUME NEW t, NEW m \in Nat, m >= 1, Len(t.node) = m,
         t.changed \subseteq 1..m, t.changed # {}, NEW n, n = FirstDirty(t)
  PROVE  /\ n \in t.changed
         /\ \E S \in SUBSET (1..m) :
               /\ n \in S /\ ChildClosed(S, m) /\ S \cap t.changed = {n}
               /\ n >= 2 => Parent(n) \notin S
<1>s. PICK s : s = PostOrder(m)
  OBVIOUS
<1>1. /\ s \in Seq(1..m) /\ ChildrenFirst(s, m)
      /\ \A i \in 1..m : \E k \in 1..Len(s) : s[k] = i
  BY <1>s, PostOrderVisits DEF VisitsAll
<1> DEFINE I == {i \in 1..Len(s) : s[i] \in t.changed}
<1>2. n = s[IF I # {} THEN Min(I) ELSE 0]
  BY <1>s DEF FirstDirty, SelectInSeq
<1>3. PICK l \in Nat : l = Len(s)
  BY <1>1, LenProperties
<1>4. I # {} /\ I \in SUBSET Nat
  <2>1. PICK i \in t.changed : i \in 1..m
    OBVIOUS
  <2>2. PICK k \in 1..Len(s) : s[k] = i
    BY <1>1, <2>1
  <2>3. k \in I
    BY <2>1, <2>2
  <2>4. 1..Len(s) \subseteq Nat
    BY <1>3
  <2> QED BY <2>3, <2>4
<1>5. PICK k \in I : \A j \in I : k <= j
  <2> HIDE DEF I
  <2> QED BY <1>4, LeastNumber
<1>6. Min(I) \in I /\ \A j \in I : Min(I) <= j
  <2> HIDE DEF I
  <2> QED BY <1>5 DEF Min
<1> DEFINE x == Min(I)
<1>7. n = s[x]
  BY <1>2, <1>4
<1>8. x \in 1..l /\ n \in t.changed
  BY <1>3, <1>6, <1>7
<1>9. ASSUME NEW j \in 1..x - 1 PROVE s[j] \notin t.changed /\ j \in 1..l
  <2>1. j \in 1..l /\ j \in Nat /\ x \in Nat /\ j < x
    BY <1>8
  <2>2. j \notin I
    <3> HIDE DEF I
    <3> QED BY <1>6, <2>1
  <2> QED BY <1>3, <2>1, <2>2
<1> HIDE DEF I, x
<1> DEFINE S == {s[j] : j \in 1..x}
<1>10. S \in SUBSET (1..m) /\ n \in S
  <2>1. \A j \in 1..x : j \in 1..l
    BY <1>8
  <2>2. \A j \in 1..l : s[j] \in 1..m
    BY <1>1, <1>3, ElementOfSeq
  <2>3. x \in 1..x
    BY <1>8
  <2> QED BY <1>7, <2>1, <2>2, <2>3
<1>11. ASSUME NEW j \in 1..x, NEW c \in {2 * s[j], 2 * s[j] + 1}, c <= m
       PROVE  \E i \in 1..j - 1 : s[i] = c /\ i \in 1..x - 1
  <2>1. j \in 1..l
    BY <1>8
  <2>2. PICK i \in 1..j - 1 : s[i] = c
    BY <1>1, <1>3, <1>11, <2>1 DEF ChildrenFirst
  <2>3. i \in 1..x - 1
    BY <1>8, <2>2
  <2> QED BY <2>2, <2>3
<1>12. ChildClosed(S, m)
  <2> SUFFICES ASSUME NEW i \in S, NEW c \in {2 * i, 2 * i + 1}, c \in 1..m PROVE c \in S
    BY DEF ChildClosed
  <2>1. PICK j \in 1..x : s[j] = i
    OBVIOUS
  <2>2. PICK h \in 1..x - 1 : s[h] = c
    BY <1>11, <2>1
  <2>3. h \in 1..x
    BY <1>8
  <2> QED BY <2>2, <2>3
<1>13. S \cap t.changed = {n}
  <2>1. ASSUME NEW i \in S, i \in t.changed PROVE i = n
    <3>1. PICK j \in 1..x : s[j] = i
      OBVIOUS
    <3>2. j = x \/ j \in 1..x - 1
      BY <1>8
    <3> QED BY <1>7, <1>9, <2>1, <3>1, <3>2
  <2> HIDE DEF S
  <2> QED BY <1>8, <1>10, <2>1
<1>14. n >= 2 => Parent(n) \notin S
  <2> SUFFICES ASSUME n >= 2, Parent(n) \in S PROVE FALSE
    OBVIOUS
  <2>1. PICK j \in 1..x : s[j] = Parent(n)
    OBVIOUS
  <2>2. n \in 1..m /\ n \in Nat /\ n \in {2 * Parent(n), 2 * Parent(n) + 1} /\ n <= m
    BY <1>8, ParentSmaller
  <2>3. PICK i \in 1..x - 1 : s[i] = n
    BY <1>11, <2>1, <2>2
  <2> QED BY <1>8, <1>9, <2>3
<1> QED BY <1>8, <1>10, <1>12, <1>13, <1>14
(* The images of a tree of n nodes.                                        *)
IsImage(x) ==
  /\ x = [hash |-> x.hash, tag |-> x.tag, blk |-> x.blk, child |-> x.child]
  /\ x.tag \in Data \cup {Zero} /\ x.blk \in Vers /\ x.child \in [1..2 -> Vers]

IsTree(T, n) == T = [i \in 1..n |-> T[i]] /\ \A i \in 1..n : IsImage(T[i])

(* The hashes of the nodes are those of what is below them.                *)
IsHashed(T, n) == \A i \in 1..n : T[i].hash = calc_node_hash(T, i)

LEMMA ZeroIsImage == IsImage(ZeroImage)
BY DEF IsImage, ZeroImage, Vers

LEMMA TreeLen ==
  ASSUME NEW T, NEW n \in Nat, IsTree(T, n)
  PROVE  Len(T) = n /\ DOMAIN T = 1..n
BY DEF IsTree

LEMMA HashedImage ==
  ASSUME NEW x, IsImage(x), NEW h
  PROVE  /\ IsImage([x EXCEPT !.hash = h]) /\ [x EXCEPT !.hash = h].hash = h
         /\ [x EXCEPT !.hash = h].tag = x.tag /\ [x EXCEPT !.hash = h].blk = x.blk
         /\ [x EXCEPT !.hash = h].child = x.child
BY DEF IsImage

(* The nodes that are read from images of the right shape.                 *)
LEMMA TreeFromImages ==
  ASSUME NEW N, NEW n \in Nat, n >= 1, NEW v \in Vers,
         \A i \in 1..n, w \in Vers : IsImage(N[i][w])
  PROVE  IsTree(TreeFrom(N, n, v), n)
<1>1. PICK T : T = TreeFrom(N, n, v)
  OBVIOUS
<1>2. /\ T = [i \in 1..n |-> T[i]]
      /\ T[1] = N[1][v]
      /\ \A i \in 2..n : T[i] = N[i][T[Parent(i)].child[Side(i)]]
  BY <1>1, TreeLinks
<1> DEFINE Bad == {i \in 1..n : ~ IsImage(T[i])}
<1>3. Bad = {}
  <2> SUFFICES ASSUME Bad # {} PROVE FALSE
    OBVIOUS
  <2>0. Bad \in SUBSET Nat
    OBVIOUS
  <2>1. PICK k \in Bad : \A j \in Bad : k <= j
    <3> HIDE DEF Bad
    <3> QED BY <2>0, LeastNumber
  <2>2. k \in 1..n /\ k # 1 /\ k \in 2..n
    <3>1. k \in 1..n /\ ~ IsImage(T[k])
      BY <2>1
    <3>2. IsImage(T[1])
      BY <1>2
    <3> QED BY <3>1, <3>2
  <2>3. Parent(k) \in 1..n /\ Parent(k) < k /\ k \in Nat /\ Side(k) \in 1..2
    BY <2>2, ParentSmaller
  <2>4. Parent(k) \notin Bad
    <3> HIDE DEF Bad
    <3> QED BY <2>1, <2>3
  <2>5. T[Parent(k)].child[Side(k)] \in Vers
    BY <2>3, <2>4 DEF IsImage
  <2>6. T[k] = N[k][T[Parent(k)].child[Side(k)]]
    BY <1>2, <2>2
  <2>7. IsImage(T[k])
    BY <2>2, <2>5, <2>6
  <2> QED BY <2>1, <2>7
<1> QED BY <1>1, <1>2, <1>3 DEF IsTree

LEMMA ChildrenOf ==
  ASSUME NEW T, NEW n \in Nat, IsTree(T, n), NEW i
  PROVE  Children(T, i) = {c \in {2 * i, 2 * i + 1} : c <= n}
BY TreeLen DEF Children

LEMMA EqualHash ==
  ASSUME NEW T, NEW U, NEW i, calc_node_hash(T, i) = calc_node_hash(U, i)
  PROVE  /\ T[i].tag = U[i].tag /\ T[i].blk = U[i].blk /\ T[i].child = U[i].child
         /\ Children(T, i) = Children(U, i)
         /\ \A c \in Children(T, i) : T[c].hash = U[c].hash
BY DEF calc_node_hash

(* The hash of the root tells two trees apart.                             *)
LEMMA RootTells ==
  ASSUME NEW T, NEW n \in Nat, n >= 1, IsTree(T, n), IsHashed(T, n),
         NEW C, NEW m \in Nat, m >= 1, IsTree(C, m), IsHashed(C, m),
         T[1].hash = C[1].hash
  PROVE  \A i \in 1..n : i <= m /\ T[i].blk = C[i].blk
<1> DEFINE Bad == {i \in 1..n : ~ (i <= m /\ T[i].hash = C[i].hash)}
<1>1. Bad = {}
  <2> SUFFICES ASSUME Bad # {} PROVE FALSE
    OBVIOUS
  <2>0. Bad \in SUBSET Nat
    OBVIOUS
  <2>1. PICK k \in Bad : \A j \in Bad : k <= j
    <3> HIDE DEF Bad
    <3> QED BY <2>0, LeastNumber
  <2>2. k \in 1..n /\ k # 1 /\ k \in Nat /\ k >= 2
    BY <2>1
  <2>3. PICK p \in 1..n : p = Parent(k) /\ p < k /\ k \in {2 * p, 2 * p + 1}
    BY <2>2, ParentSmaller
  <2>4. p \notin Bad
    <3> HIDE DEF Bad
    <3> QED BY <2>1, <2>2, <2>3
  <2>5. p <= m /\ T[p].hash = C[p].hash
    BY <2>4
  <2>6. calc_node_hash(T, p) = calc_node_hash(C, p)
    BY <2>3, <2>5 DEF IsHashed
  <2>7. k \in Children(T, p)
    BY <2>2, <2>3, ChildrenOf
  <2>8. k \in Children(C, p) /\ T[k].hash = C[k].hash
    BY <2>6, <2>7, EqualHash
  <2>9. k <= m
    BY <2>8, ChildrenOf
  <2> QED BY <2>1, <2>8, <2>9
<1>2. ASSUME NEW i \in 1..n PROVE i <= m /\ T[i].blk = C[i].blk
  <2>1. i <= m /\ T[i].hash = C[i].hash
    BY <1>1
  <2>2. calc_node_hash(T, i) = calc_node_hash(C, i)
    BY <2>1 DEF IsHashed
  <2> QED BY <2>1, <2>2, EqualHash
<1> QED BY <1>2

(* A hash that was calculated is none of those that stand for nothing.     *)
LEMMA RealHash ==
  ASSUME NEW T, NEW i
  PROVE  calc_node_hash(T, i) \notin {ZeroHash, TornHash, NoHash}
BY DEF calc_node_hash, ZeroHash, TornHash, NoHash

(* The tree in memory has a node for every block and for every node that   *)
(* is marked.                                                              *)
MemOK(t) ==
  /\ t = Fields(t) /\ t.max \in 0..MaxBlocks
  /\ IsTree(t.node, NodeCount(t.max))
  /\ t.len \in 0..NodeCount(t.max)
  /\ t.updated \subseteq t.changed /\ t.changed \subseteq 1..NodeCount(t.max)

LEMMA NodeCountType ==
  ASSUME NEW x \in 0..MaxBlocks
  PROVE  /\ NodeCount(x) \in 1..MaxBlocks /\ NodeCount(x) \in Ids /\ NodeCount(x) \in Nat
         /\ NodeCount(x) >= 1 /\ NodeCount(x) <= MaxBlocks
         /\ \A i \in 1..NodeCount(x) : i \in Ids /\ i \in Nat /\ i - 1 \in Blocks
         /\ 1 \in Ids
BY BoundsAssumption DEF NodeCount, Ids, Blocks

OldNode(t, i) == IF i <= NodeCount(t.max) THEN t.node[i] ELSE ZeroImage

(* The tree t after a write of block b.                                    *)
Rewritten(t, b, u, k) ==
  /\ MemOK(u) /\ k = NodeCount(u.max) /\ NodeCount(t.max) <= k /\ b + 1 <= k
  /\ u.counter = t.counter /\ u.dirty = TRUE
  /\ u.len = IF b = t.len THEN b + 1 ELSE t.len
  /\ u.updated = t.updated \cup {b + 1} /\ u.changed = t.changed \cup {b + 1}
  /\ \A i \in 1..k : i # b + 1 => i <= NodeCount(t.max) /\ u.node[i] = t.node[i]
  /\ u.node[b + 1].tag = seq + 1
  /\ u.node[b + 1].blk = IF b + 1 \in t.updated THEN OldNode(t, b + 1).blk
                         ELSE 1 - OldNode(t, b + 1).blk
  /\ u.node[b + 1].child = OldNode(t, b + 1).child
  /\ u.node[b + 1].hash = OldNode(t, b + 1).hash

LEMMA GetNode ==
  ASSUME NEW t, MemOK(t), NEW b \in Blocks, b <= t.len, NEW u, u = get_node(t, b + 1),
         NEW n, n = NodeCount(t.max)
  PROVE  \E k \in 1..MaxBlocks :
         /\ u = Fields(u) /\ k = NodeCount(u.max) /\ u.max \in 0..MaxBlocks
         /\ n <= k /\ b + 1 <= k /\ (k = n \/ (k = n + 1 /\ b + 1 = k))
         /\ u.counter = t.counter /\ u.len = t.len
         /\ u.changed = t.changed /\ u.updated = t.updated
         /\ IsTree(u.node, k)
         /\ \A i \in 1..k : u.node[i] = OldNode(t, i)
<1>1. n \in 1..MaxBlocks /\ n \in Nat
  BY NodeCountType DEF MemOK
<1>2. Len(t.node) = n
  BY <1>1, TreeLen DEF MemOK
<1>3. b \in Nat /\ b + 1 \in 1..MaxBlocks /\ b <= n /\ b + 1 \in 0..MaxBlocks
  BY <1>1, BoundsAssumption DEF MemOK, Blocks
<1>4. CASE b + 1 <= n
  <2>1. u = t
    BY <1>2, <1>4 DEF get_node
  <2>2. \A i \in 1..n : u.node[i] = OldNode(t, i)
    BY <1>1, <2>1 DEF OldNode
  <2> QED BY <1>1, <1>3, <1>4, <2>1, <2>2 DEF MemOK
<1>5. CASE ~ b + 1 <= n
  <2>1. b + 1 = n + 1 /\ NodeCount(b + 1) = b + 1
    BY <1>1, <1>3, <1>5 DEF NodeCount
  <2>2. u = [t EXCEPT !.node = Extended(@, b + 1), !.max = b + 1]
    BY <1>2, <1>5 DEF get_node
  <2>3. /\ u = Fields(u) /\ u.max = b + 1 /\ u.node = Extended(t.node, b + 1)
        /\ u.counter = t.counter /\ u.len = t.len
        /\ u.changed = t.changed /\ u.updated = t.updated
    BY <2>2 DEF MemOK, Fields
  <2>4. u.node = [i \in 1..b + 1 |-> IF i <= n THEN t.node[i] ELSE ZeroImage]
    BY <1>2, <2>3 DEF Extended
  <2>5. \A i \in 1..b + 1 : u.node[i] = OldNode(t, i)
    BY <2>4 DEF OldNode
  <2>6. \A i \in 1..b + 1 : IsImage(u.node[i])
    BY <1>1, <1>3, <2>1, <2>4, ZeroIsImage DEF MemOK, IsTree
  <2>7. IsTree(u.node, b + 1)
    BY <2>4, <2>6 DEF IsTree
  <2> QED BY <1>1, <1>3, <2>1, <2>3, <2>5, <2>7
<1> QED BY <1>4, <1>5

LEMMA BlockIsRewritten ==
  ASSUME NEW t, MemOK(t), NEW b \in Blocks, b <= t.len, seq \in Nat, seq < MaxWrites,
         NEW u, u = BlockWritten(t, b)
  PROVE  \E k \in 1..MaxBlocks : Rewritten(t, b, u, k)
<1>1. PICK w : w = get_node(t, b + 1)
  OBVIOUS
<1>2. PICK n : n = NodeCount(t.max)
  OBVIOUS
<1>3. PICK k \in 1..MaxBlocks :
         /\ w = Fields(w) /\ k = NodeCount(w.max) /\ w.max \in 0..MaxBlocks
         /\ n <= k /\ b + 1 <= k /\ (k = n \/ (k = n + 1 /\ b + 1 = k))
         /\ w.counter = t.counter /\ w.len = t.len
         /\ w.changed = t.changed /\ w.updated = t.updated
         /\ IsTree(w.node, k)
         /\ \A i \in 1..k : w.node[i] = OldNode(t, i)
  BY <1>1, <1>2, GetNode
<1>4. n \in 1..MaxBlocks /\ n \in Nat /\ b \in Nat /\ b + 1 \in 1..k
  BY <1>2, <1>3, NodeCountType, BoundsAssumption DEF MemOK, Blocks
<1>5. u = [w EXCEPT !.node[b + 1].tag = seq + 1,
                    !.node[b + 1].blk = IF b + 1 \in w.updated THEN @ ELSE 1 - @,
                    !.updated = @ \cup {b + 1}, !.changed = @ \cup {b + 1},
                    !.dirty = TRUE, !.len = IF b = @ THEN b + 1 ELSE @]
  BY <1>1 DEF BlockWritten
<1>6. PICK x : x = w.node[b + 1] /\ IsImage(x)
  BY <1>3, <1>4 DEF IsTree
<1> DEFINE blk == IF b + 1 \in w.updated THEN x.blk ELSE 1 - x.blk
           y == [hash |-> x.hash, tag |-> seq + 1, blk |-> blk, child |-> x.child]
<1>7. blk \in Vers /\ seq + 1 \in Data
  BY <1>6, BoundsAssumption DEF IsImage, Vers, Data
<1>8. IsImage(y)
  BY <1>6, <1>7 DEF IsImage
<1>9. /\ u = Fields(u) /\ u.counter = w.counter /\ u.max = w.max
      /\ u.len = (IF b = w.len THEN b + 1 ELSE w.len) /\ u.dirty = TRUE
      /\ u.updated = w.updated \cup {b + 1} /\ u.changed = w.changed \cup {b + 1}
  BY <1>3, <1>5 DEF Fields
<1>10. u.node = [w.node EXCEPT ![b + 1] = y]
  <2>1. u.node = [[w.node EXCEPT ![b + 1].tag = seq + 1]
                     EXCEPT ![b + 1].blk = IF b + 1 \in w.updated THEN @ ELSE 1 - @]
    BY <1>3, <1>5 DEF Fields
  <2>2. DOMAIN w.node = 1..k
    BY <1>3, TreeLen
  <2>3. x = [hash |-> x.hash, tag |-> x.tag, blk |-> x.blk, child |-> x.child]
    BY <1>6 DEF IsImage
  <2> QED BY <1>4, <1>6, <2>1, <2>2, <2>3
<1> HIDE DEF y, blk
<1>11. /\ IsTree(u.node, k) /\ u.node[b + 1] = y
       /\ \A i \in 1..k : i # b + 1 => u.node[i] = w.node[i]
  BY <1>3, <1>4, <1>8, <1>10 DEF IsTree
<1>12. MemOK(u)
  <2>1. u.len \in 0..k
    BY <1>2, <1>3, <1>4, <1>9 DEF MemOK
  <2>2. u.updated \subseteq u.changed /\ u.changed \subseteq 1..k
    BY <1>2, <1>3, <1>4, <1>9 DEF MemOK
  <2> QED BY <1>3, <1>9, <1>11, <2>1, <2>2 DEF MemOK
<1>13. ASSUME NEW i \in 1..k, i # b + 1 PROVE i <= n /\ u.node[i] = t.node[i]
  BY <1>2, <1>3, <1>4, <1>11, <1>13 DEF OldNode
<1>14. /\ y.tag = seq + 1 /\ y.child = OldNode(t, b + 1).child
       /\ y.hash = OldNode(t, b + 1).hash
       /\ y.blk = IF b + 1 \in t.updated THEN OldNode(t, b + 1).blk ELSE 1 - OldNode(t, b + 1).blk
  BY <1>3, <1>4, <1>6 DEF y, blk
<1>15. Rewritten(t, b, u, k)
  BY <1>2, <1>3, <1>9, <1>11, <1>12, <1>13, <1>14 DEF Rewritten
<1> QED BY <1>15

(* The tree t after node i was written.                                    *)
Flushed(t, i, u) ==
  /\ MemOK(u) /\ u.max = t.max /\ u.counter = t.counter /\ u.dirty = t.dirty
  /\ u.len = t.len
  /\ u.changed = (IF i = 1 THEN t.changed ELSE t.changed \cup {Parent(i)}) \ {i}
  /\ u.updated = t.updated \ {i}
  /\ \A j \in 1..NodeCount(t.max) :
       /\ u.node[j].tag = t.node[j].tag /\ u.node[j].blk = t.node[j].blk
       /\ j # i => u.node[j].hash = t.node[j].hash
       /\ i = 1 \/ j # Parent(i) => u.node[j].child = t.node[j].child
       /\ j # i /\ (i = 1 \/ j # Parent(i)) => u.node[j] = t.node[j]
  /\ u.node[i].hash = calc_node_hash(t.node, i)
  /\ i # 1 => u.node[Parent(i)].child =
                [t.node[Parent(i)].child EXCEPT ![Side(i)] = 1 - @]

LEMMA NodeIsFlushed ==
  ASSUME NEW t, MemOK(t), NEW i \in 1..NodeCount(t.max), i \in t.changed,
         NEW u, u = NodeSynced(t, i)
  PROVE  Flushed(t, i, u)
<1>1. PICK n \in 1..MaxBlocks : n = NodeCount(t.max)
  BY NodeCountType DEF MemOK
<1>2. t = Fields(t) /\ IsTree(t.node, n) /\ DOMAIN t.node = 1..n /\ i \in 1..n /\ Len(t.node) = n
  BY <1>1, TreeLen DEF MemOK
<1> DEFINE w == IF i = 1 THEN t
                ELSE [t EXCEPT !.node[Parent(i)].child[Side(i)] = 1 - @,
                               !.changed = @ \cup {Parent(i)}]
<1>3. u = [w EXCEPT !.node[i].hash = calc_node_hash(w.node, i),
                    !.changed = @ \ {i}, !.updated = @ \ {i}]
  BY DEF NodeSynced
<1>4. /\ w = Fields(w) /\ w.counter = t.counter /\ w.dirty = t.dirty /\ w.max = t.max
      /\ w.len = t.len /\ w.updated = t.updated
      /\ w.changed = IF i = 1 THEN t.changed ELSE t.changed \cup {Parent(i)}
      /\ i = 1 => w.node = t.node
      /\ i # 1 => w.node = [t.node EXCEPT ![Parent(i)].child[Side(i)] = 1 - @]
  BY <1>2 DEF Fields
<1>5. i # 1 => /\ Parent(i) \in 1..n /\ Parent(i) # i /\ Side(i) \in 1..2
               /\ Parent(i) < i
               /\ i \in {2 * Parent(i), 2 * Parent(i) + 1}
  BY <1>2, ParentSmaller
<1> HIDE DEF w
<1> DEFINE pc2 == [t.node[Parent(i)].child EXCEPT ![Side(i)] = 1 - @]
<1>6. i # 1 => /\ pc2 \in [1..2 -> Vers]
               /\ w.node[Parent(i)].child = pc2
               /\ w.node[Parent(i)] = [t.node[Parent(i)] EXCEPT !.child = pc2]
  <2> SUFFICES ASSUME i # 1
               PROVE  /\ pc2 \in [1..2 -> Vers]
                      /\ w.node[Parent(i)].child = pc2
                      /\ w.node[Parent(i)] = [t.node[Parent(i)] EXCEPT !.child = pc2]
    OBVIOUS
  <2>1. PICK p \in 1..n : p = Parent(i) /\ p # i
    BY <1>5
  <2>2. PICK s \in 1..2 : s = Side(i)
    BY <1>5
  <2>3. IsImage(t.node[p])
    BY <1>2 DEF IsTree
  <2>4. pc2 \in [1..2 -> Vers]
    BY <2>1, <2>2, <2>3 DEF IsImage, Vers
  <2>5. w.node[p] = [t.node[p] EXCEPT !.child = pc2]
    BY <1>2, <1>4, <2>1
  <2>6. [t.node[p] EXCEPT !.child = pc2].child = pc2
    <3> HIDE DEF pc2
    <3> QED BY <2>3 DEF IsImage
  <2> QED BY <2>1, <2>4, <2>5, <2>6
<1> HIDE DEF pc2
<1>7. /\ IsTree(w.node, n)
      /\ \A j \in 1..n : /\ w.node[j].tag = t.node[j].tag /\ w.node[j].blk = t.node[j].blk
                         /\ w.node[j].hash = t.node[j].hash
                         /\ i = 1 \/ j # Parent(i) => w.node[j] = t.node[j]
  <2>1. CASE i = 1
    BY <1>2, <1>4, <2>1
  <2>2. CASE i # 1
    <3>1. PICK p \in 1..n : p = Parent(i)
      BY <1>5, <2>2
    <3>2. PICK x : x = t.node[p] /\ IsImage(x)
      BY <1>2 DEF IsTree
    <3>3. PICK y : y = w.node[p] /\ y = [x EXCEPT !.child = pc2]
      BY <1>6, <2>2, <3>1, <3>2
    <3>4. /\ IsImage(y) /\ y.tag = x.tag /\ y.blk = x.blk /\ y.hash = x.hash
      BY <1>6, <2>2, <3>2, <3>3 DEF IsImage
    <3>5. /\ w.node = [j \in 1..n |-> w.node[j]]
          /\ \A j \in 1..n : j # p => w.node[j] = t.node[j]
      BY <1>2, <1>4, <2>2, <3>1
    <3>6. \A j \in 1..n : IsImage(w.node[j])
      BY <1>2, <3>3, <3>4, <3>5 DEF IsTree
    <3>7. IsTree(w.node, n)
      BY <3>5, <3>6 DEF IsTree
    <3>8. ASSUME NEW j \in 1..n
          PROVE  /\ w.node[j].tag = t.node[j].tag /\ w.node[j].blk = t.node[j].blk
                 /\ w.node[j].hash = t.node[j].hash
                 /\ i = 1 \/ j # Parent(i) => w.node[j] = t.node[j]
      <4>1. CASE j = p
        BY <2>2, <3>1, <3>2, <3>3, <3>4, <4>1
      <4>2. CASE j # p
        BY <3>5, <4>2
      <4> QED BY <4>1, <4>2
    <3> QED BY <3>7, <3>8
  <2> QED BY <2>1, <2>2
<1>8. calc_node_hash(w.node, i) = calc_node_hash(t.node, i)
  <2>1. Children(w.node, i) = Children(t.node, i) /\ Children(t.node, i) \subseteq 1..n
    <3>1. n \in Nat /\ i \in Nat /\ i >= 1
      BY <1>2
    <3>2. Children(w.node, i) = {c \in {2 * i, 2 * i + 1} : c <= n}
      BY <1>7, <3>1, ChildrenOf
    <3>3. Children(t.node, i) = {c \in {2 * i, 2 * i + 1} : c <= n}
      BY <1>2, <3>1, ChildrenOf
    <3>4. {c \in {2 * i, 2 * i + 1} : c <= n} \subseteq 1..n
      BY <3>1
    <3> QED BY <3>2, <3>3, <3>4
  <2>2. \A c \in Children(t.node, i) : w.node[c].hash = t.node[c].hash
    BY <1>7, <2>1
  <2>3. w.node[i] = t.node[i]
    BY <1>2, <1>5, <1>7
  <2> QED BY <2>1, <2>2, <2>3 DEF calc_node_hash
<1>9. PICK h : h = calc_node_hash(w.node, i)
  OBVIOUS
<1>10. /\ u = Fields(u) /\ u.counter = w.counter /\ u.dirty = w.dirty /\ u.max = w.max
       /\ u.len = w.len /\ u.changed = w.changed \ {i} /\ u.updated = w.updated \ {i}
       /\ u.node = [w.node EXCEPT ![i].hash = h]
  BY <1>3, <1>4, <1>9 DEF Fields
<1>11. PICK x : x = w.node[i] /\ IsImage(x)
  BY <1>2, <1>7 DEF IsTree
<1>12. PICK y : y = [x EXCEPT !.hash = h]
  OBVIOUS
<1>13. IsImage(y) /\ y.hash = h /\ y.tag = x.tag /\ y.blk = x.blk /\ y.child = x.child
  BY <1>11, <1>12 DEF IsImage
<1>14. /\ u.node = [j \in 1..n |-> u.node[j]] /\ u.node[i] = y
       /\ \A j \in 1..n : j # i => u.node[j] = w.node[j]
  BY <1>2, <1>7, <1>10, <1>11, <1>12 DEF IsTree
<1>15. IsTree(u.node, n)
  BY <1>7, <1>13, <1>14 DEF IsTree
<1>16. u.updated \subseteq u.changed /\ u.changed \subseteq 1..n
  BY <1>1, <1>4, <1>5, <1>10 DEF MemOK
<1>17. MemOK(u)
  BY <1>1, <1>4, <1>10, <1>15, <1>16 DEF MemOK
<1>18. ASSUME NEW j \in 1..n
       PROVE  /\ u.node[j].tag = t.node[j].tag /\ u.node[j].blk = t.node[j].blk
              /\ j # i => u.node[j].hash = t.node[j].hash
              /\ i = 1 \/ j # Parent(i) => u.node[j].child = t.node[j].child
              /\ j # i /\ (i = 1 \/ j # Parent(i)) => u.node[j] = t.node[j]
  <2>1. CASE j = i
    <3>1. u.node[j] = y /\ w.node[j] = x
      BY <1>11, <1>14, <2>1
    <3> QED BY <1>7, <1>13, <2>1, <3>1
  <2>2. CASE j # i
    BY <1>7, <1>14, <2>2
  <2> QED BY <2>1, <2>2
<1>19. u.node[i].hash = calc_node_hash(t.node, i)
  BY <1>8, <1>9, <1>13, <1>14
<1>20. i # 1 => u.node[Parent(i)].child = pc2
  BY <1>5, <1>6, <1>14
<1> QED BY <1>1, <1>4, <1>10, <1>17, <1>18, <1>19, <1>20 DEF Flushed, pc2

-----------------------------------------------------------------------------
(* Types.                                                                  *)
NodesOK(N) == /\ N = [n \in Ids |-> [v \in Vers |-> N[n][v]]]
              /\ \A n \in Ids, v \in Vers : IsImage(N[n][v])
BlocksOK(B) == /\ B = [b \in Blocks |-> [v \in Vers |-> B[b][v]]]
               /\ \A b \in Blocks, v \in Vers : B[b][v] \in Data \cup {Zero, Torn}

LEMMA NodeWrite ==
  ASSUME NEW N, NodesOK(N), NEW n \in Ids, NEW w \in Vers, NEW x, IsImage(x),
         NEW M, M = [N EXCEPT ![n][w] = x]
  PROVE  /\ NodesOK(M) /\ M[n][w] = x
         /\ \A i \in Ids, v \in Vers : i # n \/ v # w => M[i][v] = N[i][v]
<1>1. M = [i \in Ids |-> [v \in Vers |-> IF i = n /\ v = w THEN x ELSE N[i][v]]]
  BY DEF NodesOK
<1>2. \A i \in Ids, v \in Vers : M[i][v] = IF i = n /\ v = w THEN x ELSE N[i][v]
  BY <1>1
<1>3. M = [i \in Ids |-> [v \in Vers |-> M[i][v]]]
  BY <1>1, <1>2
<1> QED BY <1>2, <1>3 DEF NodesOK

LEMMA BlockWrite ==
  ASSUME NEW B, BlocksOK(B), NEW b \in Blocks, NEW w \in Vers,
         NEW x \in Data \cup {Zero, Torn}, NEW M, M = [B EXCEPT ![b][w] = x]
  PROVE  /\ BlocksOK(M) /\ M[b][w] = x
         /\ \A i \in Blocks, v \in Vers : i # b \/ v # w => M[i][v] = B[i][v]
<1>1. M = [i \in Blocks |-> [v \in Vers |-> IF i = b /\ v = w THEN x ELSE B[i][v]]]
  BY DEF BlocksOK
<1>2. \A i \in Blocks, v \in Vers : M[i][v] = IF i = b /\ v = w THEN x ELSE B[i][v]
  BY <1>1
<1>3. M = [i \in Blocks |-> [v \in Vers |-> M[i][v]]]
  BY <1>1, <1>2
<1>4. \A i \in Blocks, v \in Vers : M[i][v] \in Data \cup {Zero, Torn}
  BY <1>2 DEF BlocksOK
<1> QED BY <1>2, <1>3, <1>4 DEF BlocksOK

HeadLen(v) == head[v].len \in 0..NodeCount(head[v].max)

(* The inductive invariant behind TypeOK.  With truncations that cut no    *)
(* node, a tree is dirty only while it is written or synced or after an    *)
(* extension, and has dirty nodes only then.                               *)
TInv ==
  /\ pc \in PCs /\ (pc = "closed" => ht = Closed)
  /\ NodesOK(node) /\ BlocksOK(block)
  /\ \A v \in Vers : HeadLen(v)
  /\ pc # "closed" => MemOK(ht)
  /\ pc \in {"open", "create", "dummy", "commit", "stale"} => ht.changed = {}
  /\ pc \in {"write", "extended"} => ht.changed # {}
  /\ pc \in {"open", "dummy", "commit", "stale"} => ht.dirty = FALSE

LEMMA ZeroDisk ==
  /\ NodesOK([n \in Ids |-> [v \in Vers |-> ZeroImage]])
  /\ BlocksOK([b \in Blocks |-> [v \in Vers |-> Zero]])
BY ZeroIsImage DEF NodesOK, BlocksOK

LEMMA InitTInv == Init => TInv
<1> SUFFICES ASSUME Init PROVE TInv
  OBVIOUS
<1>1. NodesOK(node) /\ BlocksOK(block)
  BY ZeroDisk DEF Init
<1>2. \A v \in Vers : HeadLen(v)
  BY DEF Init, HeadLen, ZeroHead, NodeCount
<1> QED BY <1>1, <1>2 DEF Init, TInv, PCs

(* The tree that is read has the shape of a tree.                          *)
LEMMA LoadedMem ==
  ASSUME HInv, TInv, NEW v \in Vers, NEW T, T = init_tree_from_data(v)
  PROVE  /\ NodeCount(head[v].max) \in 1..MaxBlocks /\ head[v].max \in 0..MaxBlocks
         /\ IsTree(T, NodeCount(head[v].max))
<1>1. head[v].max \in 0..MaxBlocks
  BY DEF HInv, HeadOK
<1>2. PICK n \in 1..MaxBlocks : n = NodeCount(head[v].max)
  BY <1>1, NodeCountType
<1>3. n \in Nat /\ n >= 1 /\ \A i \in 1..n : i \in Ids
  BY <1>2, BoundsAssumption DEF Ids
<1>4. \A i \in 1..n, w \in Vers : IsImage(node[i][w])
  BY <1>3 DEF TInv, NodesOK
<1>5. IsTree(TreeFrom(node, n, v), n)
  BY <1>3, <1>4, TreeFromImages
<1> QED BY <1>1, <1>2, <1>5 DEF init_tree_from_data

(* A truncation that cuts at most the node after the last block leaves the *)
(* nodes as they are.                                                      *)
LEMMA TruncateKeeps ==
  ASSUME MaxCut <= 1, NEW n \in 0..MaxBlocks, CanTruncate(n), MemOK(ht)
  PROVE  /\ tee_fs_htree_truncate(ht, n) = ht
         /\ n + 1 >= NodeCount(ht.max) /\ n <= ht.len
<1>1. NodeCount(ht.max) \in Nat /\ Len(ht.node) = NodeCount(ht.max)
  BY NodeCountType, TreeLen DEF MemOK
<1>2. n + 1 >= NodeCount(ht.max)
  BY <1>1, BoundsAssumption DEF CanTruncate
<1>3. ~ n + 1 < ht.max
  BY <1>1, <1>2, BoundsAssumption DEF NodeCount, MemOK
<1> QED BY <1>2, <1>3 DEF tee_fs_htree_truncate, CanTruncate

LEMMA SyncedNode ==
  ASSUME HInv, TInv, Syncing, ht.changed # {}, NEW i, i = FirstDirty(ht),
         NEW u, u = NodeSynced(ht, i)
  PROVE  /\ i \in 1..NodeCount(ht.max) /\ i \in Ids /\ i \in ht.changed
         /\ Flushed(ht, i, u)
         /\ NodeVersion(u, i) \in Vers
         /\ IsImage(u.node[i])
         /\ pc \in {"sync", "resync"}
<1>1. pc \in {"sync", "resync"} /\ MemOK(ht)
  BY DEF TInv, Syncing
<1>2. PICK n \in 1..MaxBlocks : n = NodeCount(ht.max)
  BY <1>1, NodeCountType DEF MemOK
<1>3. n \in Nat /\ n >= 1 /\ Len(ht.node) = n /\ ht.changed \subseteq 1..n
  BY <1>1, <1>2, TreeLen, BoundsAssumption DEF MemOK
<1>4. i \in ht.changed
  BY <1>3, FirstDirtyIsLowest
<1>5. i \in 1..n /\ i \in Ids
  BY <1>3, <1>4, BoundsAssumption DEF Ids
<1>6. Flushed(ht, i, u)
  BY <1>1, <1>2, <1>4, <1>5, NodeIsFlushed
<1>7. MemOK(u) /\ NodeCount(u.max) = n
  BY <1>2, <1>6 DEF Flushed
<1>8. \A j \in 1..n : IsImage(u.node[j])
  BY <1>7 DEF MemOK, IsTree
<1>9. NodeVersion(u, i) \in Vers
  <2>1. CASE i = 1
    <3>1. u.counter % 2 \in {0, 1}
      BY <1>1, <1>6 DEF Flushed, HInv, TreeOK
    <3> QED BY <2>1, <3>1 DEF NodeVersion, Vers
  <2>2. CASE i # 1
    <3>1. Parent(i) \in 1..n /\ Side(i) \in 1..2
      BY <1>3, <1>5, <2>2, ParentSmaller
    <3> QED BY <1>8, <2>2, <3>1 DEF NodeVersion, IsImage
  <2> QED BY <2>1, <2>2
<1> QED BY <1>1, <1>2, <1>4, <1>5, <1>6, <1>8, <1>9

LEMMA NextTInv ==
  ASSUME MaxCut <= 1, HInv, TInv, [Next]_vars
  PROVE  TInv'
<1> USE BoundsAssumption
<1>0. seq \in Nat /\ (pc # "closed" => MemOK(ht) /\ ht.counter \in Nat)
  BY DEF HInv, TInv, TreeOK
<1>1. CASE UNCHANGED vars
  BY <1>1 DEF vars, TInv, HeadLen
<1>2. CASE tee_fs_htree_create
  <2>1. /\ head' = [v \in Vers |-> ZeroHead] /\ ht' = NewTree /\ pc' = "create"
        /\ NodesOK(node') /\ BlocksOK(block')
    BY <1>2, ZeroDisk DEF tee_fs_htree_create
  <2>2. \A v \in Vers : HeadLen(v)'
    BY <2>1 DEF HeadLen, ZeroHead, NodeCount
  <2>3. MemOK(NewTree) /\ NewTree.changed = {}
    <3>1. /\ NewTree = Fields(NewTree) /\ NewTree.max = 0 /\ NewTree.len = 0
          /\ NewTree.changed = {} /\ NewTree.updated = {}
          /\ NewTree.node = <<[ZeroImage EXCEPT !.hash = calc_node_hash(<<ZeroImage>>, 1)]>>
      BY DEF NewTree, Fields
    <3>2. PICK x : x = [ZeroImage EXCEPT !.hash = calc_node_hash(<<ZeroImage>>, 1)]
      OBVIOUS
    <3>3. IsImage(x)
      BY <3>2, ZeroIsImage, HashedImage
    <3>4. IsTree(<<x>>, 1)
      BY <3>3 DEF IsTree
    <3> QED BY <3>1, <3>2, <3>4 DEF MemOK, NodeCount
  <2> QED BY <2>1, <2>2, <2>3 DEF TInv, PCs
<1>3. CASE tee_fs_htree_open
  <2>1. /\ UNCHANGED <<head, node, block>> /\ ht' = Loaded /\ pc' = "open" /\ Openable
    BY <1>3 DEF tee_fs_htree_open, disk
  <2>2. HeadVersion \in Vers
    BY <2>1 DEF Openable, HeadVersion, get_idx_from_counter, Vers
  <2>3. PICK v \in Vers : v = HeadVersion
    BY <2>2
  <2>4. PICK T : T = init_tree_from_data(v)
    OBVIOUS
  <2>5. /\ NodeCount(head[v].max) \in 1..MaxBlocks /\ head[v].max \in 0..MaxBlocks
        /\ IsTree(T, NodeCount(head[v].max))
    BY <2>4, LoadedMem
  <2>6. Loaded = [counter |-> head[v].counter, max |-> head[v].max, len |-> head[v].len,
                  dirty |-> FALSE, node |-> T, changed |-> {}, updated |-> {}]
    BY <2>3, <2>4 DEF Loaded
  <2>7. MemOK(Loaded) /\ Loaded.changed = {} /\ Loaded.dirty = FALSE
    BY <2>5, <2>6 DEF MemOK, Fields, TInv, HeadLen
  <2> QED BY <2>1, <2>7 DEF TInv, PCs, HeadLen
<1>4. CASE tee_fs_htree_close \/ ree_fs_read_fails \/ crash
  <2>1. UNCHANGED <<head, node, block>> /\ pc' = "closed" /\ ht' = Closed
    BY <1>4 DEF tee_fs_htree_close, ree_fs_read_fails, crash, disk, Lose
  <2> QED BY <2>1 DEF TInv, PCs, HeadLen
<1>5. ASSUME NEW b \in Blocks, BlockStep(b) PROVE TInv'
  <2>1. /\ ht' = BlockWritten(ht, b) /\ UNCHANGED <<head, node>> /\ seq < MaxWrites
        /\ pc' \in {"write", "extended"} /\ pc # "closed" /\ b <= ht.len
        /\ block' = [block EXCEPT ![b][ht'.node[b + 1].blk] = seq + 1]
    BY <1>5 DEF BlockStep, out_of_place_write, CanWrite
  <2>2. PICK k \in 1..MaxBlocks : Rewritten(ht, b, ht', k)
    BY <1>0, <2>1, BlockIsRewritten
  <2>3. b + 1 \in 1..k /\ b + 1 \in ht'.changed /\ MemOK(ht') /\ NodeCount(ht'.max) = k
    BY <2>2 DEF Rewritten, Blocks
  <2>4. ht'.node[b + 1].blk \in Vers
    BY <2>3 DEF MemOK, IsTree, IsImage
  <2>5. BlocksOK(block')
    <3>1. seq + 1 \in Data \cup {Zero, Torn}
      BY <1>0, <2>1 DEF Data
    <3>2. PICK w \in Vers : w = ht'.node[b + 1].blk
      BY <2>4
    <3>3. block' = [block EXCEPT ![b][w] = seq + 1] /\ BlocksOK(block)
      BY <2>1, <3>2 DEF TInv
    <3> QED BY <3>1, <3>3, BlockWrite
  <2> QED BY <2>1, <2>3, <2>5 DEF TInv, PCs, HeadLen
<1>6. ASSUME NEW b \in Blocks, write_block_fails(b) PROVE TInv'
  <2>1. UNCHANGED <<head, node>> /\ pc' = "closed" /\ ht' = Closed
    BY <1>6 DEF write_block_fails, Lose
  <2>2. BlocksOK(block')
    <3>1. CASE UNCHANGED block
      BY <3>1 DEF TInv
    <3>2. CASE ~ UNCHANGED block
      <4>1. PICK x \in {seq + 1, Torn} :
               block' = [block EXCEPT ![b][BlockWritten(ht, b).node[b + 1].blk] = x]
        BY <1>6, <3>2 DEF write_block_fails
      <4>2. pc # "closed" /\ b <= ht.len /\ seq < MaxWrites
        BY <1>6 DEF write_block_fails, CanWrite
      <4>3. PICK u : u = BlockWritten(ht, b)
        OBVIOUS
      <4>4. PICK k \in 1..MaxBlocks : Rewritten(ht, b, u, k)
        BY <1>0, <4>2, <4>3, BlockIsRewritten
      <4>5. b + 1 \in 1..k /\ MemOK(u) /\ NodeCount(u.max) = k
        BY <4>4 DEF Rewritten, Blocks
      <4>6. u.node[b + 1].blk \in Vers
        BY <4>5 DEF MemOK, IsTree, IsImage
      <4>7. x \in Data \cup {Zero, Torn}
        BY <1>0, <4>1, <4>2 DEF Data
      <4> QED BY <4>1, <4>3, <4>6, <4>7, BlockWrite DEF TInv
    <3> QED BY <3>1, <3>2
  <2> QED BY <2>1, <2>2 DEF TInv, PCs, HeadLen
<1>7. ASSUME NEW n \in 0..MaxBlocks, ree_fs_truncate(n) PROVE TInv'
  <2>1. CanTruncate(n) /\ pc \in {"open", "extended"} /\ pc' = pc /\ UNCHANGED <<head, node>>
    BY <1>7 DEF ree_fs_truncate, CanTruncate
  <2>2. MemOK(ht)
    BY <1>0, <2>1
  <2>3. ht' = [ht EXCEPT !.len = n] /\ n <= ht.len
    BY <1>7, <2>1, <2>2, TruncateKeeps DEF ree_fs_truncate
  <2>4. MemOK(ht') /\ ht'.changed = ht.changed /\ ht'.dirty = ht.dirty
    <3>1. /\ ht' = Fields(ht') /\ ht'.max = ht.max /\ ht'.node = ht.node /\ ht'.len = n
          /\ ht'.changed = ht.changed /\ ht'.updated = ht.updated /\ ht'.dirty = ht.dirty
      BY <2>2, <2>3 DEF MemOK, Fields
    <3>2. ht'.len \in 0..NodeCount(ht.max)
      BY <2>2, <2>3, <3>1, NodeCountType DEF MemOK
    <3> QED BY <2>2, <3>1, <3>2 DEF MemOK
  <2>5. BlocksOK(block')
    <3>1. block' = [b \in Blocks |-> IF b <= n THEN block[b] ELSE [v \in Vers |-> Zero]]
      BY <1>7 DEF ree_fs_truncate
    <3>2. \A b \in Blocks : block[b] = [v \in Vers |-> block[b][v]]
      BY DEF TInv, BlocksOK
    <3>3. \A b \in Blocks : block'[b] = [v \in Vers |-> block'[b][v]]
      BY <3>1, <3>2
    <3>4. \A b \in Blocks, v \in Vers : block'[b][v] \in Data \cup {Zero, Torn}
      BY <3>1 DEF TInv, BlocksOK
    <3> QED BY <3>1, <3>3, <3>4 DEF BlocksOK
  <2> QED BY <2>1, <2>4, <2>5 DEF TInv, PCs, HeadLen
<1>8. ASSUME NEW n \in 0..MaxBlocks, ree_fs_truncate_fails(n) PROVE TInv'
  <2>1. CanTruncate(n) /\ pc \in {"open", "extended"} /\ UNCHANGED <<head, node, block>>
    BY <1>8 DEF ree_fs_truncate_fails, CanTruncate, disk
  <2>2. ht' = ht /\ (pc = "open" => ht.dirty = FALSE) /\ (pc = "extended" => ht.dirty)
    BY <1>0, <1>8, <2>1, TruncateKeeps DEF ree_fs_truncate_fails, TInv, HInv
  <2>3. pc' = IF pc = "open" THEN "open" ELSE "resync"
    BY <1>8, <2>1, <2>2 DEF ree_fs_truncate_fails
  <2> QED BY <2>1, <2>2, <2>3 DEF TInv, PCs, HeadLen
<1>9. CASE sync_to_storage \/ commit_dirh_writes \/ commit_dirh_writes_fails
  BY <1>9 DEF sync_to_storage, commit_dirh_writes, commit_dirh_writes_fails, disk, WhenAhead,
              TInv, PCs, HeadLen
<1>10. CASE sync_node
  <2>1. PICK i : i = FirstDirty(ht)
    OBVIOUS
  <2>2. /\ ht' = NodeSynced(ht, i) /\ UNCHANGED <<head, block, pc>> /\ Syncing
        /\ ht.changed # {} /\ node' = [node EXCEPT ![i][NodeVersion(ht', i)] = ht'.node[i]]
    BY <1>10, <2>1 DEF sync_node
  <2>3. /\ i \in Ids /\ Flushed(ht, i, ht') /\ NodeVersion(ht', i) \in Vers
        /\ IsImage(ht'.node[i]) /\ pc \in {"sync", "resync"}
    BY <2>1, <2>2, SyncedNode
  <2>4. NodesOK(node')
    BY <2>2, <2>3, NodeWrite DEF TInv
  <2> QED BY <2>2, <2>3, <2>4 DEF TInv, PCs, HeadLen, Flushed
<1>11. CASE sync_node_fails
  <2>1. PICK i : i = FirstDirty(ht)
    OBVIOUS
  <2>2. PICK u : u = NodeSynced(ht, i)
    OBVIOUS
  <2>3. /\ UNCHANGED <<head, block>> /\ Syncing /\ ht.changed # {}
        /\ pc' = "closed" /\ ht' = Closed
    BY <1>11 DEF sync_node_fails, Lose
  <2>4. PICK x \in {u.node[i], [ZeroImage EXCEPT !.hash = TornHash]} :
           node' = [node EXCEPT ![i][NodeVersion(u, i)] = x]
    BY <1>11, <2>1, <2>2 DEF sync_node_fails
  <2>5. /\ i \in Ids /\ NodeVersion(u, i) \in Vers /\ IsImage(u.node[i])
    BY <2>1, <2>2, <2>3, SyncedNode
  <2>6. IsImage([ZeroImage EXCEPT !.hash = TornHash])
    BY ZeroIsImage, HashedImage
  <2>7. NodesOK(node')
    <3>1. PICK w \in Vers : w = NodeVersion(u, i)
      BY <2>5
    <3>2. IsImage(x) /\ node' = [node EXCEPT ![i][w] = x] /\ NodesOK(node) /\ i \in Ids
      BY <2>4, <2>5, <2>6, <3>1 DEF TInv
    <3> QED BY <3>2, NodeWrite
  <2> QED BY <2>3, <2>7 DEF TInv, PCs, HeadLen
<1>12. CASE sync_head \/ sync_head_fails
  <2>1. /\ write_head(ht) /\ UNCHANGED <<node, block>> /\ Syncing /\ ht.changed = {}
    BY <1>12 DEF sync_head, sync_head_fails
  <2>2. MemOK(ht)
    BY <1>0, <2>1 DEF Syncing
  <2>3. \A v \in Vers : HeadLen(v)'
    <3>1. PICK c : c = (ht.counter + 1) % CounterMod
      OBVIOUS
    <3>2. head' = [head EXCEPT ![c % 2] = [counter |-> c, root |-> ht.node[1].hash,
                                           max |-> ht.max, len |-> ht.len]]
      BY <2>1, <3>1 DEF write_head
    <3>3. head = [v \in Vers |-> head[v]]
      BY DEF HInv
    <3> QED BY <2>2, <3>2, <3>3 DEF HeadLen, TInv, MemOK
  <2>4. CASE sync_head
    <3>1. /\ pc' \in {"dummy", "commit", "stale", "open"}
          /\ ht' = [ht EXCEPT !.counter = (@ + 1) % CounterMod, !.dirty = FALSE]
      BY <2>4 DEF sync_head, WhenAhead
    <3>2. /\ ht' = Fields(ht') /\ ht'.max = ht.max /\ ht'.node = ht.node /\ ht'.len = ht.len
          /\ ht'.changed = ht.changed /\ ht'.updated = ht.updated /\ ht'.dirty = FALSE
      BY <2>2, <3>1 DEF MemOK, Fields
    <3>3. MemOK(ht')
      BY <2>2, <3>2 DEF MemOK
    <3> QED BY <2>1, <2>3, <3>1, <3>2, <3>3 DEF TInv, PCs
  <2>5. CASE sync_head_fails
    <3>1. pc' = "closed" /\ ht' = Closed
      BY <2>5 DEF sync_head_fails, Lose
    <3> QED BY <2>1, <2>3, <3>1 DEF TInv, PCs
  <2> QED BY <1>12, <2>4, <2>5
<1>13. CASE write_dummy_head
  <2>1. /\ head' = [head EXCEPT ![0] = ZeroHead] /\ pc' = "open" /\ pc = "dummy"
        /\ UNCHANGED <<node, block, ht>>
    BY <1>13 DEF write_dummy_head
  <2>2. \A v \in Vers : HeadLen(v)'
    <3>1. head = [v \in Vers |-> head[v]]
      BY DEF HInv
    <3> QED BY <2>1, <3>1 DEF HeadLen, TInv, ZeroHead, NodeCount
  <2> QED BY <2>1, <2>2 DEF TInv, PCs
<1> QED
  BY <1>1, <1>2, <1>3, <1>4, <1>5, <1>6, <1>7, <1>8, <1>9, <1>10, <1>11, <1>12, <1>13
  DEF Next, BlockStep, write_block, ree_fs_extend

(* A counter that the budget allows is below the modulus.                  *)
LEMMA InvTypes ==
  ASSUME HInv, TInv
  PROVE  TypeOK
<1>1. \A v \in Vers : head[v].counter \in 0..CounterMod - 1
  <2> SUFFICES ASSUME NEW v \in Vers PROVE head[v].counter \in 0..CounterMod - 1
    OBVIOUS
  <2>1. HeadOK(v) /\ seq \in Nat /\ seq <= MaxWrites
    BY BoundsAssumption DEF HInv
  <2>2. head[v].counter \in Nat /\ head[v].counter <= Budget
    BY <2>1, BoundsAssumption DEF HeadOK, Spent, Budget
  <2>3. (MaxBlocks + 1) * seq <= (MaxBlocks + 1) * MaxWrites
    BY <2>1, BoundsAssumption
  <2> QED BY <2>1, <2>2, <2>3, BoundsAssumption DEF Budget
<1>2. \A v \in Vers : head[v].max \in 0..MaxBlocks /\ head[v].len \in 0..MaxBlocks
  <2> SUFFICES ASSUME NEW v \in Vers
               PROVE  head[v].max \in 0..MaxBlocks /\ head[v].len \in 0..MaxBlocks
    OBVIOUS
  <2>1. head[v].max \in 0..MaxBlocks /\ HeadLen(v)
    BY DEF HInv, HeadOK, TInv
  <2> QED BY <2>1, NodeCountType, BoundsAssumption DEF HeadLen
<1>3. ASSUME pc # "closed"
      PROVE  /\ ht.max = Len(ht.node) \/ (ht.max = 0 /\ Len(ht.node) = 1)
             /\ ht.len <= Len(ht.node)
             /\ ht.updated \subseteq ht.changed /\ ht.changed \subseteq 1..Len(ht.node)
             /\ ht.changed # {} => ht.dirty
  <2>1. MemOK(ht) /\ (ht.changed # {} => pc \in {"write", "extended", "sync", "resync"})
    BY <1>3 DEF TInv, PCs
  <2>2. Len(ht.node) = NodeCount(ht.max) /\ NodeCount(ht.max) \in Nat
    BY <2>1, NodeCountType, TreeLen DEF MemOK
  <2>3. ht.max = NodeCount(ht.max) \/ (ht.max = 0 /\ NodeCount(ht.max) = 1)
    BY <2>1, BoundsAssumption DEF NodeCount, MemOK
  <2>4. ht.changed # {} => ht.dirty
    BY <2>1 DEF HInv
  <2> QED BY <2>1, <2>2, <2>3, <2>4 DEF MemOK
<1> QED BY <1>1, <1>2, <1>3 DEF TypeOK, TInv, HInv, NodesOK, BlocksOK, IsImage

(* The tree in memory and the elements on disk fit each other: there is a  *)
(* node for every block, imeta.max_node_id is the last node (get_node,     *)
(* tee_fs_htree_truncate) and a tree with a dirty node is dirty, so that   *)
(* tee_fs_htree_sync_to_storage (fs_htree.c) never skips one; for          *)
(* truncations that cut no node, whether or not the TA writes ahead.       *)
THEOREM TypesAreKept ==
  ASSUME MaxCut <= 1
  PROVE  Spec => []TypeOK
<1>1. TInv /\ HInv /\ [Next]_vars => TInv'
  BY NextTInv
<1>2. HInv /\ TInv => TypeOK
  BY InvTypes
<1> QED BY <1>1, <1>2, InitTInv, HeadInvariance, PTL DEF Spec

-----------------------------------------------------------------------------
(* Why an update is atomic.                                                *)

(* There is a file: it has a name, or, for the directory file, a header    *)
(* after the first.                                                        *)
Filed == IF anchored THEN hash # NoHash ELSE head[0] # ZeroHead

(* init_head_from_data takes version v.                                    *)
Chosen(v) == IF anchored THEN node[1][v].hash = hash /\ node[1][1 - v].hash # hash
             ELSE head[v].counter > head[1 - v].counter

(* All of version v, with the nodes C, is on disk.                         *)
Intact(v, C, m) ==
  /\ head[v].root = C[1].hash /\ IsHashed(C, m)
  /\ \A b \in 0..head[v].len - 1 : block[b][C[b + 1].blk] = C[b + 1].tag

(* No node at or below i is dirty, so node i is not written again.         *)
Settled(i, X, n) ==
  \E S \in SUBSET (1..n) : i \in S /\ ChildClosed(S, n) /\ S \cap X = {}

(* The next writes spare version v: the header and the root go to the      *)
(* other version, as does every node that is not settled and every block   *)
(* that was not written since.  And the tree in memory is another one.     *)
Spares(v, C, m, T, n) ==
  /\ ht.counter % 2 = v /\ m <= n
  /\ \A i \in 2..m : T[Parent(i)].child[Side(i)] # C[Parent(i)].child[Side(i)] =>
                       pc \in {"sync", "resync"} /\ Settled(i, ht.changed, n)
  /\ pc \in {"open", "extended", "write"} =>
       \A i \in 1..m : T[i].blk = IF i \in ht.updated THEN 1 - C[i].blk ELSE C[i].blk
  /\ pc \in {"extended", "write", "sync", "resync"} => \E i \in 1..n : i > m \/ T[i].blk # C[i].blk

Keeps(v, C, m) ==
  /\ Chosen(v) /\ Intact(v, C, m)
  /\ pc \notin {"create", "dummy"}
  /\ pc \in {"commit", "stale"} => ht.counter % 2 = 1 - v
  /\ pc \in {"open", "extended", "write", "sync", "resync"} => Spares(v, C, m, ht.node, NodeCount(ht.max))

(* The root of a new file is first written to version 0.                   *)
Unfiled ==
  /\ ~ anchored \/ pc # "closed" => node[1][1].hash = ZeroHash
  /\ pc \in {"open", "extended", "write", "sync", "resync"} => ht.counter = 1
  /\ pc \in {"commit", "stale"} => ht.counter = 2

(* A node that is not dirty is on disk where its parent says, and its hash *)
(* is right when its children are not dirty either.                        *)
Written(N, T, n, X) ==
  \A i \in 2..n : i \notin X => N[i][T[Parent(i)].child[Side(i)]] = T[i]
Rehashed(T, n, X) ==
  \A i \in 1..n : i \notin X /\ Children(T, i) \cap X = {} => T[i].hash = calc_node_hash(T, i)
Legible(B, t) == \A b \in 0..t.len - 1 : B[b][t.node[b + 1].blk] = t.node[b + 1].tag

InMemory ==
  /\ Legible(block, ht)
  /\ Written(node, ht.node, NodeCount(ht.max), ht.changed)
  /\ Rehashed(ht.node, NodeCount(ht.max), ht.changed)
  /\ pc \in {"extended", "resync"} => Named
  /\ pc \in {"sync", "resync"} /\ ht.changed = {} => node[1][1 - (ht.counter % 2)] = ht.node[1]
  /\ pc \in {"commit", "stale"} =>
       /\ anchored /\ node[1][ht.counter % 2] = ht.node[1]
       /\ head[ht.counter % 2] = [counter |-> ht.counter, root |-> ht.node[1].hash,
                                  max |-> ht.max, len |-> ht.len]

AInv ==
  /\ anchored \in BOOLEAN
  /\ Filed => \E v \in Vers : \E C \in {init_tree_from_data(v)} :
                \E m \in {NodeCount(head[v].max)} : Keeps(v, C, m)
  /\ ~ Filed => Unfiled
  /\ pc # "closed" => InMemory

LEMMA OtherVersion ==
  ASSUME NEW v \in Vers
  PROVE  1 - v \in Vers /\ 1 - v # v /\ 1 - (1 - v) = v /\ v \in Nat
         /\ \A w \in Vers : w # v => w = 1 - v
BY DEF Vers

LEMMA CommittedTree ==
  ASSUME HInv, TInv, NEW v \in Vers, NEW C, C = init_tree_from_data(v),
         NEW m, m = NodeCount(head[v].max)
  PROVE  /\ m \in 1..MaxBlocks /\ m \in Nat /\ m >= 1 /\ head[v].max \in 0..MaxBlocks
         /\ IsTree(C, m) /\ C[1] = node[1][v]
         /\ \A i \in 2..m : C[i] = node[i][C[Parent(i)].child[Side(i)]]
         /\ head[v].len \in 0..m
<1>1. m \in 1..MaxBlocks /\ head[v].max \in 0..MaxBlocks /\ IsTree(C, m)
  BY LoadedMem
<1>2. m \in Nat /\ m >= 1
  BY <1>1, BoundsAssumption
<1>3. C = TreeFrom(node, m, v)
  BY DEF init_tree_from_data
<1>4. /\ C[1] = node[1][v]
      /\ \A i \in 2..m : C[i] = node[i][C[Parent(i)].child[Side(i)]]
  BY <1>2, <1>3, TreeLinks
<1>5. head[v].len \in 0..m
  BY DEF TInv, HeadLen
<1> QED BY <1>1, <1>2, <1>4, <1>5

(* The version that is chosen is the one that init_head_from_data finds.   *)
LEMMA ChosenIsFound ==
  ASSUME HInv, anchored \in BOOLEAN, Filed, NEW v \in Vers, Chosen(v)
  PROVE  HeadVersion = v
<1>1. CASE anchored = TRUE
  BY <1>1 DEF HeadVersion, Chosen, Filed, Vers
<1>2. CASE anchored = FALSE
  <2>1. PICK c \in Nat, d \in Nat : c = head[0].counter /\ d = head[1].counter
    BY DEF HInv, HeadOK, Vers
  <2>2. c % 2 = 0 /\ (d % 2 = 1 \/ d = 0) /\ HeadVersion = get_idx_from_counter(c, d)
    BY <1>2, <2>1 DEF HInv, HeadersOrdered, ZeroHead, HeadVersion
  <2>3. CASE v = 0
    <3>1. c > d
      BY <1>2, <2>1, <2>3 DEF Chosen
    <3> QED BY <2>2, <2>3, <3>1 DEF get_idx_from_counter
  <2>4. CASE v = 1
    <3>1. d > c
      BY <1>2, <2>1, <2>4 DEF Chosen
    <3>2. d % 2 = 1 /\ ~ c > d /\ d % 2 # 0
      BY <2>1, <2>2, <3>1
    <3> QED BY <2>2, <2>4, <3>2 DEF get_idx_from_counter
  <2> QED BY <2>3, <2>4 DEF Vers
<1> QED BY <1>1, <1>2

(* A file that is there can be opened.                                     *)
LEMMA FiledOpens ==
  ASSUME HInv, TInv, anchored \in BOOLEAN, Filed, NEW v \in Vers, NEW C,
         C = init_tree_from_data(v), NEW m, m = NodeCount(head[v].max),
         Chosen(v), Intact(v, C, m)
  PROVE  /\ HeadVersion = v /\ Openable
         /\ Contents(Loaded) = [i \in 1..head[v].len |-> C[i].tag]
<1>1. HeadVersion = v
  BY ChosenIsFound
<1>2. /\ m \in Nat /\ m >= 1 /\ IsTree(C, m) /\ head[v].len \in 0..m
  BY CommittedTree
<1>3. DOMAIN C = 1..m /\ Len(C) = m
  BY <1>2, TreeLen
<1>4. C[1].hash # ZeroHash
  <2>1. C[1].hash = calc_node_hash(C, 1)
    BY <1>2 DEF Intact, IsHashed
  <2> QED BY <2>1, RealHash
<1>5. Verified(v)
  BY <1>3, <1>4 DEF Verified, Intact, IsHashed
<1>6. -1 # v
  BY DEF Vers
<1>7. Openable
  BY <1>1, <1>5, <1>6 DEF Openable
<1>8. Loaded.node = C /\ Loaded.len = head[v].len
  BY <1>1 DEF Loaded
<1>9. \A b \in 0..head[v].len - 1 : Readable(Loaded, b)
  <2> SUFFICES ASSUME NEW b \in 0..head[v].len - 1 PROVE Readable(Loaded, b)
    OBVIOUS
  <2>1. b < m
    BY <1>2
  <2>2. block[b][C[b + 1].blk] = C[b + 1].tag
    BY DEF Intact
  <2> QED BY <1>3, <1>8, <2>1, <2>2 DEF Readable, Authentic
<1>10. Contents(Loaded) = [i \in 1..head[v].len |-> C[i].tag]
  BY <1>8, <1>9 DEF Contents
<1> QED BY <1>1, <1>7, <1>10

(* One that is not there cannot.                                           *)
LEMMA UnfiledDoesNot ==
  ASSUME HInv, TInv, anchored \in BOOLEAN, ~ Filed, Unfiled
  PROVE  ~ Openable
<1>1. CASE anchored = TRUE
  BY <1>1 DEF Filed, Openable, HeadVersion
<1>2. CASE anchored = FALSE
  <2>1. node[1][1].hash = ZeroHash /\ head[0] = ZeroHead
    BY <1>2 DEF Filed, Unfiled
  <2> SUFFICES ASSUME Openable PROVE FALSE
    OBVIOUS
  <2>2. HeadVersion \in Vers
    BY DEF Openable, HeadVersion, get_idx_from_counter, Vers
  <2>3. PICK v \in Vers : v = HeadVersion /\ Verified(v)
    BY <2>2 DEF Openable
  <2>4. PICK C : C = init_tree_from_data(v)
    OBVIOUS
  <2>5. C[1] = node[1][v]
    BY <2>4, CommittedTree
  <2>6. head[v].root = C[1].hash /\ C[1].hash # ZeroHash
    BY <2>3, <2>4 DEF Verified
  <2>7. v = 1
    BY <2>1, <2>6 DEF Vers, ZeroHead
  <2> QED BY <2>1, <2>5, <2>6, <2>7
<1> QED BY <1>1, <1>2

(* What the tree in memory says can be read.                               *)
LEMMA MemContents ==
  ASSUME MemOK(ht), Legible(block, ht)
  PROVE  /\ Contents(ht) = [i \in 1..ht.len |-> ht.node[i].tag]
         /\ Contents(ht) \in Seq(Data \cup {Zero, Torn}) /\ Len(Contents(ht)) = ht.len
         /\ Contents(ht) # NoFile /\ Contents(ht) # Closed /\ ht.len \in Nat
<1>1. PICK n \in Nat : n = NodeCount(ht.max) /\ n >= 1
  BY NodeCountType DEF MemOK
<1>2. Len(ht.node) = n /\ ht.len \in 0..n /\ ht.len \in Nat
  BY <1>1, TreeLen DEF MemOK
<1>3. \A b \in 0..ht.len - 1 : Readable(ht, b)
  <2> SUFFICES ASSUME NEW b \in 0..ht.len - 1 PROVE Readable(ht, b)
    OBVIOUS
  <2>1. b < n
    BY <1>2
  <2> QED BY <1>2, <2>1 DEF Readable, Authentic, Legible
<1>4. Contents(ht) = [i \in 1..ht.len |-> ht.node[i].tag]
  BY <1>3 DEF Contents
<1>5. \A i \in 1..ht.len : ht.node[i].tag \in Data \cup {Zero, Torn}
  <2> SUFFICES ASSUME NEW i \in 1..ht.len PROVE ht.node[i].tag \in Data \cup {Zero, Torn}
    OBVIOUS
  <2>1. i \in 1..n
    BY <1>2
  <2> QED BY <1>1, <2>1 DEF MemOK, IsTree, IsImage
<1>6. Contents(ht) \in [1..ht.len -> Data \cup {Zero, Torn}]
  BY <1>4, <1>5
<1>7. Contents(ht) \in Seq(Data \cup {Zero, Torn}) /\ Len(Contents(ht)) = ht.len
  BY <1>2, <1>6
<1>8. Contents(ht) # NoFile /\ Contents(ht) # Closed
  BY <1>7, NonesAssumption
<1> QED BY <1>2, <1>4, <1>7, <1>8

(* A step after which the committed file is the same, ...                  *)
SameFile(v, C, m) ==
  /\ Filed /\ Chosen(v) /\ Intact(v, C, m)
  /\ Filed' /\ Chosen(v)' /\ Intact(v, C, m)'
  /\ C = init_tree_from_data(v)' /\ m = NodeCount(head[v].max)' /\ head'[v] = head[v]

KeptStep ==
  \/ ~ Filed /\ ~ Filed'
  \/ \E v \in Vers : \E C \in {init_tree_from_data(v)} : \E m \in {NodeCount(head[v].max)} :
       SameFile(v, C, m)

(* ... and one after which it is the tree that was in memory.              *)
NewFile(w, C, m) ==
  /\ Filed' /\ Chosen(w)' /\ Intact(w, C, m)'
  /\ C = init_tree_from_data(w)' /\ m = NodeCount(head[w].max)'
  /\ C = ht.node /\ head'[w].len = ht.len

CommitStep == \E w \in Vers : \E C, m : NewFile(w, C, m)

content == IF Openable THEN Contents(Loaded) ELSE NoFile
work == IF pc = "closed" THEN Closed ELSE Contents(ht)

(* The parts of the invariants that the file on disk rests on.             *)
LEMMA AInvKeeps ==
  ASSUME AInv, Filed
  PROVE  \E v, C, m : /\ v \in Vers /\ C = init_tree_from_data(v) /\ m = NodeCount(head[v].max)
                      /\ Keeps(v, C, m)
BY DEF AInv

LEMMA KeepsAInv ==
  ASSUME NEW v \in Vers, NEW C, NEW m, Filed', (anchored \in BOOLEAN)',
         C = init_tree_from_data(v)', m = NodeCount(head[v].max)',
         Keeps(v, C, m)', pc' # "closed" => InMemory'
  PROVE  AInv'
BY DEF AInv

LEMMA UnfiledAInv ==
  ASSUME ~ Filed', (anchored \in BOOLEAN)', Unfiled', pc' # "closed" => InMemory'
  PROVE  AInv'
BY DEF AInv

(* What spares version v on disk leaves the file as it is.                 *)
LEMMA DiskKept ==
  ASSUME HInv, TInv, NEW v \in Vers, NEW C, C = init_tree_from_data(v),
         NEW m, m = NodeCount(head[v].max),
         Filed, Chosen(v), Intact(v, C, m),
         UNCHANGED <<anchored, hash>>, head'[v] = head[v],
         node'[1][v] = node[1][v],
         \A i \in 2..m : node'[i][C[Parent(i)].child[Side(i)]] = node[i][C[Parent(i)].child[Side(i)]],
         \A b \in 0..head[v].len - 1 : block'[b][C[b + 1].blk] = block[b][C[b + 1].blk],
         anchored => node'[1][1 - v].hash # hash,
         ~ anchored => head' = head
  PROVE  SameFile(v, C, m)
<1>1. /\ m \in Nat /\ m >= 1 /\ IsTree(C, m) /\ C[1] = node[1][v]
      /\ \A i \in 2..m : C[i] = node[i][C[Parent(i)].child[Side(i)]]
  BY CommittedTree
<1>2. C = TreeFrom(node', m, v)
  <2>1. C = [i \in 1..m |-> C[i]] /\ C[1] = node'[1][v]
    BY <1>1 DEF IsTree
  <2>2. \A i \in 2..m : C[i] = node'[i][C[Parent(i)].child[Side(i)]]
    BY <1>1
  <2> QED BY <1>1, <2>1, <2>2, TreeUnique
<1>3. m = NodeCount(head'[v].max) /\ C = init_tree_from_data(v)'
  BY <1>2 DEF init_tree_from_data
<1>4. Filed' /\ Chosen(v)'
  BY DEF Filed, Chosen
<1>5. Intact(v, C, m)'
  BY DEF Intact
<1> QED BY <1>3, <1>4, <1>5 DEF SameFile

(* The disk does not change.                                               *)
LEMMA DiskSame ==
  ASSUME HInv, TInv, AInv, UNCHANGED <<head, node, block, hash, anchored>>
  PROVE  /\ KeptStep
         /\ \A v, C, m : /\ v \in Vers /\ C = init_tree_from_data(v) /\ m = NodeCount(head[v].max)
                         /\ Filed /\ Chosen(v) /\ Intact(v, C, m)
                         => SameFile(v, C, m)
         /\ Filed' <=> Filed
<1>1. ASSUME NEW v \in Vers, NEW C, NEW m, C = init_tree_from_data(v),
             m = NodeCount(head[v].max), Filed, Chosen(v), Intact(v, C, m)
      PROVE  SameFile(v, C, m)
  <2>1. anchored => node'[1][1 - v].hash # hash
    BY <1>1 DEF Chosen
  <2> QED BY <1>1, <2>1, DiskKept
<1>2. Filed' <=> Filed
  BY DEF Filed
<1>3. KeptStep
  <2>1. CASE Filed
    <3>1. PICK v, C, m : /\ v \in Vers /\ C = init_tree_from_data(v) /\ m = NodeCount(head[v].max)
                         /\ Keeps(v, C, m)
      BY <2>1, AInvKeeps
    <3>2. SameFile(v, C, m)
      BY <1>1, <2>1, <3>1 DEF Keeps
    <3> QED BY <3>1, <3>2 DEF KeptStep
  <2>2. CASE ~ Filed
    BY <1>2, <2>2 DEF KeptStep
  <2> QED BY <2>1, <2>2
<1> QED BY <1>1, <1>2, <1>3

(* The tree is closed and the disk is as it was, or spared.                *)
LEMMA ClosedStep ==
  ASSUME AInv, UNCHANGED anchored, pc' = "closed",
         ~ Filed => ~ Filed' /\ (~ anchored => node'[1][1].hash = node[1][1].hash),
         \A v, C, m : /\ v \in Vers /\ C = init_tree_from_data(v) /\ m = NodeCount(head[v].max)
                      /\ Filed /\ Keeps(v, C, m)
                      => SameFile(v, C, m)
  PROVE  AInv' /\ KeptStep
<1>1. CASE Filed
  <2>1. PICK v, C, m : /\ v \in Vers /\ C = init_tree_from_data(v) /\ m = NodeCount(head[v].max)
                       /\ Keeps(v, C, m)
    BY <1>1, AInvKeeps
  <2>2. SameFile(v, C, m)
    BY <1>1, <2>1
  <2>3. Keeps(v, C, m)'
    BY <2>2 DEF Keeps, SameFile
  <2>4. AInv'
    BY <2>1, <2>2, <2>3, KeepsAInv DEF SameFile, AInv
  <2> QED BY <2>1, <2>2, <2>4 DEF KeptStep
<1>2. CASE ~ Filed
  <2>1. Unfiled'
    BY <1>2 DEF Unfiled, AInv
  <2> QED BY <1>2, <2>1, UnfiledAInv DEF AInv, KeptStep
<1> QED BY <1>1, <1>2

(* tee_fs_htree_close, crash, a read that fails.                           *)
LEMMA LoseKeeps ==
  ASSUME HInv, TInv, AInv, tee_fs_htree_close \/ ree_fs_read_fails \/ crash
  PROVE  AInv' /\ KeptStep
<1>1. /\ UNCHANGED <<head, node, block, hash, anchored>> /\ pc' = "closed"
  BY DEF tee_fs_htree_close, ree_fs_read_fails, crash, Lose, disk
<1>2. \A v, C, m : /\ v \in Vers /\ C = init_tree_from_data(v) /\ m = NodeCount(head[v].max)
                   /\ Filed /\ Keeps(v, C, m)
                   => SameFile(v, C, m)
  BY <1>1, DiskSame DEF Keeps
<1>3. Filed' <=> Filed
  BY <1>1, DiskSame
<1> QED BY <1>1, <1>2, <1>3, ClosedStep

(* The steps one by one.  tee_fs_htree_open of a file that is not there,   *)
LEMMA CreateKeeps ==
  ASSUME HInv, TInv, AInv, tee_fs_htree_create
  PROVE  AInv' /\ KeptStep /\ ~ Filed /\ ht'.len = 0
<1>1. /\ ~ Openable /\ head' = [v \in Vers |-> ZeroHead]
      /\ node' = [n \in Ids |-> [v \in Vers |-> ZeroImage]]
      /\ ht' = NewTree /\ pc' = "create" /\ UNCHANGED <<hash, anchored>>
  BY DEF tee_fs_htree_create
<1>2. ~ Filed
  <2> SUFFICES ASSUME Filed PROVE FALSE
    OBVIOUS
  <2>1. PICK v, C, m : /\ v \in Vers /\ C = init_tree_from_data(v) /\ m = NodeCount(head[v].max)
                       /\ Keeps(v, C, m)
    BY AInvKeeps
  <2> QED BY <1>1, <2>1, FiledOpens DEF Keeps, AInv
<1>3. ~ Filed'
  BY <1>1, <1>2 DEF Filed, Vers
<1>4. Unfiled'
  <2>1. 1 \in Ids /\ 1 \in Vers
    BY BoundsAssumption DEF Ids, Vers
  <2>2. node'[1][1].hash = ZeroHash
    BY <1>1, <2>1 DEF ZeroImage
  <2> QED BY <1>1, <2>2 DEF Unfiled
<1>5. PICK x : x = [ZeroImage EXCEPT !.hash = calc_node_hash(<<ZeroImage>>, 1)]
  OBVIOUS
<1>6. /\ ht'.len = 0 /\ ht'.max = 0 /\ ht'.node = <<x>> /\ ht'.changed = {}
      /\ NodeCount(ht'.max) = 1
  BY <1>1, <1>5 DEF NewTree, NodeCount
<1>7. Rehashed(<<x>>, 1, {})
  <2>1. /\ x.hash = calc_node_hash(<<ZeroImage>>, 1)
        /\ x.tag = ZeroImage.tag /\ x.blk = ZeroImage.blk /\ x.child = ZeroImage.child
    BY <1>5, ZeroIsImage, HashedImage
  <2>2. Children(<<x>>, 1) = {} /\ Children(<<ZeroImage>>, 1) = {}
    BY DEF Children
  <2>3. \A y : <<y>>[1] = y
    OBVIOUS
  <2>4. [c \in {} |-> <<x>>[c].hash] = [c \in {} |-> <<ZeroImage>>[c].hash]
    OBVIOUS
  <2>5. calc_node_hash(<<x>>, 1) = <<x.tag, x.blk, x.child, [c \in {} |-> <<x>>[c].hash]>>
    BY <2>2, <2>3 DEF calc_node_hash
  <2>6. calc_node_hash(<<ZeroImage>>, 1) =
          <<ZeroImage.tag, ZeroImage.blk, ZeroImage.child, [c \in {} |-> <<ZeroImage>>[c].hash]>>
    BY <2>2, <2>3 DEF calc_node_hash
  <2>7. calc_node_hash(<<x>>, 1) = x.hash
    BY <2>1, <2>4, <2>5, <2>6
  <2> QED BY <2>3, <2>7 DEF Rehashed
<1>8. InMemory'
  BY <1>1, <1>6, <1>7 DEF InMemory, Legible, Written
<1>9. AInv'
  BY <1>1, <1>3, <1>4, <1>8, UnfiledAInv DEF AInv
<1> QED BY <1>2, <1>3, <1>6, <1>9 DEF KeptStep

(* of one that is,                                                         *)
LEMMA OpenKeeps ==
  ASSUME HInv, TInv, AInv, tee_fs_htree_open
  PROVE  AInv' /\ KeptStep /\ Filed
<1>1. /\ Openable /\ ht' = Loaded /\ pc' = "open"
      /\ UNCHANGED <<head, node, block, hash, anchored>>
  BY DEF tee_fs_htree_open, disk
<1>2. Filed
  BY <1>1, UnfiledDoesNot DEF AInv
<1>3. PICK v, C, m : /\ v \in Vers /\ C = init_tree_from_data(v) /\ m = NodeCount(head[v].max)
                     /\ Keeps(v, C, m)
  BY <1>2, AInvKeeps
<1>4. Chosen(v) /\ Intact(v, C, m)
  BY <1>3 DEF Keeps
<1>5. SameFile(v, C, m) /\ KeptStep
  BY <1>1, <1>2, <1>3, <1>4, DiskSame
<1>6. HeadVersion = v
  BY <1>2, <1>3, <1>4, FiledOpens DEF AInv
<1>7. /\ ht'.counter = head[v].counter /\ ht'.max = head[v].max /\ ht'.len = head[v].len
      /\ ht'.node = C /\ ht'.changed = {} /\ ht'.updated = {} /\ m = NodeCount(ht'.max)
  BY <1>1, <1>3, <1>6 DEF Loaded
<1>8. /\ m \in Nat /\ m >= 1 /\ IsTree(C, m)
      /\ \A i \in 2..m : C[i] = node[i][C[Parent(i)].child[Side(i)]]
  BY <1>3, CommittedTree
<1>9. head[v].counter % 2 = v
  <2>1. C[1].hash # ZeroHash
    <3>1. C[1].hash = calc_node_hash(C, 1)
      BY <1>4, <1>8 DEF Intact, IsHashed
    <3> QED BY <3>1, RealHash
  <2>2. head[v] # ZeroHead
    BY <1>4, <2>1 DEF Intact, ZeroHead
  <2> QED BY <1>3, <2>2 DEF HInv, HeadersOrdered, Vers
<1>10. Spares(v, C, m, ht.node, NodeCount(ht.max))'
  BY <1>1, <1>7, <1>8, <1>9 DEF Spares
<1>11. Keeps(v, C, m)'
  BY <1>1, <1>5, <1>10 DEF Keeps, SameFile
<1>12. InMemory'
  <2>1. Legible(block', ht')
    BY <1>1, <1>4, <1>7 DEF Intact, Legible
  <2>2. Written(node', ht'.node, m, {})
    BY <1>1, <1>7, <1>8 DEF Written
  <2>3. Rehashed(ht'.node, m, {})
    BY <1>4, <1>7 DEF Intact, Rehashed, IsHashed
  <2> QED BY <1>1, <1>7, <2>1, <2>2, <2>3 DEF InMemory
<1>13. AInv'
  BY <1>1, <1>3, <1>5, <1>11, <1>12, KeepsAInv DEF SameFile, AInv
<1> QED BY <1>2, <1>5, <1>13

(* the steps that only change what is done next,                           *)
LEMMA StartKeeps ==
  ASSUME HInv, TInv, AInv, sync_to_storage
  PROVE  AInv' /\ KeptStep
<1>1. /\ pc = "write" /\ pc' = "sync" /\ UNCHANGED <<head, node, block, hash, anchored, ht>>
  BY DEF sync_to_storage, disk
<1>2. InMemory'
  <2>1. ht.changed # {}
    BY <1>1 DEF TInv
  <2> QED BY <1>1, <2>1 DEF InMemory, AInv
<1>3. Filed' <=> Filed
  BY <1>1, DiskSame
<1>4. CASE Filed
  <2>1. PICK v, C, m : /\ v \in Vers /\ C = init_tree_from_data(v) /\ m = NodeCount(head[v].max)
                       /\ Keeps(v, C, m)
    BY <1>4, AInvKeeps
  <2>2. SameFile(v, C, m) /\ KeptStep
    BY <1>1, <1>4, <2>1, DiskSame DEF Keeps
  <2>3. Spares(v, C, m, ht.node, NodeCount(ht.max))'
    BY <1>1, <2>1 DEF Spares, Keeps
  <2>4. Keeps(v, C, m)'
    BY <1>1, <2>2, <2>3 DEF Keeps, SameFile
  <2> QED BY <1>1, <1>2, <2>1, <2>2, <2>4, KeepsAInv DEF SameFile, AInv
<1>5. CASE ~ Filed
  <2>1. Unfiled'
    BY <1>1, <1>5 DEF Unfiled, AInv
  <2> QED BY <1>1, <1>2, <1>3, <1>5, <2>1, UnfiledAInv DEF AInv, KeptStep
<1> QED BY <1>4, <1>5

LEMMA CommitFailsKeeps ==
  ASSUME HInv, TInv, AInv, WriteAhead = FALSE, commit_dirh_writes_fails
  PROVE  AInv' /\ KeptStep
<1>1. /\ pc = "commit" /\ pc' = "stale" /\ UNCHANGED <<head, node, block, hash, anchored, ht>>
  BY DEF commit_dirh_writes_fails, disk, WhenAhead
<1>2. InMemory'
  BY <1>1 DEF InMemory, AInv
<1>3. Filed' <=> Filed
  BY <1>1, DiskSame
<1>4. CASE Filed
  <2>1. PICK v, C, m : /\ v \in Vers /\ C = init_tree_from_data(v) /\ m = NodeCount(head[v].max)
                       /\ Keeps(v, C, m)
    BY <1>4, AInvKeeps
  <2>2. SameFile(v, C, m) /\ KeptStep
    BY <1>1, <1>4, <2>1, DiskSame DEF Keeps
  <2>3. Keeps(v, C, m)'
    BY <1>1, <2>1, <2>2 DEF Keeps, SameFile
  <2> QED BY <1>1, <1>2, <2>1, <2>2, <2>3, KeepsAInv DEF SameFile, AInv
<1>5. CASE ~ Filed
  <2>1. Unfiled'
    BY <1>1, <1>5 DEF Unfiled, AInv
  <2> QED BY <1>1, <1>2, <1>3, <1>5, <2>1, UnfiledAInv DEF AInv, KeptStep
<1> QED BY <1>4, <1>5

(* the writing of the dummy header,                                        *)
LEMMA DummyKeeps ==
  ASSUME HInv, TInv, AInv, write_dummy_head
  PROVE  AInv' /\ KeptStep
<1>1. /\ pc = "dummy" /\ pc' = "open" /\ UNCHANGED <<node, block, hash, anchored, ht>>
      /\ head' = [head EXCEPT ![0] = ZeroHead]
  BY DEF write_dummy_head
<1>2. ~ Filed
  BY <1>1, AInvKeeps DEF Keeps
<1>3. ~ Filed'
  BY <1>1, <1>2 DEF Filed, HInv, Vers
<1>4. InMemory'
  BY <1>1 DEF InMemory, AInv
<1>5. Unfiled'
  BY <1>1, <1>2 DEF Unfiled, AInv, HInv
<1> QED BY <1>1, <1>2, <1>3, <1>4, <1>5, UnfiledAInv DEF AInv, KeptStep

LEMMA StutterKeeps ==
  ASSUME HInv, TInv, AInv, UNCHANGED vars
  PROVE  AInv' /\ KeptStep
<1>1. UNCHANGED <<head, node, block, hash, anchored, ht, pc>>
  BY DEF vars
<1>2. Filed' <=> Filed
  BY <1>1, DiskSame
<1>3. InMemory' <=> InMemory
  BY <1>1 DEF InMemory, Named
<1>4. CASE Filed
  <2>1. PICK v, C, m : /\ v \in Vers /\ C = init_tree_from_data(v) /\ m = NodeCount(head[v].max)
                       /\ Keeps(v, C, m)
    BY <1>4, AInvKeeps
  <2>2. SameFile(v, C, m) /\ KeptStep
    BY <1>1, <1>4, <2>1, DiskSame DEF Keeps
  <2>3. Spares(v, C, m, ht.node, NodeCount(ht.max))' <=> Spares(v, C, m, ht.node, NodeCount(ht.max))
    BY <1>1 DEF Spares
  <2>4. Keeps(v, C, m)'
    BY <1>1, <2>1, <2>2, <2>3 DEF Keeps, SameFile
  <2> QED BY <1>1, <1>3, <2>1, <2>2, <2>4, KeepsAInv DEF SameFile, AInv
<1>5. CASE ~ Filed
  <2>1. Unfiled'
    BY <1>1, <1>5 DEF Unfiled, AInv
  <2> QED BY <1>1, <1>2, <1>3, <1>5, <2>1, UnfiledAInv DEF AInv, KeptStep
<1> QED BY <1>4, <1>5

(* a truncation,                                                           *)
LEMMA TruncateFailsKeeps ==
  ASSUME MaxCut <= 1, HInv, TInv, AInv, NEW n \in 0..MaxBlocks, ree_fs_truncate_fails(n)
  PROVE  AInv' /\ KeptStep /\ UNCHANGED ht /\ pc # "closed" /\ pc' # "closed"
<1>1. /\ CanTruncate(n) /\ pc \in {"open", "extended"} /\ MemOK(ht) /\ Named
      /\ (pc = "open" => ht.dirty = FALSE) /\ (pc = "extended" => ht.dirty)
      /\ UNCHANGED <<head, node, block, hash, anchored>>
  BY DEF ree_fs_truncate_fails, CanTruncate, TInv, HInv, disk
<1>2. ht' = ht
  BY <1>1, TruncateKeeps DEF ree_fs_truncate_fails
<1>3. pc' = IF pc = "open" THEN "open" ELSE "resync"
  BY <1>1, <1>2 DEF ree_fs_truncate_fails
<1>4. InMemory'
  <2>1. pc = "extended" => ht.changed # {}
    BY DEF TInv
  <2> QED BY <1>1, <1>2, <1>3, <2>1 DEF InMemory, AInv, Named
<1>5. Filed
  BY <1>1 DEF Named, Filed
<1>6. PICK v, C, m : /\ v \in Vers /\ C = init_tree_from_data(v) /\ m = NodeCount(head[v].max)
                     /\ Keeps(v, C, m)
  BY <1>5, AInvKeeps
<1>7. SameFile(v, C, m) /\ KeptStep
  BY <1>1, <1>5, <1>6, DiskSame DEF Keeps
<1>8. Spares(v, C, m, ht.node, NodeCount(ht.max))'
  BY <1>1, <1>2, <1>3, <1>6 DEF Spares, Keeps
<1>9. Keeps(v, C, m)'
  BY <1>1, <1>3, <1>7, <1>8 DEF Keeps, SameFile
<1> QED BY <1>1, <1>2, <1>3, <1>4, <1>6, <1>7, <1>9, KeepsAInv DEF SameFile, AInv

LEMMA TruncateKeepsFile ==
  ASSUME MaxCut <= 1, HInv, TInv, AInv, NEW n \in 0..MaxBlocks, ree_fs_truncate(n)
  PROVE  AInv' /\ KeptStep /\ n <= ht.len /\ ht'.node = ht.node /\ ht'.len = n
<1>1. /\ CanTruncate(n) /\ pc \in {"open", "extended"} /\ MemOK(ht)
      /\ UNCHANGED <<head, node, hash, anchored, pc>>
      /\ block' = [b \in Blocks |-> IF b <= n THEN block[b] ELSE [v \in Vers |-> Zero]]
  BY DEF ree_fs_truncate, CanTruncate, TInv
<1>2. PICK k \in 1..MaxBlocks : k = NodeCount(ht.max)
  BY <1>1, NodeCountType DEF MemOK
<1>3. tee_fs_htree_truncate(ht, n) = ht /\ n + 1 >= k /\ n <= ht.len
  BY <1>1, <1>2, TruncateKeeps
<1>4. ht' = [ht EXCEPT !.len = n]
  BY <1>3 DEF ree_fs_truncate
<1>5. /\ ht'.counter = ht.counter /\ ht'.max = ht.max /\ ht'.len = n /\ ht'.node = ht.node
      /\ ht'.changed = ht.changed /\ ht'.updated = ht.updated
  BY <1>1, <1>4 DEF MemOK, Fields
<1>6. n \in Nat /\ k \in Nat /\ \A b \in Blocks : b <= n => block'[b] = block[b]
  BY <1>1, <1>2, BoundsAssumption
<1>7. InMemory'
  <2>1. Legible(block', ht')
    <3> SUFFICES ASSUME NEW b \in 0..n - 1
                 PROVE  block'[b][ht.node[b + 1].blk] = ht.node[b + 1].tag
      BY <1>5 DEF Legible
    <3>1. b \in Blocks /\ b <= n /\ b \in 0..ht.len - 1
      BY <1>1, <1>2, <1>3, <1>6, BoundsAssumption DEF Blocks, MemOK
    <3> QED BY <1>1, <1>6, <3>1 DEF AInv, InMemory, Legible
  <2>2. Written(node', ht'.node, NodeCount(ht'.max), ht'.changed)
    BY <1>1, <1>5 DEF AInv, InMemory
  <2>3. Rehashed(ht'.node, NodeCount(ht'.max), ht'.changed)
    BY <1>1, <1>5 DEF AInv, InMemory
  <2>4. Named'
    BY <1>1 DEF CanTruncate, Named
  <2> QED BY <1>1, <2>1, <2>2, <2>3, <2>4 DEF InMemory
<1>8. Filed' <=> Filed
  BY <1>1 DEF Filed
<1>9. CASE Filed
  <2>1. PICK v, C, m : /\ v \in Vers /\ C = init_tree_from_data(v) /\ m = NodeCount(head[v].max)
                       /\ Keeps(v, C, m)
    BY <1>9, AInvKeeps
  <2>2. Spares(v, C, m, ht.node, k) /\ Chosen(v) /\ Intact(v, C, m)
    BY <1>1, <1>2, <2>1 DEF Keeps
  <2>3. m <= k /\ m \in Nat /\ head[v].len \in 0..m
    BY <2>1, <2>2, CommittedTree DEF Spares
  <2>4. \A b \in 0..head[v].len - 1 : block'[b][C[b + 1].blk] = block[b][C[b + 1].blk]
    <3> SUFFICES ASSUME NEW b \in 0..head[v].len - 1 PROVE block'[b] = block[b]
      OBVIOUS
    <3>1. b \in Blocks /\ b <= n
      BY <1>2, <1>3, <1>6, <2>3, BoundsAssumption DEF Blocks
    <3> QED BY <1>6, <3>1
  <2>5. anchored => node'[1][1 - v].hash # hash
    BY <1>1, <2>2 DEF Chosen
  <2>6. SameFile(v, C, m)
    BY <1>1, <1>9, <2>1, <2>2, <2>4, <2>5, DiskKept
  <2>7. Spares(v, C, m, ht.node, NodeCount(ht.max))'
    BY <1>1, <1>2, <1>5, <2>2 DEF Spares
  <2>8. Keeps(v, C, m)'
    BY <1>1, <2>6, <2>7 DEF Keeps, SameFile
  <2> QED BY <1>1, <1>3, <1>5, <1>7, <2>1, <2>6, <2>8, KeepsAInv DEF SameFile, AInv, KeptStep
<1>10. CASE ~ Filed
  <2>1. Unfiled'
    BY <1>1, <1>5, <1>10 DEF Unfiled, AInv
  <2> QED BY <1>1, <1>3, <1>5, <1>7, <1>8, <1>10, <2>1, UnfiledAInv DEF AInv, KeptStep
<1> QED BY <1>9, <1>10

(* a write of a block, which goes to the version the file does not use,    *)
LEMMA BlockVersion ==
  ASSUME HInv, TInv, NEW b \in Blocks, CanWrite(b), NEW u, u = BlockWritten(ht, b)
  PROVE  \E k \in 1..MaxBlocks :
           /\ Rewritten(ht, b, u, k) /\ u.node[b + 1].blk \in Vers /\ b + 1 \in 1..k
           /\ MemOK(ht)
<1>1. MemOK(ht) /\ b <= ht.len /\ seq \in Nat /\ seq < MaxWrites
  BY BoundsAssumption DEF CanWrite, TInv, HInv
<1>2. PICK k \in 1..MaxBlocks : Rewritten(ht, b, u, k)
  BY <1>1, BlockIsRewritten
<1>3. b + 1 \in 1..k /\ IsTree(u.node, k)
  BY <1>2, BoundsAssumption DEF Rewritten, MemOK, Blocks
<1>4. u.node[b + 1].blk \in Vers
  BY <1>3 DEF IsTree, IsImage
<1> QED BY <1>1, <1>2, <1>3, <1>4

LEMMA BlockIsOther ==
  ASSUME HInv, TInv, AInv, NEW b \in Blocks, CanWrite(b), NEW u, NEW k, Rewritten(ht, b, u, k),
         NEW v \in Vers, NEW C, C = init_tree_from_data(v),
         NEW m, m = NodeCount(head[v].max), Filed, Keeps(v, C, m), b + 1 <= m
  PROVE  u.node[b + 1].blk = 1 - C[b + 1].blk /\ C[b + 1].blk \in Vers
<1>1. pc \in {"open", "extended", "write"} /\ MemOK(ht)
  BY DEF CanWrite, TInv
<1>2. PICK n \in 1..MaxBlocks : n = NodeCount(ht.max)
  BY <1>1, NodeCountType DEF MemOK
<1>3. Spares(v, C, m, ht.node, n)
  BY <1>1, <1>2 DEF Keeps
<1>4. m \in Nat /\ m <= n /\ IsTree(C, m)
  BY <1>3, CommittedTree DEF Spares
<1>5. b + 1 \in 1..m /\ b + 1 <= n
  BY <1>2, <1>4, BoundsAssumption DEF Blocks
<1>6. C[b + 1].blk \in Vers
  BY <1>4, <1>5 DEF IsTree, IsImage
<1>7. ht.node[b + 1].blk = IF b + 1 \in ht.updated THEN 1 - C[b + 1].blk ELSE C[b + 1].blk
  BY <1>1, <1>3, <1>5 DEF Spares
<1>8. u.node[b + 1].blk = IF b + 1 \in ht.updated THEN ht.node[b + 1].blk ELSE 1 - ht.node[b + 1].blk
  BY <1>2, <1>5 DEF Rewritten, OldNode
<1> QED BY <1>6, <1>7, <1>8 DEF Vers

LEMMA BlockSpares ==
  ASSUME HInv, TInv, AInv, NEW b \in Blocks, CanWrite(b), NEW u, u = BlockWritten(ht, b),
         NEW x \in Data \cup {Zero, Torn},
         block' = [block EXCEPT ![b][u.node[b + 1].blk] = x],
         UNCHANGED <<head, node, hash, anchored>>,
         NEW v \in Vers, NEW C, C = init_tree_from_data(v),
         NEW m, m = NodeCount(head[v].max), Filed, Keeps(v, C, m)
  PROVE  SameFile(v, C, m)
<1>1. PICK k \in 1..MaxBlocks :
           /\ Rewritten(ht, b, u, k) /\ u.node[b + 1].blk \in Vers /\ b + 1 \in 1..k
  BY BlockVersion
<1>2. PICK w \in Vers : w = u.node[b + 1].blk
  BY <1>1
<1>3. BlocksOK(block)
  BY DEF TInv
<1>4. \A i \in Blocks, j \in Vers : i # b \/ j # w => block'[i][j] = block[i][j]
  BY <1>2, <1>3, BlockWrite
<1>5. m \in Nat /\ m <= MaxBlocks /\ IsTree(C, m) /\ head[v].len \in 0..m
  BY CommittedTree
<1>6. \A d \in 0..head[v].len - 1 : block'[d][C[d + 1].blk] = block[d][C[d + 1].blk]
  <2> SUFFICES ASSUME NEW d \in 0..head[v].len - 1
               PROVE  block'[d][C[d + 1].blk] = block[d][C[d + 1].blk]
    OBVIOUS
  <2>1. d \in Blocks /\ d + 1 \in 1..m
    BY <1>5, BoundsAssumption DEF Blocks
  <2>2. C[d + 1].blk \in Vers
    BY <1>5, <2>1 DEF IsTree, IsImage
  <2>3. d = b => C[d + 1].blk # w
    <3> SUFFICES ASSUME d = b PROVE C[b + 1].blk # w
      OBVIOUS
    <3>1. b + 1 <= m
      BY <2>1
    <3>2. w = 1 - C[b + 1].blk /\ C[b + 1].blk \in Vers
      BY <1>1, <1>2, <3>1, BlockIsOther
    <3> QED BY <3>2 DEF Vers
  <2> QED BY <1>4, <2>1, <2>2, <2>3
<1>7. Chosen(v) /\ Intact(v, C, m)
  BY DEF Keeps
<1>8. anchored => node'[1][1 - v].hash # hash
  BY <1>7 DEF Chosen
<1> QED BY <1>6, <1>7, <1>8, DiskKept

LEMMA WriteFailsKeeps ==
  ASSUME HInv, TInv, AInv, NEW b \in Blocks, write_block_fails(b)
  PROVE  AInv' /\ KeptStep
<1>1. /\ CanWrite(b) /\ UNCHANGED <<head, node, hash, anchored>> /\ pc' = "closed"
  BY DEF write_block_fails, Lose
<1>2. Filed' <=> Filed
  BY <1>1 DEF Filed
<1>3. \A v, C, m : /\ v \in Vers /\ C = init_tree_from_data(v) /\ m = NodeCount(head[v].max)
                   /\ Filed /\ Keeps(v, C, m)
                   => SameFile(v, C, m)
  <2>1. CASE UNCHANGED block
    BY <1>1, <2>1, DiskSame DEF Keeps
  <2>2. ASSUME NEW x \in {seq + 1, Torn},
               block' = [block EXCEPT ![b][BlockWritten(ht, b).node[b + 1].blk] = x]
        PROVE  \A v, C, m : /\ v \in Vers /\ C = init_tree_from_data(v) /\ m = NodeCount(head[v].max)
                            /\ Filed /\ Keeps(v, C, m)
                            => SameFile(v, C, m)
    <3>1. seq + 1 \in Data
      BY <1>1, BoundsAssumption DEF HInv, CanWrite, Data
    <3>2. x \in Data \cup {Zero, Torn}
      BY <2>2, <3>1
    <3>3. PICK u : u = BlockWritten(ht, b)
      OBVIOUS
    <3>4. block' = [block EXCEPT ![b][u.node[b + 1].blk] = x]
      BY <2>2, <3>3
    <3> QED BY <1>1, <3>2, <3>3, <3>4, BlockSpares
  <2> QED BY <2>1, <2>2 DEF write_block_fails
<1> QED BY <1>1, <1>2, <1>3, ClosedStep

LEMMA RewrittenMemory ==
  ASSUME HInv, TInv, AInv, NEW b \in Blocks, BlockStep(b), NEW k \in 1..MaxBlocks,
         Rewritten(ht, b, ht', k), b + 1 \in 1..k
  PROVE  InMemory'
<1>1. /\ pc' \in {"write", "extended"} /\ UNCHANGED node /\ pc # "closed"
      /\ block' = [block EXCEPT ![b][ht'.node[b + 1].blk] = seq + 1]
      /\ MemOK(ht) /\ InMemory /\ CanWrite(b) /\ (pc' = "extended" => Named')
  BY DEF BlockStep, out_of_place_write, CanWrite, TInv, AInv, Named
<1>2. PICK n \in 1..MaxBlocks : n = NodeCount(ht.max)
  BY <1>1, NodeCountType DEF MemOK
<1>3. PICK u : u = ht'
  OBVIOUS
<1>4. Rewritten(ht, b, u, k)
  BY <1>3
<1>5. /\ n \in Nat /\ k \in Nat /\ IsTree(u.node, k) /\ IsTree(ht.node, n) /\ n <= k
      /\ k = NodeCount(u.max) /\ b \in Nat /\ ht.len \in 0..n
      /\ u.len = (IF b = ht.len THEN b + 1 ELSE ht.len) /\ u.len <= k
      /\ u.changed = ht.changed \cup {b + 1}
      /\ \A i \in 1..k : i # b + 1 => i <= n /\ u.node[i] = ht.node[i]
      /\ u.node[b + 1].tag = seq + 1
  BY <1>1, <1>2, <1>4, BoundsAssumption DEF Rewritten, MemOK, Blocks
<1>6. PICK w \in Vers : w = u.node[b + 1].blk
  BY <1>5 DEF IsTree, IsImage
<1>7. seq + 1 \in Data
  BY <1>1, BoundsAssumption DEF HInv, CanWrite, Data
<1>8. /\ \A i \in Blocks, j \in Vers : i # b \/ j # w => block'[i][j] = block[i][j]
      /\ block'[b][w] = seq + 1
  <2>1. block' = [block EXCEPT ![b][w] = seq + 1] /\ BlocksOK(block)
    BY <1>1, <1>3, <1>6 DEF TInv
  <2>2. PICK x \in Data \cup {Zero, Torn} : x = seq + 1
    BY <1>7
  <2>3. block' = [block EXCEPT ![b][w] = x]
    BY <2>1, <2>2
  <2>4. /\ \A i \in Blocks, j \in Vers : i # b \/ j # w => block'[i][j] = block[i][j]
        /\ block'[b][w] = x
    <3>1. PICK B, M : B = block /\ M = block'
      OBVIOUS
    <3>2. BlocksOK(B) /\ M = [B EXCEPT ![b][w] = x]
      BY <2>1, <2>3, <3>1
    <3>3. \A i \in Blocks, j \in Vers : i # b \/ j # w => M[i][j] = B[i][j]
      BY <3>2, BlockWrite
    <3>4. M[b][w] = x
      BY <3>2 DEF BlocksOK
    <3> QED BY <3>1, <3>3, <3>4
  <2> QED BY <2>2, <2>4
<1>9. Legible(block', u)
  <2> SUFFICES ASSUME NEW d \in 0..u.len - 1
               PROVE  block'[d][u.node[d + 1].blk] = u.node[d + 1].tag
    BY DEF Legible
  <2>1. CASE d = b
    BY <1>5, <1>6, <1>8, <2>1
  <2>2. CASE d # b
    <3>1. d + 1 \in 1..k /\ d + 1 # b + 1 /\ d \in Blocks /\ d \in 0..ht.len - 1
      BY <1>5, <2>2, BoundsAssumption DEF Blocks
    <3>2. u.node[d + 1] = ht.node[d + 1] /\ d + 1 \in 1..n
      BY <1>5, <3>1
    <3>3. ht.node[d + 1].blk \in Vers
      BY <1>5, <3>2 DEF IsTree, IsImage
    <3>4. block'[d][ht.node[d + 1].blk] = block[d][ht.node[d + 1].blk]
      BY <1>8, <2>2, <3>1, <3>3
    <3>5. block[d][ht.node[d + 1].blk] = ht.node[d + 1].tag
      BY <1>1, <3>1 DEF InMemory, Legible
    <3> QED BY <3>2, <3>4, <3>5
  <2> QED BY <2>1, <2>2
<1>10. Written(node, u.node, k, u.changed)
  <2> SUFFICES ASSUME NEW i \in 2..k, i \notin u.changed
               PROVE  node[i][u.node[Parent(i)].child[Side(i)]] = u.node[i]
    BY DEF Written
  <2>1. i \in 2..n /\ i \notin ht.changed /\ u.node[i] = ht.node[i]
    BY <1>5
  <2>2. PICK p \in 1..n : p = Parent(i)
    BY <1>5, <2>1, ParentSmaller
  <2>3. u.node[p].child = ht.node[p].child
    <3>1. CASE p = b + 1
      BY <1>2, <1>4, <1>5, <3>1 DEF Rewritten, OldNode
    <3>2. CASE p # b + 1
      BY <1>5, <2>2, <3>2
    <3> QED BY <3>1, <3>2
  <2>4. node[i][ht.node[p].child[Side(i)]] = ht.node[i]
    BY <1>1, <1>2, <2>1, <2>2 DEF InMemory, Written
  <2> QED BY <2>1, <2>2, <2>3, <2>4
<1>11. Rehashed(u.node, k, u.changed)
  <2> SUFFICES ASSUME NEW i \in 1..k, i \notin u.changed, Children(u.node, i) \cap u.changed = {}
               PROVE  u.node[i].hash = calc_node_hash(u.node, i)
    BY DEF Rehashed
  <2>1. i \in 1..n /\ i \notin ht.changed /\ u.node[i] = ht.node[i]
    BY <1>5
  <2>2. /\ Children(u.node, i) = {c \in {2 * i, 2 * i + 1} : c <= k}
        /\ Children(ht.node, i) = {c \in {2 * i, 2 * i + 1} : c <= n}
    BY <1>5, ChildrenOf
  <2>3. \A c \in Children(u.node, i) : c # b + 1 /\ c \in 1..k
    BY <1>5, <2>2
  <2>4. Children(u.node, i) = Children(ht.node, i)
    BY <1>5, <2>2, <2>3
  <2>5. Children(ht.node, i) \cap ht.changed = {}
    BY <1>5, <2>4
  <2>6. ht.node[i].hash = calc_node_hash(ht.node, i)
    BY <1>1, <1>2, <2>1, <2>5 DEF InMemory, Rehashed
  <2>7. [c \in Children(u.node, i) |-> u.node[c].hash] = [c \in Children(ht.node, i) |-> ht.node[c].hash]
    BY <1>5, <2>3, <2>4
  <2>8. calc_node_hash(u.node, i) = calc_node_hash(ht.node, i)
    BY <2>1, <2>7 DEF calc_node_hash
  <2> QED BY <2>1, <2>6, <2>8
<1> QED BY <1>1, <1>3, <1>5, <1>9, <1>10, <1>11 DEF InMemory

LEMMA WriteKeeps ==
  ASSUME HInv, TInv, AInv, NEW b \in Blocks, BlockStep(b)
  PROVE  AInv' /\ KeptStep /\ \E k \in 1..MaxBlocks : Rewritten(ht, b, ht', k) /\ b + 1 \in 1..k
<1>1. PICK u : u = BlockWritten(ht, b)
  OBVIOUS
<1>2. /\ pc' \in {"write", "extended"} /\ pc \in {"open", "extended", "write"}
      /\ UNCHANGED <<head, node, hash, anchored>>
      /\ block' = [block EXCEPT ![b][u.node[b + 1].blk] = seq + 1]
      /\ CanWrite(b) /\ ht' = u /\ MemOK(ht)
  BY <1>1 DEF BlockStep, out_of_place_write, CanWrite, TInv
<1>3. PICK k \in 1..MaxBlocks :
           /\ Rewritten(ht, b, u, k) /\ u.node[b + 1].blk \in Vers /\ b + 1 \in 1..k
  BY <1>1, <1>2, BlockVersion
<1>4. InMemory'
  BY <1>2, <1>3, RewrittenMemory
<1>5. PICK n \in 1..MaxBlocks : n = NodeCount(ht.max)
  BY <1>2, NodeCountType DEF MemOK
<1>6. Filed' <=> Filed
  BY <1>2 DEF Filed
<1>7. CASE Filed
  <2>1. PICK v, C, m : /\ v \in Vers /\ C = init_tree_from_data(v) /\ m = NodeCount(head[v].max)
                       /\ Keeps(v, C, m)
    BY <1>7, AInvKeeps
  <2>2. seq + 1 \in Data \cup {Zero, Torn}
    BY <1>2, BoundsAssumption DEF HInv, CanWrite, Data
  <2>3. SameFile(v, C, m)
    BY <1>1, <1>2, <1>7, <2>1, <2>2, BlockSpares
  <2>4. Spares(v, C, m, ht.node, n)
    BY <1>2, <1>5, <2>1 DEF Keeps
  <2>5. m \in Nat /\ m <= n /\ m >= 1
    BY <2>1, <2>4, CommittedTree DEF Spares
  <2>6. /\ n \in Nat /\ k \in Nat /\ n <= k /\ k = NodeCount(u.max) /\ b \in Nat
        /\ u.counter = ht.counter
        /\ u.updated = ht.updated \cup {b + 1}
        /\ \A i \in 1..k : i # b + 1 => i <= n /\ u.node[i] = ht.node[i]
    BY <1>3, <1>5, BoundsAssumption DEF Rewritten, Blocks
  <2>7. ASSUME b + 1 <= m PROVE u.node[b + 1].blk = 1 - C[b + 1].blk /\ C[b + 1].blk \in Vers
    BY <1>2, <1>3, <1>7, <2>1, <2>7, BlockIsOther
  <2>8. \A i \in 1..m : u.node[i].blk = IF i \in u.updated THEN 1 - C[i].blk ELSE C[i].blk
    <3> SUFFICES ASSUME NEW i \in 1..m
                 PROVE  u.node[i].blk = IF i \in u.updated THEN 1 - C[i].blk ELSE C[i].blk
      OBVIOUS
    <3>1. CASE i = b + 1
      BY <2>6, <2>7, <3>1
    <3>2. CASE i # b + 1
      <4>1. u.node[i] = ht.node[i] /\ (i \in u.updated <=> i \in ht.updated)
        BY <2>5, <2>6, <3>2
      <4> QED BY <1>2, <2>4, <4>1 DEF Spares
    <3> QED BY <3>1, <3>2
  <2>9. \E i \in 1..k : i > m \/ u.node[i].blk # C[i].blk
    <3>1. b + 1 > m \/ u.node[b + 1].blk # C[b + 1].blk
      BY <2>5, <2>6, <2>7 DEF Vers
    <3> QED BY <1>3, <3>1
  <2>10. \A i \in 2..m : u.node[Parent(i)].child[Side(i)] = C[Parent(i)].child[Side(i)]
    <3> SUFFICES ASSUME NEW i \in 2..m
                 PROVE  u.node[Parent(i)].child[Side(i)] = C[Parent(i)].child[Side(i)]
      OBVIOUS
    <3>1. PICK p \in 1..n : p = Parent(i)
      BY <2>5, <2>6, ParentSmaller
    <3>2. u.node[p].child = ht.node[p].child
      <4>1. CASE p = b + 1
        BY <1>3, <1>5, <2>6, <4>1 DEF Rewritten, OldNode
      <4>2. CASE p # b + 1
        BY <2>6, <3>1, <4>2
      <4> QED BY <4>1, <4>2
    <3>3. ht.node[p].child[Side(i)] = C[p].child[Side(i)]
      BY <1>2, <2>4, <3>1 DEF Spares
    <3> QED BY <3>1, <3>2, <3>3
  <2>11. Spares(v, C, m, ht.node, NodeCount(ht.max))'
    <3>1. /\ ht'.counter % 2 = v /\ m <= NodeCount(ht'.max)
      BY <1>2, <2>4, <2>5, <2>6 DEF Spares
    <3> QED BY <1>2, <2>6, <2>8, <2>9, <2>10, <3>1 DEF Spares
  <2>12. Keeps(v, C, m)'
    BY <1>2, <2>3, <2>11 DEF Keeps, SameFile
  <2> QED BY <1>2, <1>3, <1>4, <2>1, <2>3, <2>12, KeepsAInv DEF SameFile, AInv, KeptStep
<1>8. CASE ~ Filed
  <2>1. Unfiled'
    BY <1>2, <1>3, <1>8 DEF Unfiled, AInv, Rewritten
  <2> QED BY <1>2, <1>3, <1>4, <1>6, <1>8, <2>1, UnfiledAInv DEF AInv, KeptStep
<1> QED BY <1>7, <1>8

(* a write of a node.  Its hash, and those of the nodes that are not above *)
(* it, come from the same as before;                                       *)
LEMMA FlushedHash ==
  ASSUME NEW t, MemOK(t), NEW n, n = NodeCount(t.max), NEW i \in 1..n, NEW u, Flushed(t, i, u),
         NEW j \in 1..n, i = 1 \/ j # Parent(i)
  PROVE  calc_node_hash(u.node, j) = calc_node_hash(t.node, j)
<1>1. n \in Nat /\ n >= 1 /\ n = NodeCount(u.max) /\ IsTree(t.node, n) /\ IsTree(u.node, n)
  BY NodeCountType DEF MemOK, Flushed
<1>2. /\ Children(t.node, j) = {c \in {2 * j, 2 * j + 1} : c <= n}
      /\ Children(u.node, j) = {c \in {2 * j, 2 * j + 1} : c <= n}
  BY <1>1, ChildrenOf
<1>3. ASSUME NEW c \in Children(t.node, j) PROVE u.node[c].hash = t.node[c].hash
  <2>1. c \in 1..n /\ c \in Nat /\ c >= 2 /\ Parent(c) = j
    BY <1>1, <1>2 DEF Parent
  <2>2. c # i
    BY <2>1
  <2> QED BY <2>1, <2>2 DEF Flushed
<1>4. u.node[j].tag = t.node[j].tag /\ u.node[j].blk = t.node[j].blk /\ u.node[j].child = t.node[j].child
  BY DEF Flushed
<1>5. [c \in Children(u.node, j) |-> u.node[c].hash] = [c \in Children(t.node, j) |-> t.node[c].hash]
  BY <1>2, <1>3
<1> QED BY <1>4, <1>5 DEF calc_node_hash

(* no other node is found in another version;                              *)
LEMMA FlushedChild ==
  ASSUME NEW t, MemOK(t), NEW n, n = NodeCount(t.max), NEW i \in 1..n, NEW u, Flushed(t, i, u),
         NEW j \in 2..n, j # i
  PROVE  /\ u.node[Parent(j)].child[Side(j)] = t.node[Parent(j)].child[Side(j)]
         /\ u.node[Parent(j)].child[Side(j)] \in Vers
<1>1. n \in Nat /\ n >= 1 /\ n = NodeCount(u.max) /\ IsTree(t.node, n) /\ IsTree(u.node, n)
  BY NodeCountType DEF MemOK, Flushed
<1>2. PICK q \in 1..n : q = Parent(j)
  BY <1>1, ParentSmaller
<1>3. PICK s \in 1..2 : s = Side(j)
  BY <1>1, ParentSmaller
<1>4. u.node[q].child[s] \in Vers /\ t.node[q].child \in [1..2 -> Vers]
  BY <1>1 DEF IsTree, IsImage
<1>5. u.node[q].child[s] = t.node[q].child[s]
  <2>1. CASE i = 1 \/ q # Parent(i)
    BY <2>1 DEF Flushed
  <2>2. CASE i # 1 /\ q = Parent(i)
    <3>1. u.node[q].child = [t.node[q].child EXCEPT ![Side(i)] = 1 - @]
      BY <2>2 DEF Flushed
    <3>2. s # Side(i)
      <4>1. i \in Nat /\ j \in Nat
        BY <1>1
      <4> QED BY <1>2, <1>3, <2>2, <4>1, SameSlot
    <3> QED BY <1>4, <3>1, <3>2
  <2> QED BY <2>1, <2>2
<1> QED BY <1>2, <1>3, <1>4, <1>5

(* the root comes last;                                                    *)
LEMMA ClosedUnderChildren ==
  ASSUME NEW n \in Nat, NEW S, ChildClosed(S, n), 1 \in S
  PROVE  1..n \subseteq S
<1> DEFINE Bad == {i \in 1..n : i \notin S}
<1> SUFFICES ASSUME Bad # {} PROVE FALSE
  OBVIOUS
<1>1. Bad \in SUBSET Nat
  OBVIOUS
<1>2. PICK k \in Bad : \A j \in Bad : k <= j
  <2> HIDE DEF Bad
  <2> QED BY <1>1, LeastNumber
<1>3. k \in 1..n /\ k \notin S /\ k # 1 /\ k \in Nat /\ k >= 2
  BY <1>2
<1>4. PICK p \in 1..n : p = Parent(k) /\ p < k /\ k \in {2 * p, 2 * p + 1}
  BY <1>3, ParentSmaller
<1>5. p \notin Bad
  <2> HIDE DEF Bad
  <2> QED BY <1>2, <1>3, <1>4
<1>6. p \in S
  BY <1>5
<1> QED BY <1>3, <1>4, <1>6 DEF ChildClosed

LEMMA RootIsLast ==
  ASSUME HInv, TInv, Syncing, ht.changed # {}, NEW u, u = NodeSynced(ht, 1),
         1 = FirstDirty(ht), Rehashed(ht.node, NodeCount(ht.max), ht.changed),
         NEW n, n = NodeCount(ht.max)
  PROVE  u.changed = {} /\ IsTree(u.node, n) /\ IsHashed(u.node, n) /\ n \in Nat /\ n >= 1
<1>1. MemOK(ht)
  BY DEF TInv, Syncing
<1>2. n \in Nat /\ n >= 1 /\ Len(ht.node) = n /\ ht.changed \subseteq 1..n
  BY <1>1, NodeCountType, TreeLen DEF MemOK
<1>3. PICK S \in SUBSET (1..n) : 1 \in S /\ ChildClosed(S, n) /\ S \cap ht.changed = {1}
  BY <1>2, FirstDirtyIsLowest
<1>4. ht.changed = {1}
  BY <1>2, <1>3, ClosedUnderChildren
<1>5. Flushed(ht, 1, u)
  BY SyncedNode
<1>6. u.changed = {} /\ IsTree(u.node, n)
  BY <1>4, <1>5 DEF Flushed, MemOK
<1>7. ASSUME NEW j \in 1..n PROVE u.node[j].hash = calc_node_hash(u.node, j)
  <2>1. 1 \in 1..n
    BY <1>2
  <2>2. calc_node_hash(u.node, j) = calc_node_hash(ht.node, j)
    BY <1>1, <1>5, <2>1, FlushedHash
  <2>3. CASE j = 1
    BY <1>5, <2>2, <2>3 DEF Flushed
  <2>4. CASE j # 1
    <3>1. Children(ht.node, j) \cap {1} = {}
      BY <1>2 DEF Children
    <3>2. ht.node[j].hash = calc_node_hash(ht.node, j)
      BY <1>4, <2>4, <3>1 DEF Rehashed
    <3>3. u.node[j].hash = ht.node[j].hash
      BY <1>5, <2>4 DEF Flushed
    <3> QED BY <2>2, <3>2, <3>3
  <2> QED BY <2>3, <2>4
<1> QED BY <1>2, <1>6, <1>7 DEF IsHashed

(* and it goes to the version that the file does not use.                  *)
LEMMA NodeIsOther ==
  ASSUME HInv, TInv, AInv, Syncing, ht.changed # {}, NEW i, i = FirstDirty(ht),
         NEW u, u = NodeSynced(ht, i), NEW w, w = NodeVersion(u, i),
         NEW v \in Vers, NEW C, C = init_tree_from_data(v),
         NEW m, m = NodeCount(head[v].max), Filed, Keeps(v, C, m)
  PROVE  /\ i = 1 => w = 1 - v /\ u.node[1].hash # C[1].hash
         /\ i # 1 /\ i <= m => w # C[Parent(i)].child[Side(i)]
<1>1. pc \in {"sync", "resync"} /\ MemOK(ht) /\ Flushed(ht, i, u) /\ i \in ht.changed
  BY SyncedNode DEF TInv
<1>2. PICK n \in 1..MaxBlocks : n = NodeCount(ht.max)
  BY <1>1, NodeCountType DEF MemOK
<1>3. Spares(v, C, m, ht.node, n)
  BY <1>1, <1>2 DEF Keeps
<1>4. m \in Nat /\ m >= 1 /\ m <= n /\ IsTree(C, m)
  BY <1>3, CommittedTree DEF Spares
<1>5. i \in 1..n
  BY <1>1, <1>2 DEF MemOK
<1>6. ASSUME i = 1 PROVE w = 1 - v /\ u.node[1].hash # C[1].hash
  <2>1. w = 1 - v
    BY <1>1, <1>3, <1>6 DEF NodeVersion, Flushed, Spares
  <2>2. IsTree(u.node, n) /\ IsHashed(u.node, n) /\ n \in Nat /\ n >= 1
    <3>1. Rehashed(ht.node, NodeCount(ht.max), ht.changed)
      BY <1>1 DEF AInv, InMemory
    <3>2. 1 = FirstDirty(ht) /\ u = NodeSynced(ht, 1)
      BY <1>6
    <3> QED BY <1>2, <3>1, <3>2, RootIsLast
  <2>3. PICK k \in 1..n : k > m \/ ht.node[k].blk # C[k].blk
    BY <1>1, <1>3 DEF Spares
  <2>4. u.node[k].blk = ht.node[k].blk
    BY <1>1, <1>2 DEF Flushed
  <2>5. IsHashed(C, m)
    BY DEF Keeps, Intact
  <2>6. u.node[1].hash # C[1].hash
    <3> SUFFICES ASSUME u.node[1].hash = C[1].hash PROVE FALSE
      OBVIOUS
    <3>0. PICK T : T = u.node
      OBVIOUS
    <3>1. \A j \in 1..n : j <= m /\ T[j].blk = C[j].blk
      BY <1>4, <2>2, <2>5, <3>0, RootTells
    <3> QED BY <1>4, <2>2, <2>3, <2>4, <3>0, <3>1
  <2> QED BY <2>1, <2>6
<1>7. ASSUME i # 1, i <= m PROVE w # C[Parent(i)].child[Side(i)]
  <2>1. i \in 2..m /\ i \in 2..n /\ i \in Nat /\ i >= 2
    BY <1>4, <1>5, <1>7
  <2>2. PICK p \in 1..n : p = Parent(i)
    BY <2>1, ParentSmaller
  <2>3. PICK s \in 1..2 : s = Side(i)
    BY <2>1, ParentSmaller
  <2>4. ht.node[p].child[s] = C[p].child[s]
    <3> SUFFICES ASSUME ht.node[p].child[s] # C[p].child[s] PROVE FALSE
      OBVIOUS
    <3>1. Settled(i, ht.changed, n)
      BY <1>3, <2>1, <2>2, <2>3 DEF Spares
    <3> QED BY <1>1, <3>1 DEF Settled
  <2>5. u.node[p].child = [ht.node[p].child EXCEPT ![s] = 1 - @]
    BY <1>1, <1>7, <2>2, <2>3 DEF Flushed
  <2>6. ht.node[p].child \in [1..2 -> Vers]
    BY <1>1, <1>2 DEF MemOK, IsTree, IsImage
  <2>7. u.node[p].child[s] = 1 - ht.node[p].child[s] /\ ht.node[p].child[s] \in Vers
    BY <2>5, <2>6
  <2>8. w = u.node[p].child[s]
    BY <1>7, <2>2, <2>3 DEF NodeVersion
  <2> QED BY <2>2, <2>3, <2>4, <2>7, <2>8 DEF Vers
<1> QED BY <1>6, <1>7

LEMMA NodeSpares ==
  ASSUME HInv, TInv, AInv, Syncing, ht.changed # {}, NEW i, i = FirstDirty(ht),
         NEW u, u = NodeSynced(ht, i), NEW w, w = NodeVersion(u, i),
         NEW x, x \in {u.node[i], [ZeroImage EXCEPT !.hash = TornHash]},
         node' = [node EXCEPT ![i][w] = x],
         UNCHANGED <<head, block, hash, anchored>>,
         NEW v \in Vers, NEW C, C = init_tree_from_data(v),
         NEW m, m = NodeCount(head[v].max), Filed, Keeps(v, C, m)
  PROVE  SameFile(v, C, m)
<1>1. /\ i \in Ids /\ w \in Vers /\ IsImage(u.node[i])
  BY SyncedNode
<1>2. IsImage(x)
  BY <1>1, ZeroIsImage, HashedImage
<1>3. \A j \in Ids, y \in Vers : j # i \/ y # w => node'[j][y] = node[j][y]
  <2>1. NodesOK(node)
    BY DEF TInv
  <2>2. PICK N, M : N = node /\ M = node'
    OBVIOUS
  <2>3. NodesOK(N) /\ M = [N EXCEPT ![i][w] = x]
    BY <2>1, <2>2
  <2>4. \A j \in Ids, y \in Vers : j # i \/ y # w => M[j][y] = N[j][y]
    BY <1>1, <1>2, <2>3, NodeWrite
  <2> QED BY <2>2, <2>4
<1>4. m \in Nat /\ m >= 1 /\ m <= MaxBlocks /\ IsTree(C, m) /\ C[1] = node[1][v]
  BY CommittedTree
<1>5. Chosen(v) /\ Intact(v, C, m)
  BY DEF Keeps
<1>6. /\ i = 1 => w = 1 - v /\ u.node[1].hash # C[1].hash
      /\ i # 1 /\ i <= m => w # C[Parent(i)].child[Side(i)]
  BY NodeIsOther
<1>7. 1 \in Ids /\ 1 - v \in Vers /\ 1 - v # v
  BY OtherVersion, BoundsAssumption DEF Ids
<1>8. node'[1][v] = node[1][v]
  BY <1>3, <1>6, <1>7
<1>9. ASSUME NEW j \in 2..m
      PROVE  node'[j][C[Parent(j)].child[Side(j)]] = node[j][C[Parent(j)].child[Side(j)]]
  <2>1. j \in Ids /\ j \in Nat /\ j >= 2 /\ j # 1 /\ j <= m
    BY <1>4, BoundsAssumption DEF Ids
  <2>2. PICK p \in 1..m : p = Parent(j)
    BY <1>4, <2>1, ParentSmaller
  <2>3. PICK s \in 1..2 : s = Side(j)
    BY <2>1, ParentSmaller
  <2>4. C[p].child[s] \in Vers
    BY <1>4 DEF IsTree, IsImage
  <2>5. j = i => C[p].child[s] # w
    BY <1>6, <2>1, <2>2, <2>3
  <2> QED BY <1>3, <2>1, <2>2, <2>3, <2>4, <2>5
<1>10. anchored => node'[1][1 - v].hash # hash
  <2> SUFFICES ASSUME anchored PROVE node'[1][1 - v].hash # hash
    OBVIOUS
  <2>1. hash = C[1].hash /\ node[1][1 - v].hash # hash
    BY <1>4, <1>5 DEF Chosen
  <2>2. CASE i = 1
    <3>1. w = 1 - v /\ u.node[1].hash # C[1].hash
      BY <1>6, <2>2
    <3>2. node'[1][w] = x
      BY <1>1, <2>2 DEF TInv, NodesOK
    <3>3. x.hash # C[1].hash
      <4>1. CASE x = u.node[i]
        BY <2>2, <3>1, <4>1
      <4>2. CASE x = [ZeroImage EXCEPT !.hash = TornHash]
        <5>1. x.hash = TornHash
          BY <4>2, ZeroIsImage, HashedImage
        <5>2. C[1].hash = calc_node_hash(C, 1)
          BY <1>4, <1>5 DEF Intact, IsHashed
        <5> QED BY <5>1, <5>2, RealHash
      <4> QED BY <4>1, <4>2
    <3> QED BY <2>1, <3>1, <3>2, <3>3
  <2>3. CASE i # 1
    BY <1>3, <1>7, <2>1, <2>3
  <2> QED BY <2>2, <2>3
<1> QED BY <1>5, <1>8, <1>9, <1>10, DiskKept

LEMMA NodeUnfiled ==
  ASSUME HInv, TInv, AInv, Syncing, ht.changed # {}, NEW i, i = FirstDirty(ht),
         NEW u, u = NodeSynced(ht, i), NEW w, w = NodeVersion(u, i), NEW x,
         node' = [node EXCEPT ![i][w] = x],
         UNCHANGED <<head, block, hash, anchored>>, ~ Filed
  PROVE  ~ Filed' /\ node'[1][1].hash = node[1][1].hash
<1>1. ~ Filed'
  BY DEF Filed
<1>2. /\ i \in Ids /\ w \in Vers /\ pc \in {"sync", "resync"} /\ Flushed(ht, i, u)
  BY SyncedNode
<1>3. i = 1 => w = 0
  <2> SUFFICES ASSUME i = 1 PROVE w = 0
    OBVIOUS
  <2>1. ht.counter = 1
    BY <1>2 DEF AInv, Unfiled
  <2> QED BY <1>2, <2>1 DEF NodeVersion, Flushed
<1>4. node'[1][1] = node[1][1]
  BY <1>2, <1>3, BoundsAssumption DEF TInv, NodesOK, Ids, Vers
<1> QED BY <1>1, <1>4

LEMMA NodeFailsKeeps ==
  ASSUME HInv, TInv, AInv, sync_node_fails
  PROVE  AInv' /\ KeptStep
<1>1. PICK i : i = FirstDirty(ht)
  OBVIOUS
<1>2. PICK u : u = NodeSynced(ht, i)
  OBVIOUS
<1>3. PICK w : w = NodeVersion(u, i)
  OBVIOUS
<1>4. PICK x \in {u.node[i], [ZeroImage EXCEPT !.hash = TornHash]} :
         node' = [node EXCEPT ![i][w] = x]
  BY <1>1, <1>2, <1>3 DEF sync_node_fails
<1>5. /\ Syncing /\ ht.changed # {} /\ UNCHANGED <<head, block, hash, anchored>>
      /\ pc' = "closed"
  BY DEF sync_node_fails, Lose
<1>6. \A v, C, m : /\ v \in Vers /\ C = init_tree_from_data(v) /\ m = NodeCount(head[v].max)
                   /\ Filed /\ Keeps(v, C, m)
                   => SameFile(v, C, m)
  BY <1>1, <1>2, <1>3, <1>4, <1>5, NodeSpares
<1>7. ~ Filed => ~ Filed' /\ node'[1][1].hash = node[1][1].hash
  BY <1>1, <1>2, <1>3, <1>4, <1>5, NodeUnfiled
<1> QED BY <1>5, <1>6, <1>7, ClosedStep

LEMMA FlushedMemory ==
  ASSUME HInv, TInv, AInv, Syncing, ht.changed # {}, NEW i, i = FirstDirty(ht),
         NEW u, u = NodeSynced(ht, i), NEW w, w = NodeVersion(u, i),
         node' = [node EXCEPT ![i][w] = u.node[i]],
         UNCHANGED <<head, block, hash, anchored, pc>>, ht' = u
  PROVE  InMemory'
<1>1. /\ pc \in {"sync", "resync"} /\ MemOK(ht) /\ Flushed(ht, i, u) /\ i \in ht.changed /\ i \in Ids
      /\ w \in Vers /\ IsImage(u.node[i]) /\ InMemory
  BY SyncedNode DEF TInv, AInv
<1>2. PICK n \in 1..MaxBlocks : n = NodeCount(ht.max)
  BY <1>1, NodeCountType DEF MemOK
<1>3. /\ n \in Nat /\ n >= 1 /\ i \in 1..n /\ IsTree(u.node, n) /\ IsTree(ht.node, n)
      /\ n = NodeCount(u.max) /\ u.len = ht.len /\ ht.len \in 0..n /\ u.counter = ht.counter
      /\ u.changed = (IF i = 1 THEN ht.changed ELSE ht.changed \cup {Parent(i)}) \ {i}
  BY <1>1, <1>2, BoundsAssumption DEF MemOK, Flushed
<1>f. MemOK(ht) /\ n = NodeCount(ht.max) /\ i \in 1..n /\ Flushed(ht, i, u)
  BY <1>1, <1>2, <1>3
<1>4. node'[i][w] = u.node[i]
  BY <1>1 DEF TInv, NodesOK
<1>5. \A j \in Ids, y \in Vers : j # i => node'[j][y] = node[j][y]
  BY <1>1 DEF TInv, NodesOK
<1>6. Legible(block', u)
  <2> SUFFICES ASSUME NEW d \in 0..ht.len - 1
               PROVE  block[d][u.node[d + 1].blk] = u.node[d + 1].tag
    BY <1>3 DEF Legible
  <2>1. d + 1 \in 1..n
    BY <1>3
  <2>2. u.node[d + 1].tag = ht.node[d + 1].tag /\ u.node[d + 1].blk = ht.node[d + 1].blk
    BY <1>1, <1>2, <2>1 DEF Flushed
  <2>3. block[d][ht.node[d + 1].blk] = ht.node[d + 1].tag
    BY <1>1 DEF InMemory, Legible
  <2> QED BY <2>2, <2>3
<1>7. ASSUME NEW j \in 1..n, j # i, j \notin u.changed
      PROVE  j \notin ht.changed /\ u.node[j] = ht.node[j] /\ (i = 1 \/ j # Parent(i))
  <2>1. j \notin ht.changed /\ (i = 1 \/ j # Parent(i))
    BY <1>3, <1>7
  <2>2. u.node[j] = ht.node[j]
    BY <1>1, <1>2, <1>7, <2>1 DEF Flushed
  <2> QED BY <2>1, <2>2
<1>8. Written(node', u.node, n, u.changed)
  <2> SUFFICES ASSUME NEW j \in 2..n, j \notin u.changed
               PROVE  node'[j][u.node[Parent(j)].child[Side(j)]] = u.node[j]
    BY DEF Written
  <2>1. CASE j = i
    <3>1. w = u.node[Parent(i)].child[Side(i)]
      BY <2>1, <1>3 DEF NodeVersion
    <3> QED BY <1>4, <2>1, <3>1
  <2>2. CASE j # i
    <3>1. j \in 1..n /\ j \in Ids
      BY <1>3, BoundsAssumption DEF Ids
    <3>2. j \notin ht.changed /\ u.node[j] = ht.node[j]
      BY <1>7, <2>2, <3>1
    <3>z. /\ u.node[Parent(j)].child[Side(j)] = ht.node[Parent(j)].child[Side(j)]
          /\ u.node[Parent(j)].child[Side(j)] \in Vers
      BY <1>f, <2>2, FlushedChild
    <3>3. PICK y \in Vers : y = u.node[Parent(j)].child[Side(j)] /\ y = ht.node[Parent(j)].child[Side(j)]
      BY <3>z
    <3>4. node[j][y] = ht.node[j]
      BY <1>1, <1>2, <3>2, <3>3 DEF InMemory, Written
    <3>5. node'[j][y] = node[j][y]
      BY <1>5, <2>2, <3>1
    <3> QED BY <3>2, <3>3, <3>4, <3>5
  <2> QED BY <2>1, <2>2
<1>9. Rehashed(u.node, n, u.changed)
  <2> SUFFICES ASSUME NEW j \in 1..n, j \notin u.changed, Children(u.node, j) \cap u.changed = {}
               PROVE  u.node[j].hash = calc_node_hash(u.node, j)
    BY DEF Rehashed
  <2>1. CASE j = i
    <3>1. i = 1 \/ i # Parent(i)
      BY <1>3, ParentSmaller
    <3>2. calc_node_hash(u.node, i) = calc_node_hash(ht.node, i)
      BY <1>f, <3>1, FlushedHash
    <3> QED BY <1>1, <2>1, <3>2 DEF Flushed
  <2>2. CASE j # i
    <3>1. j \notin ht.changed /\ u.node[j] = ht.node[j] /\ (i = 1 \/ j # Parent(i))
      BY <1>7, <2>2
    <3>2. calc_node_hash(u.node, j) = calc_node_hash(ht.node, j)
      BY <1>f, <3>1, FlushedHash
    <3>3. /\ Children(u.node, j) = {c \in {2 * j, 2 * j + 1} : c <= n}
          /\ Children(ht.node, j) = {c \in {2 * j, 2 * j + 1} : c <= n}
      BY <1>3, ChildrenOf
    <3>4. Children(ht.node, j) \cap ht.changed = {}
      <4> SUFFICES ASSUME NEW c \in Children(ht.node, j), c \in ht.changed PROVE FALSE
        OBVIOUS
      <4>1. c \in 1..n /\ c \in Nat /\ c >= 2 /\ Parent(c) = j
        BY <1>3, <3>3 DEF Parent
      <4>2. c # i
        BY <3>1, <4>1
      <4>3. c \in u.changed
        BY <1>3, <4>2
      <4> QED BY <3>3, <4>3
    <3>5. ht.node[j].hash = calc_node_hash(ht.node, j)
      BY <1>1, <1>2, <3>1, <3>4 DEF InMemory, Rehashed
    <3> QED BY <3>1, <3>2, <3>5
  <2> QED BY <2>1, <2>2
<1>10. ASSUME u.changed = {} PROVE node'[1][1 - (u.counter % 2)] = u.node[1]
  <2>1. i = 1
    <3> SUFFICES ASSUME i # 1 PROVE FALSE
      OBVIOUS
    <3>1. Parent(i) # i
      BY <1>3, ParentSmaller
    <3> QED BY <1>3, <1>10, <3>1
  <2> QED BY <1>4, <2>1 DEF NodeVersion
<1>11. pc' = "resync" => Named'
  BY <1>1 DEF InMemory, AInv, Named
<1> QED BY <1>1, <1>3, <1>6, <1>8, <1>9, <1>10, <1>11 DEF InMemory

LEMMA FlushedSpares ==
  ASSUME HInv, TInv, AInv, Syncing, ht.changed # {}, NEW i, i = FirstDirty(ht),
         NEW u, u = NodeSynced(ht, i), UNCHANGED pc, ht' = u,
         NEW v \in Vers, NEW C, C = init_tree_from_data(v),
         NEW m, m = NodeCount(head[v].max), Filed, Keeps(v, C, m)
  PROVE  Spares(v, C, m, ht.node, NodeCount(ht.max))'
<1>1. /\ pc \in {"sync", "resync"} /\ MemOK(ht) /\ Flushed(ht, i, u) /\ i \in ht.changed
  BY SyncedNode DEF TInv
<1>2. PICK n \in 1..MaxBlocks : n = NodeCount(ht.max)
  BY <1>1, NodeCountType DEF MemOK
<1>3. /\ n \in Nat /\ n >= 1 /\ i \in 1..n /\ Len(ht.node) = n /\ ht.changed \subseteq 1..n
      /\ n = NodeCount(u.max) /\ u.counter = ht.counter
      /\ u.changed = (IF i = 1 THEN ht.changed ELSE ht.changed \cup {Parent(i)}) \ {i}
  BY <1>1, <1>2, BoundsAssumption, TreeLen DEF MemOK, Flushed
<1>f. MemOK(ht) /\ n = NodeCount(ht.max) /\ i \in 1..n /\ Flushed(ht, i, u)
  BY <1>1, <1>2, <1>3
<1>4. Spares(v, C, m, ht.node, n)
  BY <1>1, <1>2 DEF Keeps
<1>5. m \in Nat /\ m <= n
  BY <1>4, CommittedTree DEF Spares
<1>6. ASSUME NEW j \in 2..m, u.node[Parent(j)].child[Side(j)] # C[Parent(j)].child[Side(j)]
      PROVE  Settled(j, u.changed, n)
  <2>1. CASE j = i
    <3>1. PICK S \in SUBSET (1..n) : /\ i \in S /\ ChildClosed(S, n) /\ S \cap ht.changed = {i}
                                     /\ i >= 2 => Parent(i) \notin S
      BY <1>3, FirstDirtyIsLowest
    <3>2. i # 1 => Parent(i) \notin S
      BY <1>3, <3>1
    <3>3. S \cap u.changed = {}
      BY <1>3, <3>1, <3>2
    <3> QED BY <2>1, <3>1, <3>3 DEF Settled
  <2>2. CASE j # i
    <3>1. j \in 2..n
      BY <1>5
    <3>2. u.node[Parent(j)].child[Side(j)] = ht.node[Parent(j)].child[Side(j)]
      BY <1>f, <2>2, <3>1, FlushedChild
    <3>3. Settled(j, ht.changed, n)
      BY <1>4, <1>6, <3>2 DEF Spares
    <3>4. PICK S \in SUBSET (1..n) : j \in S /\ ChildClosed(S, n) /\ S \cap ht.changed = {}
      BY <3>3 DEF Settled
    <3>5. i # 1 => Parent(i) \notin S
      <4> SUFFICES ASSUME i # 1, Parent(i) \in S PROVE FALSE
        OBVIOUS
      <4>1. i \in {2 * Parent(i), 2 * Parent(i) + 1}
        BY <1>3, ParentSmaller
      <4>2. i \in S
        BY <1>3, <3>4, <4>1 DEF ChildClosed
      <4> QED BY <1>1, <3>4, <4>2
    <3>6. S \cap u.changed = {}
      BY <1>3, <3>4, <3>5
    <3> QED BY <3>4, <3>6 DEF Settled
  <2> QED BY <2>1, <2>2
<1>7. PICK k \in 1..n : k > m \/ ht.node[k].blk # C[k].blk
  BY <1>1, <1>4 DEF Spares
<1>8. u.node[k].blk = ht.node[k].blk
  BY <1>1, <1>2 DEF Flushed
<1>9. \E j \in 1..n : j > m \/ u.node[j].blk # C[j].blk
  BY <1>7, <1>8
<1>10. u.counter % 2 = v
  BY <1>3, <1>4 DEF Spares
<1> QED BY <1>1, <1>3, <1>5, <1>6, <1>9, <1>10 DEF Spares

LEMMA NodeKeeps ==
  ASSUME HInv, TInv, AInv, sync_node
  PROVE  AInv' /\ KeptStep /\ \E i \in Ids : Flushed(ht, i, ht')
<1>1. PICK i : i = FirstDirty(ht)
  OBVIOUS
<1>2. PICK u : u = NodeSynced(ht, i)
  OBVIOUS
<1>3. PICK w : w = NodeVersion(u, i)
  OBVIOUS
<1>4. /\ node' = [node EXCEPT ![i][w] = u.node[i]] /\ ht' = u
      /\ Syncing /\ ht.changed # {} /\ UNCHANGED <<head, block, hash, anchored, pc>>
  BY <1>1, <1>2, <1>3 DEF sync_node
<1>5. i \in Ids /\ Flushed(ht, i, ht') /\ pc \in {"sync", "resync"}
  BY <1>1, <1>2, <1>4, SyncedNode
<1>6. InMemory'
  BY <1>1, <1>2, <1>3, <1>4, FlushedMemory
<1>7. PICK x : x = u.node[i]
  OBVIOUS
<1>8. x \in {u.node[i], [ZeroImage EXCEPT !.hash = TornHash]} /\ node' = [node EXCEPT ![i][w] = x]
  BY <1>4, <1>7
<1>y. Syncing /\ ht.changed # {} /\ UNCHANGED <<head, block, hash, anchored>>
  BY <1>4
<1>9. CASE Filed
  <2>1. PICK v, C, m : /\ v \in Vers /\ C = init_tree_from_data(v) /\ m = NodeCount(head[v].max)
                       /\ Keeps(v, C, m)
    BY <1>9, AInvKeeps
  <2>2. SameFile(v, C, m)
    BY <1>1, <1>2, <1>3, <1>8, <1>9, <1>y, <2>1, NodeSpares
  <2>3. Spares(v, C, m, ht.node, NodeCount(ht.max))'
    BY <1>1, <1>2, <1>4, <1>9, <2>1, FlushedSpares
  <2>4. Keeps(v, C, m)'
    BY <1>4, <1>5, <2>2, <2>3 DEF Keeps, SameFile
  <2> QED BY <1>4, <1>5, <1>6, <2>1, <2>2, <2>4, KeepsAInv DEF SameFile, AInv, KeptStep
<1>10. CASE ~ Filed
  <2>1. ~ Filed' /\ node'[1][1].hash = node[1][1].hash
    BY <1>1, <1>2, <1>3, <1>8, <1>10, <1>y, NodeUnfiled
  <2>2. Unfiled'
    BY <1>4, <1>5, <1>10, <2>1 DEF Unfiled, AInv, Flushed
  <2> QED BY <1>4, <1>5, <1>6, <1>10, <2>1, <2>2, UnfiledAInv DEF AInv, KeptStep
<1> QED BY <1>9, <1>10

(* A tree without a dirty node whose root and header are in version w is   *)
(* on disk.                                                                *)
LEMMA MemoryOnDisk ==
  ASSUME HInv, TInv, pc # "closed", InMemory, ht.changed = {}, NEW w \in Vers,
         node[1][w] = ht.node[1], UNCHANGED <<node, block>>,
         head'[w].root = ht.node[1].hash, head'[w].max = ht.max, head'[w].len = ht.len,
         NEW n, n = NodeCount(ht.max), NEW C, C = ht.node
  PROVE  /\ C = init_tree_from_data(w)' /\ n = NodeCount(head[w].max)'
         /\ Intact(w, C, n)'
         /\ ht.node[1].hash = calc_node_hash(ht.node, 1)
<1>1. /\ MemOK(ht) /\ Written(node, ht.node, n, {}) /\ Rehashed(ht.node, n, {})
      /\ Legible(block, ht)
  BY DEF TInv, InMemory
<1>2. n \in Nat /\ n >= 1 /\ IsTree(ht.node, n)
  BY <1>1, NodeCountType DEF MemOK
<1>3. ht.node = TreeFrom(node', n, w)
  <2>1. PICK T, N : T = ht.node /\ N = node'
    OBVIOUS
  <2>2. T = [i \in 1..n |-> T[i]] /\ T[1] = N[1][w]
    BY <1>2, <2>1 DEF IsTree
  <2>3. \A i \in 2..n : T[i] = N[i][T[Parent(i)].child[Side(i)]]
    BY <1>1, <2>1 DEF Written
  <2>4. T = TreeFrom(N, n, w)
    BY <1>2, <2>2, <2>3, TreeUnique
  <2> QED BY <2>1, <2>4
<1>4. n = NodeCount(head'[w].max) /\ C = init_tree_from_data(w)'
  BY <1>3 DEF init_tree_from_data
<1>5. IsHashed(ht.node, n)
  BY <1>1 DEF IsHashed, Rehashed
<1>6. Intact(w, C, n)'
  BY <1>1, <1>5 DEF Intact, Legible
<1>7. ht.node[1].hash = calc_node_hash(ht.node, 1)
  BY <1>2, <1>5 DEF IsHashed
<1> QED BY <1>4, <1>6, <1>7

LEMMA NewFileAInv ==
  ASSUME HInv, TInv, AInv, pc # "closed", ht.changed = {}, NEW w \in Vers, NEW n, n = NodeCount(ht.max),
         NEW C, C = ht.node, Filed', Chosen(w)', Intact(w, C, n)',
         C = init_tree_from_data(w)', n = NodeCount(head[w].max)', UNCHANGED anchored,
         head'[w].len = ht.len,
         \/ pc' = "closed"
         \/ /\ pc' = "open" /\ InMemory' /\ ht'.counter % 2 = w /\ ht'.node = ht.node
            /\ ht'.max = ht.max /\ ht'.updated = {}
  PROVE  AInv' /\ CommitStep
<1>2. NewFile(w, C, n)
  BY DEF NewFile
<1>3. ASSUME pc' = "open" PROVE Spares(w, C, n, ht.node, NodeCount(ht.max))'
  <2>1. n \in Nat
    BY NodeCountType DEF TInv, MemOK
  <2>2. /\ ht'.counter % 2 = w /\ ht'.node = C /\ NodeCount(ht'.max) = n /\ ht'.updated = {}
    BY <1>3
  <2>3. Spares(w, C, n, C, n)'
    BY <1>3, <2>1, <2>2 DEF Spares
  <2> QED BY <2>2, <2>3
<1>4. Keeps(w, C, n)'
  BY <1>3 DEF Keeps
<1>5. AInv'
  BY <1>4, KeepsAInv DEF AInv
<1> QED BY <1>2, <1>5 DEF CommitStep

(* a commit of the directory that has the hash of the file,                *)
LEMMA CommitKeeps ==
  ASSUME HInv, TInv, AInv, commit_dirh_writes
  PROVE  AInv' /\ CommitStep
<1>1. /\ pc = "commit" /\ pc' = "open" /\ hash' = ht.node[1].hash
      /\ UNCHANGED <<head, node, block, anchored, ht>>
  BY DEF commit_dirh_writes, disk
<1>2. ht.changed = {} /\ MemOK(ht) /\ ht.updated = {} /\ ht.counter \in Nat
  BY <1>1 DEF TInv, MemOK, HInv, TreeOK
<1>3. PICK w \in Vers : w = ht.counter % 2
  BY <1>2 DEF Vers
<1>4. /\ InMemory /\ anchored /\ node[1][w] = ht.node[1]
      /\ head[w] = [counter |-> ht.counter, root |-> ht.node[1].hash, max |-> ht.max, len |-> ht.len]
  BY <1>1, <1>3 DEF AInv, InMemory
<1>5. PICK n, T : n = NodeCount(ht.max) /\ T = ht.node
  OBVIOUS
<1>6. head'[w].root = ht.node[1].hash /\ head'[w].max = ht.max /\ head'[w].len = ht.len
  BY <1>1, <1>4
<1>7. /\ T = init_tree_from_data(w)' /\ n = NodeCount(head[w].max)'
      /\ Intact(w, T, n)'
      /\ ht.node[1].hash = calc_node_hash(ht.node, 1)
  BY <1>1, <1>2, <1>4, <1>5, <1>6, MemoryOnDisk
<1>8. Filed'
  BY <1>1, <1>4, <1>7, RealHash DEF Filed
<1>9. node[1][1 - w].hash # ht.node[1].hash
  <2>1. CASE Filed
    <3>1. PICK v, C, m : /\ v \in Vers /\ C = init_tree_from_data(v) /\ m = NodeCount(head[v].max)
                         /\ Keeps(v, C, m)
      BY <2>1, AInvKeeps
    <3>2. w = 1 - v /\ v = 1 - w
      BY <1>1, <1>3, <3>1 DEF Keeps, Vers
    <3>3. node[1][v].hash = hash /\ node[1][1 - v].hash # hash
      BY <1>4, <3>1 DEF Keeps, Chosen
    <3> QED BY <1>4, <3>2, <3>3
  <2>2. CASE ~ Filed
    <3>1. ht.counter = 2 /\ node[1][1].hash = ZeroHash
      BY <1>1, <2>2 DEF AInv, Unfiled
    <3>2. w = 0 /\ 1 - w = 1
      BY <1>3, <3>1
    <3> QED BY <1>7, <3>1, <3>2, RealHash
  <2> QED BY <2>1, <2>2
<1>10. Chosen(w)'
  BY <1>1, <1>4, <1>9 DEF Chosen
<1>11. InMemory'
  BY <1>1, <1>4 DEF InMemory
<1> QED BY <1>1, <1>2, <1>3, <1>5, <1>6, <1>7, <1>8, <1>10, <1>11, NewFileAInv

(* and a write of a header: it goes to version w, the one of the next      *)
(* counter.                                                                *)
HeadGoesTo(w, c) ==
  /\ c = ht.counter + 1 /\ c \in Nat /\ c >= 1 /\ w = c % 2 /\ 1 - w = ht.counter % 2
  /\ head[1 - w].counter = ht.counter /\ head'[1 - w] = head[1 - w]
  /\ head'[w] = [counter |-> c, root |-> ht.node[1].hash, max |-> ht.max, len |-> ht.len]

LEMMA HeadVersionWritten ==
  ASSUME HInv, TInv, Syncing, write_head(ht), UNCHANGED seq
  PROVE  /\ \E w \in Vers : \E c : HeadGoesTo(w, c) /\ c = (ht.counter + 1) % CounterMod
         /\ pc \in {"create", "sync", "resync"} /\ MemOK(ht)
<1>1. /\ pc \in {"create", "sync", "resync"} /\ MemOK(ht) /\ TreeOK(ht) /\ ht.dirty = TRUE
  BY DEF Syncing, TInv, HInv, TreeOK
<1>2. (ht.counter + 1) % CounterMod = ht.counter + 1
  BY <1>1, HeadWritten
<1>3. PICK k \in Nat : k = ht.counter
  BY <1>1 DEF TreeOK
<1>4. PICK c \in Nat : c = k + 1
  BY <1>3
<1>5. PICK w \in Vers : w = c % 2 /\ 1 - w = k % 2 /\ 1 - w \in Vers /\ 1 - w # w
  <2>1. c % 2 \in Vers /\ 1 - (c % 2) = k % 2
    BY <1>3, <1>4 DEF Vers
  <2> QED BY <2>1, OtherVersion
<1>6. head' = [head EXCEPT ![w] = [counter |-> c, root |-> ht.node[1].hash,
                                   max |-> ht.max, len |-> ht.len]]
  BY <1>2, <1>3, <1>4, <1>5 DEF write_head
<1>7. /\ head'[w] = [counter |-> c, root |-> ht.node[1].hash, max |-> ht.max, len |-> ht.len]
      /\ head'[1 - w] = head[1 - w]
  BY <1>5, <1>6 DEF HInv
<1>8. head[1 - w].counter = ht.counter
  BY <1>1, <1>3, <1>5 DEF TreeOK
<1>9. HeadGoesTo(w, c)
  BY <1>3, <1>4, <1>5, <1>7, <1>8 DEF HeadGoesTo
<1> QED BY <1>1, <1>2, <1>3, <1>4, <1>9

(* The file stays as it is when it has a name or is not complete.          *)
LEMMA HeadSpares ==
  ASSUME HInv, TInv, AInv, Syncing, ht.changed = {}, NEW w \in Vers, NEW c, HeadGoesTo(w, c),
         UNCHANGED <<node, block, hash, anchored>>, anchored = TRUE \/ pc = "create"
  PROVE  /\ ~ Filed => ~ Filed'
         /\ \A v, C, m : /\ v \in Vers /\ C = init_tree_from_data(v) /\ m = NodeCount(head[v].max)
                         /\ Filed /\ Keeps(v, C, m)
                         => SameFile(v, C, m) /\ w = 1 - v
<1>1. pc \in {"create", "sync", "resync"} /\ MemOK(ht)
  BY DEF Syncing, TInv
<1>2. ASSUME ~ Filed PROVE ~ Filed'
  <2>1. CASE anchored = TRUE
    BY <1>2, <2>1 DEF Filed
  <2>2. CASE anchored # TRUE
    <3>1. ht.counter = 0
      BY <2>2 DEF HInv
    <3>2. 1 - w = 0
      BY <3>1 DEF HeadGoesTo
    <3>3. head'[0] = head[0]
      BY <3>2 DEF HeadGoesTo
    <3> QED BY <1>2, <2>2, <3>3 DEF Filed, AInv
  <2> QED BY <2>1, <2>2
<1>3. ASSUME NEW v \in Vers, NEW C, NEW m, C = init_tree_from_data(v),
             m = NodeCount(head[v].max), Filed, Keeps(v, C, m)
      PROVE  SameFile(v, C, m) /\ w = 1 - v
  <2>1. pc \in {"sync", "resync"} /\ anchored = TRUE /\ ht.counter % 2 = v
    BY <1>1, <1>3 DEF Keeps, Spares
  <2>2. v = 1 - w /\ w = 1 - v
    BY <2>1 DEF HeadGoesTo, Vers
  <2>3. head'[v] = head[v]
    BY <2>2 DEF HeadGoesTo
  <2>4. Chosen(v) /\ Intact(v, C, m)
    BY <1>3 DEF Keeps
  <2>5. node'[1][1 - v].hash # hash
    BY <2>1, <2>4 DEF Chosen
  <2>6. SameFile(v, C, m)
    BY <1>3, <2>1, <2>3, <2>4, <2>5, DiskKept
  <2> QED BY <2>2, <2>6
<1> QED BY <1>2, <1>3

(* Otherwise, for the directory file, the header is the commit.            *)
LEMMA HeadCommits ==
  ASSUME HInv, TInv, AInv, pc = "sync", ht.changed = {}, NEW w \in Vers, NEW c, HeadGoesTo(w, c),
         UNCHANGED <<node, block, anchored>>, anchored = FALSE,
         NEW n, n = NodeCount(ht.max), NEW C, C = ht.node
  PROVE  /\ Filed' /\ Chosen(w)' /\ Intact(w, C, n)'
         /\ C = init_tree_from_data(w)' /\ n = NodeCount(head[w].max)'
         /\ head'[w].len = ht.len
<1>1. InMemory /\ node[1][w] = ht.node[1]
  BY DEF AInv, InMemory, HeadGoesTo, Vers
<1>2. /\ head'[w].root = ht.node[1].hash /\ head'[w].max = ht.max /\ head'[w].len = ht.len
      /\ head'[w].counter = c
  BY DEF HeadGoesTo
<1>3. /\ C = init_tree_from_data(w)' /\ n = NodeCount(head[w].max)' /\ Intact(w, C, n)'
  BY <1>1, <1>2, MemoryOnDisk
<1>4. Filed'
  <2>1. CASE w = 0
    <3>1. head'[0].counter # 0
      BY <1>2, <2>1 DEF HeadGoesTo
    <3> QED BY <3>1 DEF Filed, ZeroHead
  <2>2. CASE w = 1
    <3>1. Filed
      <4> SUFFICES ASSUME ~ Filed PROVE FALSE
        OBVIOUS
      <4>1. ht.counter = 1
        BY DEF AInv, Unfiled
      <4> QED BY <2>2, <4>1 DEF HeadGoesTo
    <3>2. head'[0] = head[0]
      BY <2>2 DEF HeadGoesTo
    <3> QED BY <3>1, <3>2 DEF Filed
  <2> QED BY <2>1, <2>2 DEF Vers
<1>5. Chosen(w)'
  <2>1. head'[1 - w].counter = ht.counter /\ ht.counter \in Nat /\ c > ht.counter
    BY DEF HeadGoesTo, HInv, TreeOK
  <2> QED BY <1>2, <2>1 DEF Chosen
<1> QED BY <1>2, <1>3, <1>4, <1>5

LEMMA HeadFailsKeeps ==
  ASSUME HInv, TInv, AInv, sync_head_fails
  PROVE  AInv' /\ (KeptStep \/ CommitStep)
<1>1. /\ Syncing /\ ht.changed = {} /\ write_head(ht) /\ pc' = "closed" /\ pc # "closed"
      /\ UNCHANGED <<node, block, hash, anchored, seq>>
  BY DEF sync_head_fails, Lose, Syncing
<1>2. pc \in {"create", "sync", "resync"} /\ MemOK(ht)
  BY <1>1, HeadVersionWritten
<1>3. PICK w, c : w \in Vers /\ HeadGoesTo(w, c)
  BY <1>1, HeadVersionWritten
<1>4. CASE anchored = TRUE \/ pc = "create"
  <2>1. /\ ~ Filed => ~ Filed'
        /\ \A v, C, m : /\ v \in Vers /\ C = init_tree_from_data(v) /\ m = NodeCount(head[v].max)
                        /\ Filed /\ Keeps(v, C, m)
                        => SameFile(v, C, m) /\ w = 1 - v
    BY <1>1, <1>3, <1>4, HeadSpares
  <2>2. \A v, C, m : /\ v \in Vers /\ C = init_tree_from_data(v) /\ m = NodeCount(head[v].max)
                     /\ Filed /\ Keeps(v, C, m)
                     => SameFile(v, C, m)
    BY <2>1
  <2> QED BY <1>1, <2>1, <2>2, ClosedStep
<1>5. CASE anchored = FALSE /\ pc = "sync"
  <2>1. PICK n, C : n = NodeCount(ht.max) /\ C = ht.node
    OBVIOUS
  <2>2. /\ Filed' /\ Chosen(w)' /\ Intact(w, C, n)'
        /\ C = init_tree_from_data(w)' /\ n = NodeCount(head[w].max)'
        /\ head'[w].len = ht.len
    BY <1>1, <1>3, <1>5, <2>1, HeadCommits
  <2> QED BY <1>1, <1>3, <2>1, <2>2, NewFileAInv
<1>6. pc = "resync" => anchored = TRUE
  BY <1>1 DEF AInv, InMemory, Named
<1> QED BY <1>2, <1>4, <1>5, <1>6 DEF AInv

LEMMA HeadKeeps ==
  ASSUME WriteAhead = FALSE, HInv, TInv, AInv, sync_head
  PROVE  /\ AInv' /\ (KeptStep \/ CommitStep)
         /\ ht'.node = ht.node /\ ht'.len = ht.len /\ pc' # "closed" /\ pc # "closed"
<1>1. /\ Syncing /\ ht.changed = {} /\ write_head(ht) /\ pc # "closed"
      /\ UNCHANGED <<node, block, hash, anchored, seq>>
      /\ ht' = [ht EXCEPT !.counter = (@ + 1) % CounterMod, !.dirty = FALSE]
  BY DEF sync_head, Syncing
<1>2. pc \in {"create", "sync", "resync"} /\ MemOK(ht)
  BY <1>1, HeadVersionWritten
<1>3. PICK w, c : w \in Vers /\ HeadGoesTo(w, c) /\ c = (ht.counter + 1) % CounterMod
  BY <1>1, HeadVersionWritten
<1>4. /\ pc' = CASE pc = "create" -> "dummy" [] pc = "resync" -> "stale"
                 [] pc = "sync" -> IF anchored THEN "commit" ELSE "open"
      /\ pc = "resync" => Named /\ anchored = TRUE
  BY <1>1, <1>2 DEF sync_head, WhenAhead, AInv, InMemory, Named
<1>5. /\ ht'.counter = c /\ ht'.max = ht.max /\ ht'.len = ht.len /\ ht'.node = ht.node
      /\ ht'.changed = {} /\ ht'.updated = {} /\ ht'.counter % 2 = w
  BY <1>1, <1>2, <1>3 DEF MemOK, Fields, HeadGoesTo
<1>6. InMemory
  BY <1>1 DEF AInv
<1>7. InMemory'
  <2>1. Legible(block', ht')
    BY <1>1, <1>5, <1>6 DEF InMemory, Legible
  <2>2. /\ Written(node', ht'.node, NodeCount(ht'.max), ht'.changed)
        /\ Rehashed(ht'.node, NodeCount(ht'.max), ht'.changed)
    BY <1>1, <1>5, <1>6 DEF InMemory
  <2>3. ASSUME pc' \in {"commit", "stale"}
        PROVE  /\ anchored' /\ node'[1][ht'.counter % 2] = ht'.node[1]
               /\ head'[ht'.counter % 2] = [counter |-> ht'.counter, root |-> ht'.node[1].hash,
                                            max |-> ht'.max, len |-> ht'.len]
    <3>1. pc \in {"sync", "resync"} /\ anchored
      BY <1>2, <1>4, <2>3
    <3>2. node[1][w] = ht.node[1]
      BY <1>1, <1>3, <1>6, <3>1 DEF InMemory, HeadGoesTo, Vers
    <3> QED BY <1>1, <1>3, <1>5, <3>1, <3>2 DEF HeadGoesTo
  <2>4. pc' \notin {"sync", "resync", "extended", "closed"}
    BY <1>2, <1>4
  <2> QED BY <2>1, <2>2, <2>3, <2>4 DEF InMemory
<1>8. CASE anchored = TRUE \/ pc = "create"
  <2>1. /\ ~ Filed => ~ Filed'
        /\ \A v, C, m : /\ v \in Vers /\ C = init_tree_from_data(v) /\ m = NodeCount(head[v].max)
                        /\ Filed /\ Keeps(v, C, m)
                        => SameFile(v, C, m) /\ w = 1 - v
    BY <1>1, <1>3, <1>8, HeadSpares
  <2>2. CASE Filed
    <3>1. PICK v, C, m : /\ v \in Vers /\ C = init_tree_from_data(v) /\ m = NodeCount(head[v].max)
                         /\ Keeps(v, C, m)
      BY <2>2, AInvKeeps
    <3>2. SameFile(v, C, m) /\ w = 1 - v
      BY <2>1, <2>2, <3>1
    <3>3. pc' \in {"commit", "stale"}
      BY <1>2, <1>4, <1>8, <3>1 DEF Keeps
    <3>4. Keeps(v, C, m)'
      BY <1>5, <3>2, <3>3 DEF Keeps, SameFile
    <3> QED BY <1>1, <1>5, <1>7, <3>1, <3>2, <3>3, <3>4, KeepsAInv DEF SameFile, AInv, KeptStep
  <2>3. CASE ~ Filed
    <3>1. Unfiled
      BY <2>3 DEF AInv
    <3>0. pc # "resync"
      BY <1>4, <2>3 DEF Named, Filed
    <3>2. pc' \in {"dummy", "commit"}
      BY <1>2, <1>4, <1>8, <3>0
    <3>3. pc' = "commit" => ht'.counter = 2
      BY <1>2, <1>3, <1>4, <1>5, <3>0, <3>1 DEF Unfiled, HeadGoesTo
    <3>4. Unfiled'
      BY <1>1, <3>1, <3>2, <3>3 DEF Unfiled
    <3> QED BY <1>1, <1>5, <1>7, <2>1, <2>3, <3>2, <3>4, UnfiledAInv DEF AInv, KeptStep
  <2> QED BY <2>2, <2>3
<1>9. CASE anchored = FALSE /\ pc = "sync"
  <2>1. PICK n, C : n = NodeCount(ht.max) /\ C = ht.node
    OBVIOUS
  <2>2. /\ Filed' /\ Chosen(w)' /\ Intact(w, C, n)'
        /\ C = init_tree_from_data(w)' /\ n = NodeCount(head[w].max)'
        /\ head'[w].len = ht.len
    BY <1>1, <1>3, <1>9, <2>1, HeadCommits
  <2>3. pc' = "open"
    BY <1>4, <1>9
  <2> QED BY <1>1, <1>3, <1>5, <1>7, <2>1, <2>2, <2>3, NewFileAInv
<1> QED BY <1>2, <1>4, <1>8, <1>9 DEF AInv

LEMMA InitAInv == Init => AInv
<1> SUFFICES ASSUME Init PROVE AInv
  OBVIOUS
<1>1. ~ Filed
  BY DEF Init, Filed, Vers
<1>2. Unfiled
  BY BoundsAssumption DEF Init, Unfiled, ZeroImage, Vers, Ids
<1> QED BY <1>1, <1>2 DEF AInv, Init

(* Every step keeps the invariant, and either keeps the file or commits.   *)
LEMMA NextAInv ==
  ASSUME MaxCut <= 1, WriteAhead = FALSE, HInv, TInv, AInv, [Next]_vars
  PROVE  AInv'
<1>1. CASE UNCHANGED vars
  BY <1>1, StutterKeeps
<1>2. CASE tee_fs_htree_create
  BY <1>2, CreateKeeps
<1>3. CASE tee_fs_htree_open
  BY <1>3, OpenKeeps
<1>4. CASE tee_fs_htree_close \/ ree_fs_read_fails \/ crash
  BY <1>4, LoseKeeps
<1>5. ASSUME NEW b \in Blocks, BlockStep(b) \/ write_block_fails(b) PROVE AInv'
  BY <1>5, WriteKeeps, WriteFailsKeeps
<1>6. ASSUME NEW n \in 0..MaxBlocks, ree_fs_truncate(n) \/ ree_fs_truncate_fails(n) PROVE AInv'
  BY <1>6, TruncateKeepsFile, TruncateFailsKeeps
<1>7. CASE sync_to_storage
  BY <1>7, StartKeeps
<1>8. CASE sync_node
  BY <1>8, NodeKeeps
<1>9. CASE sync_node_fails
  BY <1>9, NodeFailsKeeps
<1>10. CASE sync_head
  BY <1>10, HeadKeeps
<1>11. CASE sync_head_fails
  BY <1>11, HeadFailsKeeps
<1>12. CASE write_dummy_head
  BY <1>12, DummyKeeps
<1>13. CASE commit_dirh_writes
  BY <1>13, CommitKeeps
<1>14. CASE commit_dirh_writes_fails
  BY <1>14, CommitFailsKeeps
<1> QED
  BY <1>1, <1>2, <1>3, <1>4, <1>5, <1>6, <1>7, <1>8, <1>9, <1>10, <1>11, <1>12, <1>13, <1>14
  DEF Next, BlockStep, write_block, ree_fs_extend

(* What the two variables of AtomicFile are, read off the disk and the     *)
(* tree in memory.                                                         *)
Blks(T, n) == [i \in 1..n |-> T[i].tag]

FoundOK ==
  /\ ~ Filed => content = NoFile
  /\ \A v, C, m :
       /\ v \in Vers /\ C = init_tree_from_data(v) /\ m = NodeCount(head[v].max)
       /\ Filed /\ Chosen(v) /\ Intact(v, C, m)
       => content = Blks(C, head[v].len)

HeldOK ==
  /\ pc = "closed" => work = Closed
  /\ pc # "closed" =>
       /\ work = Blks(ht.node, ht.len) /\ Len(work) = ht.len /\ ht.len \in Nat
       /\ work # NoFile /\ work # Closed

LEMMA FoundAndHeld == HInv /\ TInv /\ AInv => FoundOK /\ HeldOK
<1> SUFFICES ASSUME HInv, TInv, AInv PROVE FoundOK /\ HeldOK
  OBVIOUS
<1>1. ASSUME ~ Filed PROVE content = NoFile
  BY <1>1, UnfiledDoesNot DEF content, AInv
<1>2. ASSUME NEW v \in Vers, NEW C, NEW m, C = init_tree_from_data(v), m = NodeCount(head[v].max),
             Filed, Chosen(v), Intact(v, C, m)
      PROVE  content = Blks(C, head[v].len)
  <2>1. Openable /\ Contents(Loaded) = [i \in 1..head[v].len |-> C[i].tag]
    BY <1>2, FiledOpens DEF AInv
  <2> QED BY <2>1 DEF content, Blks
<1>3. ASSUME pc # "closed"
      PROVE  /\ work = Blks(ht.node, ht.len) /\ Len(work) = ht.len /\ ht.len \in Nat
             /\ work # NoFile /\ work # Closed
  <2>1. MemOK(ht) /\ Legible(block, ht)
    BY <1>3 DEF TInv, AInv, InMemory
  <2>2. work = Contents(ht)
    BY <1>3 DEF work
  <2> QED BY <2>1, <2>2, MemContents DEF Blks
<1>4. pc = "closed" => work = Closed
  BY DEF work
<1> QED BY <1>1, <1>2, <1>3, <1>4 DEF FoundOK, HeldOK

LEMMA FoundAndHeldNext == HInv' /\ TInv' /\ AInv' => FoundOK' /\ HeldOK'
BY FoundAndHeld, PTL

LEMMA KeptContent ==
  ASSUME FoundOK, FoundOK', KeptStep
  PROVE  content' = content
<1>1. CASE ~ Filed /\ ~ Filed'
  BY <1>1 DEF FoundOK
<1>2. ASSUME NEW v \in Vers, NEW C, NEW m, C = init_tree_from_data(v), m = NodeCount(head[v].max),
             SameFile(v, C, m)
      PROVE  content' = content
  <2>1. content = Blks(C, head[v].len)
    BY <1>2 DEF FoundOK, SameFile
  <2>2. content' = Blks(C, head'[v].len)
    BY <1>2 DEF FoundOK, SameFile, Blks
  <2>3. head'[v] = head[v]
    BY <1>2 DEF SameFile
  <2> QED BY <2>1, <2>2, <2>3
<1> QED BY <1>1, <1>2 DEF KeptStep

LEMMA CommitContent ==
  ASSUME HeldOK, FoundOK', CommitStep, pc # "closed"
  PROVE  content' = work
<1>1. PICK w, C, m : w \in Vers /\ NewFile(w, C, m)
  BY DEF CommitStep
<1>2. content' = Blks(C, head'[w].len)
  BY <1>1 DEF FoundOK, NewFile, Blks
<1>3. C = ht.node /\ head'[w].len = ht.len
  BY <1>1 DEF NewFile
<1> QED BY <1>2, <1>3 DEF HeldOK

(* The steps of AtomicFile in terms of these two.                          *)
LEMMA IsStutter ==
  ASSUME content' = content, work' = work
  PROVE  UNCHANGED File!vars
BY DEF File!vars, content, work

LEMMA IsCreate ==
  ASSUME content = NoFile, work' = <<>>, content' = content
  PROVE  File!Next
BY DEF File!Next, File!Create, content, work

LEMMA IsOpen ==
  ASSUME work = Closed, content # NoFile, work' = content, content' = content
  PROVE  File!Next
BY DEF File!Next, File!Open, content, work

LEMMA IsWrite ==
  ASSUME work # Closed, content' = content, NEW i \in 1..Len(work) + 1, NEW d \in Data,
         work' = [j \in 1..Len(work) \cup {i} |-> IF j = i THEN d ELSE work[j]]
  PROVE  File!Next
<1>1. File!Write
  BY DEF File!Write, content, work
<1> QED BY <1>1 DEF File!Next

LEMMA IsTruncate ==
  ASSUME work # Closed, content' = content, NEW n \in 0..Len(work), work' = SubSeq(work, 1, n)
  PROVE  File!Next
<1>1. File!Truncate
  BY DEF File!Truncate, content, work
<1> QED BY <1>1 DEF File!Next

LEMMA IsCommit ==
  ASSUME work # Closed, content' = work, work' \in {work, Closed}
  PROVE  File!Next
BY DEF File!Next, File!Commit, content, work

LEMMA IsDrop ==
  ASSUME work # Closed, work' = Closed, content' = content
  PROVE  File!Next
BY DEF File!Next, File!Drop, content, work

LEMMA WriteIsWrite ==
  ASSUME HInv, TInv, HeldOK, HeldOK', content' = content, NEW b \in Blocks, BlockStep(b),
         NEW k \in 1..MaxBlocks, Rewritten(ht, b, ht', k), b + 1 \in 1..k
  PROVE  File!Next
<1>1. /\ pc # "closed" /\ pc' # "closed" /\ b <= ht.len /\ seq < MaxWrites
  BY DEF BlockStep, out_of_place_write, CanWrite
<1>2. /\ work = Blks(ht.node, ht.len) /\ Len(work) = ht.len /\ ht.len \in Nat /\ work # Closed
      /\ work' = Blks(ht'.node, ht'.len) /\ ht'.len \in Nat
  BY <1>1 DEF HeldOK, Blks
<1>3. /\ b \in Nat /\ k \in Nat /\ seq + 1 \in Data
  BY <1>1, BoundsAssumption DEF HInv, Data, Blocks
<1>4. /\ ht'.len = (IF b = ht.len THEN b + 1 ELSE ht.len)
      /\ \A i \in 1..k : i # b + 1 => ht'.node[i] = ht.node[i]
      /\ ht'.node[b + 1].tag = seq + 1
      /\ ht'.len <= k
  BY <1>3, BoundsAssumption DEF Rewritten, MemOK
<1>5. 1..ht'.len = 1..Len(work) \cup {b + 1} /\ b + 1 \in 1..Len(work) + 1
  BY <1>1, <1>2, <1>3, <1>4
<1>6. work' = [j \in 1..Len(work) \cup {b + 1} |-> IF j = b + 1 THEN seq + 1 ELSE work[j]]
  <2>1. ASSUME NEW j \in 1..ht'.len
        PROVE  ht'.node[j].tag = IF j = b + 1 THEN seq + 1 ELSE work[j]
    <3>1. CASE j = b + 1
      BY <1>4, <3>1
    <3>2. CASE j # b + 1
      <4>1. j \in 1..k /\ j \in 1..ht.len
        BY <1>1, <1>2, <1>3, <1>4, <3>2
      <4>2. ht'.node[j] = ht.node[j]
        BY <1>4, <3>2, <4>1
      <4>3. work[j] = ht.node[j].tag
        BY <1>2, <4>1 DEF Blks
      <4> QED BY <3>2, <4>2, <4>3
    <3> QED BY <3>1, <3>2
  <2>2. work' = [j \in 1..ht'.len |-> IF j = b + 1 THEN seq + 1 ELSE work[j]]
    BY <1>2, <2>1 DEF Blks
  <2> QED BY <1>5, <2>2
<1> QED BY <1>2, <1>3, <1>5, <1>6, IsWrite

LEMMA TruncateIsTruncate ==
  ASSUME HeldOK, HeldOK', content' = content, NEW n \in Nat, pc # "closed", pc' # "closed",
         n <= ht.len, ht'.node = ht.node, ht'.len = n
  PROVE  File!Next
<1>1. /\ work = Blks(ht.node, ht.len) /\ Len(work) = ht.len /\ ht.len \in Nat /\ work # Closed
      /\ work' = Blks(ht.node, n)
  BY DEF HeldOK, Blks
<1>2. SubSeq(work, 1, n) = [i \in 1..n |-> work[i]]
  BY <1>1
<1>3. \A i \in 1..n : work[i] = ht.node[i].tag
  BY <1>1 DEF Blks
<1>4. work' = SubSeq(work, 1, n)
  BY <1>1, <1>2, <1>3 DEF Blks
<1> QED BY <1>1, <1>4, IsTruncate

LEMMA SameWork ==
  ASSUME HeldOK, HeldOK', pc # "closed", pc' # "closed", ht'.len = ht.len,
         \A i \in 1..ht.len : ht'.node[i].tag = ht.node[i].tag
  PROVE  work' = work /\ work # Closed
<1>1. work = Blks(ht.node, ht.len) /\ work' = Blks(ht'.node, ht.len) /\ work # Closed
  BY DEF HeldOK, Blks
<1> QED BY <1>1 DEF Blks

(* Every step is one of AtomicFile, or none.                               *)
LEMMA StepFile ==
  ASSUME MaxCut <= 1, WriteAhead = FALSE, HInv, TInv, AInv, HInv', TInv', AInv', [Next]_vars
  PROVE  [File!Next]_(File!vars)
<1>0. FoundOK /\ HeldOK /\ FoundOK' /\ HeldOK'
  BY FoundAndHeld, FoundAndHeldNext
<1>k. KeptStep => content' = content
  BY <1>0, KeptContent
<1>c. CommitStep /\ pc # "closed" => content' = work
  BY <1>0, CommitContent
<1>h. (pc # "closed" => work # Closed) /\ (pc' = "closed" => work' = Closed) /\ (pc = "closed" => work = Closed)
  BY <1>0 DEF HeldOK
<1>s. ASSUME KeptStep, pc # "closed", pc' # "closed", UNCHANGED ht PROVE UNCHANGED File!vars
  <2>1. work' = work
    BY <1>0, <1>s, SameWork
  <2> QED BY <1>k, <1>s, <2>1, IsStutter
<1>d. ASSUME KeptStep, pc # "closed", pc' = "closed" PROVE File!Next
  <2>1. content' = content /\ work # Closed /\ work' = Closed
    BY <1>k, <1>h, <1>d
  <2> QED BY <2>1, IsDrop
<1>1. CASE UNCHANGED vars
  <2>1. content' = content
    BY <1>1, <1>k, StutterKeeps
  <2>2. work' = work
    BY <1>1 DEF vars, work, Contents, Readable
  <2> QED BY <2>1, <2>2, IsStutter
<1>2. CASE tee_fs_htree_create
  <2>1. KeptStep /\ ~ Filed /\ ht'.len = 0 /\ pc' # "closed"
    BY <1>2, CreateKeeps DEF tee_fs_htree_create
  <2>2. content = NoFile /\ content' = content
    BY <1>0, <1>k, <2>1 DEF FoundOK
  <2>3. work' = <<>>
    BY <1>0, <2>1 DEF HeldOK, Blks
  <2> QED BY <2>2, <2>3, IsCreate
<1>3. CASE tee_fs_htree_open
  <2>1. /\ KeptStep /\ pc' # "closed" /\ pc = "closed" /\ ht' = Loaded /\ Openable /\ UNCHANGED block
    BY <1>3, OpenKeeps DEF tee_fs_htree_open, disk
  <2>2. work' = content
    BY <2>1 DEF work, content, Contents, Readable
  <2>3. work' # NoFile
    BY <1>0, <2>1 DEF HeldOK
  <2>4. work = Closed /\ content' = content /\ content # NoFile
    BY <1>h, <1>k, <2>1, <2>2, <2>3
  <2> QED BY <2>2, <2>4, IsOpen
<1>4. CASE tee_fs_htree_close \/ ree_fs_read_fails \/ crash
  <2>1. KeptStep
    BY <1>4, LoseKeeps
  <2>2. pc # "closed" /\ pc' = "closed"
    BY <1>4 DEF tee_fs_htree_close, ree_fs_read_fails, crash, Lose
  <2> QED BY <1>d, <2>1, <2>2
<1>5. ASSUME NEW b \in Blocks, BlockStep(b) PROVE File!Next
  <2>1. KeptStep
    BY <1>5, WriteKeeps
  <2>2. PICK k \in 1..MaxBlocks : Rewritten(ht, b, ht', k) /\ b + 1 \in 1..k
    BY <1>5, WriteKeeps
  <2>3. content' = content
    BY <1>k, <2>1
  <2> QED BY <1>0, <1>5, <2>2, <2>3, WriteIsWrite
<1>6. ASSUME NEW b \in Blocks, write_block_fails(b) PROVE File!Next
  <2>1. KeptStep
    BY <1>6, WriteFailsKeeps
  <2>2. pc # "closed" /\ pc' = "closed"
    BY <1>6 DEF write_block_fails, Lose, CanWrite
  <2> QED BY <1>d, <2>1, <2>2
<1>7. ASSUME NEW n \in 0..MaxBlocks, ree_fs_truncate(n) PROVE File!Next
  <2>1. KeptStep /\ n <= ht.len /\ ht'.node = ht.node /\ ht'.len = n
    BY <1>7, TruncateKeepsFile
  <2>2. pc # "closed" /\ pc' # "closed" /\ n \in Nat
    BY <1>7, BoundsAssumption DEF ree_fs_truncate, CanTruncate
  <2>3. content' = content
    BY <1>k, <2>1
  <2> QED BY <1>0, <2>1, <2>2, <2>3, TruncateIsTruncate
<1>8. ASSUME NEW n \in 0..MaxBlocks, ree_fs_truncate_fails(n) PROVE [File!Next]_(File!vars)
  BY <1>8, <1>s, TruncateFailsKeeps
<1>9. CASE sync_to_storage
  <2>1. KeptStep
    BY <1>9, StartKeeps
  <2>2. pc # "closed" /\ pc' # "closed" /\ UNCHANGED ht
    BY <1>9 DEF sync_to_storage
  <2> QED BY <1>s, <2>1, <2>2
<1>10. CASE sync_node
  <2>1. KeptStep
    BY <1>10, NodeKeeps
  <2>2. PICK i \in Ids : Flushed(ht, i, ht')
    BY <1>10, NodeKeeps
  <2>3. pc # "closed" /\ pc' # "closed"
    BY <1>10 DEF sync_node, Syncing
  <2>4. ht.len \in 0..NodeCount(ht.max) /\ NodeCount(ht.max) \in Nat
    BY <2>3, NodeCountType DEF TInv, MemOK
  <2>5. ht'.len = ht.len /\ \A j \in 1..ht.len : ht'.node[j].tag = ht.node[j].tag
    BY <2>2, <2>4 DEF Flushed
  <2>6. work' = work
    BY <1>0, <2>3, <2>5, SameWork
  <2>7. content' = content
    BY <1>k, <2>1
  <2> QED BY <2>6, <2>7, IsStutter
<1>11. CASE sync_node_fails
  <2>1. KeptStep
    BY <1>11, NodeFailsKeeps
  <2>2. pc # "closed" /\ pc' = "closed"
    BY <1>11 DEF sync_node_fails, Lose, Syncing
  <2> QED BY <1>d, <2>1, <2>2
<1>12. CASE sync_head
  <2>1. /\ KeptStep \/ CommitStep
        /\ ht'.node = ht.node /\ ht'.len = ht.len /\ pc' # "closed" /\ pc # "closed"
    BY <1>12, HeadKeeps
  <2>2. work' = work /\ work # Closed
    BY <1>0, <2>1, SameWork
  <2>3. CASE KeptStep
    <3>1. content' = content
      BY <1>k, <2>3
    <3> QED BY <2>2, <3>1, IsStutter
  <2>4. CASE CommitStep
    <3>1. content' = work
      BY <1>c, <2>1, <2>4
    <3> QED BY <2>2, <3>1, IsCommit
  <2> QED BY <2>1, <2>3, <2>4
<1>13. CASE sync_head_fails
  <2>1. KeptStep \/ CommitStep
    BY <1>13, HeadFailsKeeps
  <2>2. pc # "closed" /\ pc' = "closed"
    BY <1>13 DEF sync_head_fails, Lose, Syncing
  <2>3. CASE KeptStep
    BY <1>d, <2>2, <2>3
  <2>4. CASE CommitStep
    <3>1. content' = work /\ work # Closed /\ work' = Closed
      BY <1>c, <1>h, <2>2, <2>4
    <3> QED BY <3>1, IsCommit
  <2> QED BY <2>1, <2>3, <2>4
<1>14. CASE write_dummy_head
  <2>1. KeptStep
    BY <1>14, DummyKeeps
  <2>2. pc # "closed" /\ pc' # "closed" /\ UNCHANGED ht
    BY <1>14 DEF write_dummy_head
  <2> QED BY <1>s, <2>1, <2>2
<1>15. CASE commit_dirh_writes
  <2>1. CommitStep
    BY <1>15, CommitKeeps
  <2>2. pc # "closed" /\ pc' # "closed" /\ UNCHANGED ht
    BY <1>15 DEF commit_dirh_writes
  <2>3. work' = work /\ work # Closed
    BY <1>0, <2>2, SameWork
  <2>4. content' = work
    BY <1>c, <2>1, <2>2
  <2> QED BY <2>3, <2>4, IsCommit
<1>16. CASE commit_dirh_writes_fails
  <2>1. KeptStep
    BY <1>16, CommitFailsKeeps
  <2>2. pc # "closed" /\ pc' # "closed" /\ UNCHANGED ht
    BY <1>16 DEF commit_dirh_writes_fails, WhenAhead
  <2> QED BY <1>s, <2>1, <2>2
<1> QED
  BY <1>1, <1>2, <1>3, <1>4, <1>5, <1>6, <1>7, <1>8, <1>9, <1>10, <1>11, <1>12, <1>13, <1>14,
     <1>15, <1>16 DEF Next, BlockStep, write_block, ree_fs_extend

(* fs_htree.h:31, for files of any size and any number of writes: what     *)
(* tee_fs_htree_open (fs_htree.c) finds is always what the last commit     *)
(* wrote, wherever the update after it was interrupted by a crash or by an *)
(* RPC that failed.  Two things are assumed that the code does not         *)
(* enforce: the file is not truncated below its nodes, and an object that  *)
(* is ahead of the directory, after a commit that failed or a truncation   *)
(* that synced an extension, is not written again.  Without either,        *)
(* MCHTreeTruncate and MCHTreeRetry have the counterexample.               *)
THEOREM FileIsAtomic ==
  ASSUME MaxCut <= 1, WriteAhead = FALSE
  PROVE  Spec => IsAtomicFile
<1>1. ASSUME Init PROVE File!Init
  <2>1. HInv /\ TInv /\ AInv
    BY <1>1, InitHInv, InitTInv, InitAInv
  <2>2. FoundOK /\ HeldOK /\ ~ Filed /\ pc = "closed"
    BY <1>1, <2>1, FoundAndHeld DEF Init, Filed, Vers
  <2>3. content = NoFile /\ work = Closed
    BY <2>2 DEF FoundOK, HeldOK
  <2> QED BY <2>3 DEF File!Init, content, work
<1>2. HInv /\ TInv /\ [Next]_vars => TInv'
  BY NextTInv
<1>3. HInv /\ TInv /\ AInv /\ [Next]_vars => AInv'
  BY NextAInv
<1>4. HInv /\ TInv /\ AInv /\ HInv' /\ TInv' /\ AInv' /\ [Next]_vars => [File!Next]_(File!vars)
  BY StepFile
<1> QED BY <1>1, <1>2, <1>3, <1>4, InitTInv, InitAInv, HeadInvariance, PTL
        DEF Spec, IsAtomicFile, File!Spec

-----------------------------------------------------------------------------
(* The layout of the file: 31 nodes to a block of their own, and their 62  *)
(* data blocks but one before the next.                                    *)
LEMMA Divides ==
  ASSUME NEW n \in Nat
  PROVE  /\ n \div 31 \in Nat /\ n % 31 \in 0..30 /\ n % 31 = n - 31 * (n \div 31)
         /\ n \div 61 \in Nat /\ n % 61 \in 0..60 /\ n % 61 = n - 61 * (n \div 61)
<1>1. n \div 31 \in Nat /\ n \div 61 \in Nat
  OBVIOUS
<1>2. n % 31 \in 0..30 /\ n % 61 \in 0..60
  OBVIOUS
<1>3. n % 31 = n - 31 * (n \div 31)
  OBVIOUS
<1>4. n % 61 = n - 61 * (n \div 61)
  OBVIOUS
<1> QED BY <1>1, <1>2, <1>3, <1>4

LEMMA Sizes == block_nodes = 31 /\ BLOCK_SIZE = 4096 /\ node_size = 66 /\ image_size = 68
BY DEF block_nodes, BLOCK_SIZE, node_size, image_size

LEMMA ElementFacts ==
  ASSUME NEW e \in Elements
  PROVE  /\ e = [type |-> e.type, idx |-> e.idx, vers |-> e.vers]
         /\ e.type \in {"head", "node", "block"} /\ e.idx \in Nat /\ e.vers \in {0, 1}
         /\ e.type = "head" => e.idx = 0
BY IndexAssumption DEF Elements, Indices

HeadAt(e) == e.type = "head" /\ e.idx = 0 /\ Start(e) = 68 * e.vers /\ End(e) = 68 * e.vers + 68
NodeAt(e, q, r) == /\ e.type = "node" /\ e.idx = 31 * q + r
                   /\ Start(e) = (1 + 62 * q) * 4096 + 132 * r + 66 * e.vers
                   /\ End(e) = (1 + 62 * q) * 4096 + 132 * r + 66 * e.vers + 66
BlockAt(e, p, s) == /\ e.type = "block" /\ 2 * e.idx + e.vers = 61 * p + s
                    /\ Start(e) = (2 + 62 * p + s) * 4096 /\ End(e) = (3 + 62 * p + s) * 4096

LEMMA NodePlace ==
  ASSUME NEW e \in Elements, e.type = "node"
  PROVE  \E q \in Nat, r \in 0..30 : NodeAt(e, q, r)
<1>1. e.idx \in Nat /\ e.vers \in {0, 1}
  BY ElementFacts
<1>2. PICK q \in Nat, r \in 0..30 : q = e.idx \div 31 /\ r = e.idx % 31 /\ e.idx = 31 * q + r
  <2>1. PICK i \in Nat : i = e.idx
    BY <1>1
  <2>2. PICK q \in Nat, r \in 0..30 : q = i \div 31 /\ r = i % 31
    BY Divides
  <2>3. r = i - 31 * q
    BY <2>2, Divides
  <2>4. i = 31 * q + r
    BY <2>3
  <2> QED BY <2>1, <2>2, <2>4
<1>3. node_pbn(e.idx) = 1 + 62 * q
  BY <1>2, Sizes DEF node_pbn
<1>4. get_offs_size(e) = [offs |-> (1 + 62 * q) * 4096 + 132 * r + 66 * e.vers, size |-> 66]
  BY <1>1, <1>2, <1>3, Sizes DEF get_offs_size
<1>5. Start(e) = (1 + 62 * q) * 4096 + 132 * r + 66 * e.vers
  BY <1>4 DEF Start
<1>6. End(e) = (1 + 62 * q) * 4096 + 132 * r + 66 * e.vers + 66
  BY <1>4 DEF End
<1>7. NodeAt(e, q, r)
  BY <1>2, <1>5, <1>6, Zenon DEF NodeAt
<1> QED BY <1>7

LEMMA BlockPlace ==
  ASSUME NEW e \in Elements, e.type = "block"
  PROVE  \E p \in Nat, s \in 0..60 : BlockAt(e, p, s)
<1>1. e.idx \in Nat /\ e.vers \in {0, 1}
  BY ElementFacts
<1>2. PICK b \in Nat : b = 2 * e.idx + e.vers
  BY <1>1
<1>3. PICK p \in Nat, s \in 0..60 : p = b \div 61 /\ b = 61 * p + s
  BY Divides
<1>4. block_nodes * 2 - 1 = 61
  BY Sizes
<1>5. block_pbn(e.idx, e.vers) = 2 + 62 * p + s
  BY <1>2, <1>3, <1>4 DEF block_pbn
<1>6. get_offs_size(e) = [offs |-> (2 + 62 * p + s) * 4096, size |-> 4096]
  BY <1>5, Sizes DEF get_offs_size
<1>7. PICK o : o = (2 + 62 * p + s) * 4096
  OBVIOUS
<1>8. Start(e) = o /\ End(e) = o + 4096
  BY <1>6, <1>7 DEF Start, End
<1>9. o + 4096 = (3 + 62 * p + s) * 4096
  BY <1>7
<1>10. BlockAt(e, p, s)
  BY <1>2, <1>3, <1>7, <1>8, <1>9 DEF BlockAt
<1> QED BY <1>10

LEMMA HeadPlace ==
  ASSUME NEW e \in Elements, e.type = "head"
  PROVE  HeadAt(e)
<1>1. e.idx = 0 /\ e.vers \in {0, 1}
  BY ElementFacts
<1>2. get_offs_size(e) = [offs |-> 68 * e.vers, size |-> 68]
  BY Sizes DEF get_offs_size
<1> QED BY <1>1, <1>2 DEF HeadAt, Start, End

Apart(e, f) == End(e) <= Start(f) \/ End(f) <= Start(e)

(* The place of an element of each kind against one of each other kind.    *)
LEMMA HeadsApart ==
  ASSUME NEW e \in Elements, NEW f \in Elements, e.type = "head", e # f
  PROVE  Apart(e, f)
<1>1. e.vers \in {0, 1} /\ f.vers \in {0, 1} /\ HeadAt(e)
  BY ElementFacts, HeadPlace
<1>2. CASE f.type = "head"
  <2>1. HeadAt(f)
    BY <1>2, HeadPlace
  <2>2. e.vers # f.vers
    BY <1>1, <1>2, <2>1, ElementFacts DEF HeadAt
  <2> QED BY <1>1, <2>1, <2>2 DEF HeadAt, Apart
<1>3. CASE f.type = "node"
  <2>1. PICK q \in Nat, r \in 0..30 : NodeAt(f, q, r)
    BY <1>3, NodePlace
  <2> QED BY <1>1, <2>1 DEF HeadAt, NodeAt, Apart
<1>4. CASE f.type = "block"
  <2>1. PICK p \in Nat, s \in 0..60 : BlockAt(f, p, s)
    BY <1>4, BlockPlace
  <2> QED BY <1>1, <2>1 DEF HeadAt, BlockAt, Apart
<1> QED BY <1>2, <1>3, <1>4, ElementFacts

LEMMA NodesApart ==
  ASSUME NEW e \in Elements, NEW f \in Elements, e.type = "node", f.type = "node", e # f
  PROVE  Apart(e, f)
<1>1. PICK q \in Nat, r \in 0..30 : NodeAt(e, q, r)
  BY NodePlace
<1>2. PICK p \in Nat, s \in 0..30 : NodeAt(f, p, s)
  BY NodePlace
<1>3. e.vers \in {0, 1} /\ f.vers \in {0, 1} /\ (e.idx # f.idx \/ e.vers # f.vers)
  BY ElementFacts
<1>4. CASE q < p
  <2>1. 62 * q + 62 <= 62 * p
    BY <1>4
  <2> QED BY <1>1, <1>2, <1>3, <2>1 DEF NodeAt, Apart
<1>5. CASE p < q
  <2>1. 62 * p + 62 <= 62 * q
    BY <1>5
  <2> QED BY <1>1, <1>2, <1>3, <2>1 DEF NodeAt, Apart
<1>6. CASE p = q
  <2>1. r # s \/ e.vers # f.vers
    BY <1>1, <1>2, <1>3, <1>6 DEF NodeAt
  <2> QED BY <1>1, <1>2, <1>3, <1>6, <2>1 DEF NodeAt, Apart
<1> QED BY <1>4, <1>5, <1>6

LEMMA BlocksRise ==
  ASSUME NEW e \in Elements, NEW f \in Elements, e.type = "block", f.type = "block",
         2 * e.idx + e.vers < 2 * f.idx + f.vers
  PROVE  End(e) <= Start(f)
<1>1. PICK q \in Nat, r \in 0..60 : BlockAt(e, q, r)
  BY BlockPlace
<1>2. PICK p \in Nat, s \in 0..60 : BlockAt(f, p, s)
  BY BlockPlace
<1>3. 61 * q + r < 61 * p + s
  BY <1>1, <1>2 DEF BlockAt
<1>4. 62 * q + r < 62 * p + s
  BY <1>3
<1> QED BY <1>1, <1>2, <1>4 DEF BlockAt

LEMMA NodeAndBlock ==
  ASSUME NEW e \in Elements, NEW f \in Elements, e.type = "node", f.type = "block"
  PROVE  Apart(e, f)
<1>1. PICK q \in Nat, r \in 0..30 : NodeAt(e, q, r)
  BY NodePlace
<1>2. PICK p \in Nat, s \in 0..60 : BlockAt(f, p, s)
  BY BlockPlace
<1>3. e.vers \in {0, 1}
  BY ElementFacts
<1>4. CASE q <= p
  <2>1. 62 * q <= 62 * p
    BY <1>4
  <2> QED BY <1>1, <1>2, <1>3, <2>1 DEF NodeAt, BlockAt, Apart
<1>5. CASE p < q
  <2>1. 62 * p + 62 <= 62 * q
    BY <1>5
  <2> QED BY <1>1, <1>2, <1>3, <2>1 DEF NodeAt, BlockAt, Apart
<1> QED BY <1>4, <1>5

(* No two elements of a file, and no two versions of one, share a byte,    *)
(* however long the file is (get_offs_size): a write to the version that   *)
(* is not committed leaves all others alone.                               *)
THEOREM NothingOverlaps == ElementsApart
<1>1. ASSUME NEW e \in Elements, NEW f \in Elements, e # f PROVE Apart(e, f)
  <2>1. CASE e.type = "head" \/ f.type = "head"
    BY <1>1, <2>1, HeadsApart DEF Apart
  <2>2. CASE e.type = "node" /\ f.type = "node"
    BY <1>1, <2>2, NodesApart
  <2>3. CASE e.type = "block" /\ f.type = "block"
    <3>1. /\ e.idx \in Nat /\ f.idx \in Nat /\ e.vers \in {0, 1} /\ f.vers \in {0, 1}
          /\ e.idx # f.idx \/ e.vers # f.vers
      BY <1>1, <2>3, ElementFacts
    <3>2. 2 * e.idx + e.vers < 2 * f.idx + f.vers \/ 2 * f.idx + f.vers < 2 * e.idx + e.vers
      BY <3>1
    <3> QED BY <2>3, <3>2, BlocksRise DEF Apart
  <2>4. CASE (e.type = "node" /\ f.type = "block") \/ (e.type = "block" /\ f.type = "node")
    BY <2>4, NodeAndBlock DEF Apart
  <2> QED BY <2>1, <2>2, <2>3, <2>4, ElementFacts
<1> QED BY <1>1 DEF ElementsApart, Apart

(* A truncation cuts the file behind what the tree keeps                   *)
(* (ree_fs_ftruncate_internal), however long the file is and wherever the  *)
(* cut is: header, nodes and blocks of the n + 1 nodes that are left stay, *)
(* and no other block does.                                                *)
THEOREM TruncationCutsBehind == CutBehind
<1>1. ASSUME NEW n \in Indices, NEW e \in Elements
      PROVE  /\ e.idx <= n => End(e) <= truncated_size(n)
             /\ e.idx > n /\ e.type = "block" => truncated_size(n) <= Start(e)
  <2>1. PICK f \in Elements : f = [type |-> "block", idx |-> n, vers |-> 1]
    BY DEF Elements
  <2>2. f.type = "block" /\ f.idx = n /\ f.vers = 1 /\ truncated_size(n) = End(f)
    BY <2>1 DEF truncated_size
  <2>3. PICK p \in Nat, s \in 0..60 : BlockAt(f, p, s)
    BY <2>2, BlockPlace
  <2>4. n \in Nat /\ e.idx \in Nat /\ e.vers \in {0, 1}
    BY ElementFacts, IndexAssumption DEF Indices
  <2>5. ASSUME e.idx <= n PROVE End(e) <= End(f)
    <3>1. CASE e.type = "head"
      <4>1. HeadAt(e)
        BY <3>1, HeadPlace
      <4>2. End(e) <= 136 /\ End(f) >= 12288
        BY <2>3, <2>4, <4>1 DEF HeadAt, BlockAt
      <4>3. End(e) \in Nat /\ End(f) \in Nat
        BY <2>3, <2>4, <4>1 DEF HeadAt, BlockAt
      <4> QED BY <4>2, <4>3
    <3>2. CASE e.type = "node"
      <4>1. PICK q \in Nat, r \in 0..30 : NodeAt(e, q, r)
        BY <3>2, NodePlace
      <4>2. 31 * q + r <= n /\ 2 * n + 1 = 61 * p + s
        BY <2>2, <2>3, <2>5, <4>1 DEF NodeAt, BlockAt
      <4>3. 62 * q <= 62 * p + s
        BY <2>4, <4>2
      <4> QED BY <2>3, <2>4, <4>1, <4>3 DEF NodeAt, BlockAt
    <3>3. CASE e.type = "block"
      <4>1. PICK q \in Nat, r \in 0..60 : BlockAt(e, q, r)
        BY <3>3, BlockPlace
      <4>2. 61 * q + r <= 61 * p + s
        BY <2>2, <2>3, <2>4, <2>5, <4>1 DEF BlockAt
      <4>3. 62 * q + r <= 62 * p + s
        BY <4>2
      <4> QED BY <2>3, <4>1, <4>3 DEF BlockAt
    <3> QED BY <3>1, <3>2, <3>3, ElementFacts
  <2>6. ASSUME e.idx > n, e.type = "block" PROVE End(f) <= Start(e)
    <3>1. 2 * f.idx + f.vers < 2 * e.idx + e.vers
      BY <2>2, <2>4, <2>6
    <3> QED BY <2>2, <2>6, <3>1, BlocksRise
  <2> QED BY <2>2, <2>5, <2>6
<1> QED BY <1>1 DEF CutBehind
=============================================================================
