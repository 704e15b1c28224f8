------------------------------ MODULE FileLayout ------------------------------
(***************************************************************************)
(* Where the elements of a hash tree lie in the file of the normal world   *)
(* (get_offs_size of core/tee/tee_ree_fs.c), and where the file is cut off *)
(* by a truncation.  HTree.tla has a variable for the headers, one for the *)
(* nodes and one for the blocks, of each element two versions: a write to  *)
(* one leaves the others alone only if no two of them share a byte.        *)
(***************************************************************************)
EXTENDS Integers

CONSTANT MaxIndex    \* the index of the last node and the last block

ASSUME IndexAssumption == MaxIndex \in Nat

Indices == 0..MaxIndex

BLOCK_SIZE == 4096
node_size == 66      \* sizeof(struct tee_fs_htree_node_image)
image_size == 68     \* sizeof(struct tee_fs_htree_image)
block_nodes == BLOCK_SIZE \div (node_size * 2)

(* The two versions of each element; there is one header.                  *)
Elements == [type : {"head"}, idx : {0}, vers : {0, 1}]
            \cup [type : {"node", "block"}, idx : Indices, vers : {0, 1}]

(* The physical block of a data block, and of the nodes with node idx.     *)
block_pbn(idx, vers) ==
  LET bidx == 2 * idx + vers IN 2 + bidx + bidx \div (block_nodes * 2 - 1)

node_pbn(idx) == 1 + (idx \div block_nodes) * block_nodes * 2

get_offs_size(e) ==
  CASE e.type = "head" -> [offs |-> image_size * e.vers, size |-> image_size]
    [] e.type = "node" -> [offs |-> node_pbn(e.idx) * BLOCK_SIZE
                                    + 2 * node_size * (e.idx % block_nodes)
                                    + node_size * e.vers,
                           size |-> node_size]
    [] e.type = "block" -> [offs |-> block_pbn(e.idx, e.vers) * BLOCK_SIZE,
                            size |-> BLOCK_SIZE]

Start(e) == get_offs_size(e).offs
End(e) == get_offs_size(e).offs + get_offs_size(e).size

(* ree_fs_ftruncate_internal: where the file is cut off when the new       *)
(* length, rounded up, is n blocks.                                        *)
truncated_size(n) == End([type |-> "block", idx |-> n, vers |-> 1])

-----------------------------------------------------------------------------
(* No two elements, and no two versions of one, share a byte of the file:  *)
(* get_offs_size puts the blocks around the nodes without touching them.   *)
ElementsApart ==
  \A e, f \in Elements : e # f => End(e) <= Start(f) \/ End(f) <= Start(e)

(* ree_fs_ftruncate_internal, with a new length of n blocks rounded up:    *)
(* the header and, in both versions, every node that tee_fs_htree_truncate *)
(* leaves in the tree (it rounds down) and its block stay in the file; the *)
(* blocks behind block n go.                                               *)
CutBehind ==
  \A n \in Indices : \A e \in Elements :
    /\ e.idx <= n => End(e) <= truncated_size(n)
    /\ e.idx > n /\ e.type = "block" => truncated_size(n) <= Start(e)
=============================================================================
