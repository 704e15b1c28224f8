----------------------------- MODULE AtomicFile ------------------------------
(***************************************************************************)
(* What fs_htree.h promises of a secure storage file: "On-disk data        *)
(* structures are duplicated to make updates atomic, an update is          *)
(* finalized to disk with tee_fs_htree_sync_to_storage()".  A file is a    *)
(* sequence of blocks.  Whoever has it open works on a copy; a commit      *)
(* replaces the contents by the copy at once, and a copy that is dropped,  *)
(* by a close, an error or a crash, leaves the contents as they were.      *)
(***************************************************************************)
EXTENDS Integers, Sequences

CONSTANTS Data,      \* what a block can hold
          NoFile,    \* there is nothing to open
          Closed     \* nobody has the file open

VARIABLES content,   \* the blocks an open finds, or NoFile
          work       \* the copy of whoever has it open, or Closed

vars == <<content, work>>

Init == content = NoFile /\ work = Closed

Create == /\ content = NoFile
          /\ work' = <<>>
          /\ UNCHANGED content

Open == /\ work = Closed /\ content # NoFile
        /\ work' = content
        /\ UNCHANGED content

Write == /\ work # Closed
         /\ \E i \in 1..Len(work) + 1, d \in Data :
              work' = [j \in 1..Len(work) \cup {i} |-> IF j = i THEN d ELSE work[j]]
         /\ UNCHANGED content

Truncate == /\ work # Closed
            /\ \E n \in 0..Len(work) : work' = SubSeq(work, 1, n)
            /\ UNCHANGED content

(* The commit may be the last thing that is done with the copy.            *)
Commit == /\ work # Closed
          /\ content' = work
          /\ work' \in {work, Closed}

Drop == work # Closed /\ work' = Closed /\ UNCHANGED content

Next == Create \/ Open \/ Write \/ Truncate \/ Commit \/ Drop

Spec == Init /\ [][Next]_vars
=============================================================================
