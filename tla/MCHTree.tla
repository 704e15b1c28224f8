------------------------------- MODULE MCHTree -------------------------------
(* HTree.tla for a small file, and FileLayout.tla for one with a third     *)
(* group of nodes.  The properties of the layout are about constants: TLC  *)
(* evaluates them before it starts.                                        *)
EXTENDS HTree, FileLayout

ASSUME LayoutIsSound == ElementsApart /\ CutBehind
=============================================================================
