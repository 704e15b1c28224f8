------------------------------ MODULE MCStorage ------------------------------
(* Storage.tla for two threads with objects, one enumeration and two names.*)
EXTENDS Storage, TLC

CONSTANTS t1, t2, e1, a, b
MCThreads == {t1, t2}
MCEnums == {e1}
MCNames == {a, b}
MCFlagSets == {{"WRITE", "META"}, {"READ", "SHARE_READ"}}
(* One object, another having been deleted; or two.                        *)
MCInitDirs ==
  LET E(n, k) == [name |-> n, num |-> k, hash |-> 1]
  IN {<<Free, E(a, 1)>>, <<E(a, 0), E(b, 1)>>}
MCMishapSets == {{"taken", "rename", "ahead", "replaced", "create"}, {"enum"}}
Symm == Permutations(MCThreads) \cup Permutations(MCNames)

(* The mishaps by which the store is lost are met from one object, and two *)
(* objects are kept without them.                                          *)
MCInit == Init /\ (Sound <=> Cardinality(Live(dirf)) = 2)
MCSpec == MCInit /\ [][Next]_vars
=============================================================================
