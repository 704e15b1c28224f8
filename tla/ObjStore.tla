------------------------------ MODULE ObjStore -------------------------------
(***************************************************************************)
(* What documentation/secure_storage.md promises of the trusted storage:   *)
(* the operations that modify it (create, write, rename, delete) are       *)
(* atomic, "either the entire operation completes successfully or no write *)
(* is done".  The store maps names to contents; one operation at a time    *)
(* is under way and takes effect at most once, on the objects it names;    *)
(* one that is interrupted has done all or nothing.                        *)
(*                                                                         *)
(* An operation that took effect may still report an error: it completed,  *)
(* and the normal world, which writes the disk, said it had not.           *)
(***************************************************************************)
EXTENDS Naturals

CONSTANTS Names, None, NoReq

VARIABLES store,   \* content of each object, or None
          req      \* operation under way, or NoReq

vars == <<store, req>>

Kinds == {"create", "write", "remove", "rename"}

Init == req = NoReq

(* Whether the operation has taken effect, and the result it will report.  *)
Begin == /\ req = NoReq
         /\ req' \in [kind : Kinds, name : Names, to : Names, done : {FALSE}, res : {"none"}]
         /\ UNCHANGED store

Put(n, c) == store' = [store EXCEPT ![n] = c]

(* A create or a write leaves contents that no object had before.          *)
Effect == \/ /\ req.kind \in {"create", "write"}
             /\ store'[req.name] \notin {store[n] : n \in Names} \cup {None}
             /\ Put(req.name, store'[req.name])
          \/ req.kind = "remove" /\ Put(req.name, None)
          \/ /\ req.kind = "rename" /\ store[req.to] = None
             /\ store' = [store EXCEPT ![req.to] = store[req.name],
                                       ![req.name] = None]

Pending == req # NoReq /\ req.res = "none"

Commit == /\ Pending /\ Effect
          /\ \E r \in {"ok", "error"} : req' = [req EXCEPT !.done = TRUE, !.res = r]

Fail == Pending /\ req' = [req EXCEPT !.res = "error"] /\ UNCHANGED store

Return == /\ req # NoReq /\ req.res # "none"
          /\ req' = NoReq
          /\ UNCHANGED store

Crash == req' = NoReq /\ UNCHANGED store

Next == Crash \/ Begin \/ Commit \/ Fail \/ Return

Spec == Init /\ [][Next]_vars
=============================================================================
