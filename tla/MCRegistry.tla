------------------------------ MODULE MCRegistry ------------------------------
(* Registry on small sets of services, versions and processes. *)
EXTENDS Registry, TLC

Symmetry == Permutations(Services) \union Permutations(Versions) \union Permutations(Clients)

(* svc[c] is read only while c is inside one service; elsewhere its last   *)
(* value is dead, and states that differ in it alone are taken for one.    *)
LiveSvc == [c \in Clients |->
              IF pc[c] \in {"idle", "list_names", "list_next", "returned"} THEN NoFile ELSE svc[c]]
View == <<fileVars, pc, LiveSvc, ver, todo, out, faults, crashes, histVars>>
=============================================================================
