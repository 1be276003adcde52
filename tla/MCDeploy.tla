------------------------------- MODULE MCDeploy -------------------------------
(* Deploy on small sets of services, deploys and hostnames. *)
EXTENDS Deploy, TLC
=============================================================================
