------------------------------ MODULE MCLifecycle ------------------------------
(* Lifecycle on small sets of services and deploys. *)
EXTENDS Lifecycle, TLC

(* A bound: listings are followed only while Caddy is down and has no      *)
(* routes, the network is there, and no command but unregister runs: a     *)
(* listing reads the registry and the containers, which unregister,        *)
(* deploys, containers that exit and docker prune change beside it.        *)
ListingsApart == wpc' # "idle" => /\ live' = Down /\ disk' = {} /\ network'
                                  /\ cmd' \in {"none", "unregister"}
=============================================================================
