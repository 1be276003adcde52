------------------------------ MODULE Deployments ------------------------------
(* What every part of the system refers to by name. *)
CONSTANTS Services,   \* service names
          Versions    \* deploys; a deploy stands for its image, environment and registration
=============================================================================
