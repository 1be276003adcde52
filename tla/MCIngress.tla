------------------------------- MODULE MCIngress -------------------------------
(* Ingress on small sets of services, hostnames and publishers, which are  *)
(* interchangeable where no fairness is asked of them.                     *)
EXTENDS Ingress, TLC

Interchangeable == Permutations(Publishers)
=============================================================================
