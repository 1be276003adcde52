-------------------------------- MODULE Docker --------------------------------
(***************************************************************************)
(* The Docker daemon as cliDriver (internal/dockerdrv/cli_driver.go) uses   *)
(* it: one container name per service and the decloud network.  Each       *)
(* driver method runs one docker command under a context.                   *)
(***************************************************************************)
EXTENDS Deployments, Naturals

CONSTANTS Foreign,    \* the label of a container decloud did not create
          None,       \* no label, image or environment
          MaxFaults   \* calls that fail and signals that arrive, in a behaviour

ASSUME DockerMarks == Foreign \notin Services /\ None \notin Services /\ None \notin Versions
                      /\ Foreign # None /\ MaxFaults \in Nat

VARIABLES container,  \* container[s]: what docker inspect says of decloud-<s>
          network,    \* the decloud network exists
          cancelled,  \* the command's context: ctrl+c or SIGTERM has arrived
          faults      \* failures and signals so far

dockerVars == <<container, network>>
contextVars == <<cancelled, faults>>

States == {"absent", "created", "running", "restarting", "exited"}

Absent == [st |-> "absent", label |-> None, img |-> None, env |-> None]

Running(s, i, e) == [st |-> "running", label |-> s, img |-> i, env |-> e]

(* A container of somebody else's. *)
Stranger == [st |-> "running", label |-> Foreign, img |-> None, env |-> None]

AContainer == [st : States, label : Services \union {Foreign, None},
               img : Versions \union {None}, env : Versions \union {None}]

DockerTypeOK ==
  /\ container \in [Services -> AContainer]
  /\ network \in BOOLEAN
  /\ cancelled \in BOOLEAN
  /\ faults \in 0..MaxFaults
-----------------------------------------------------------------------------
(* How a call under the command's context can end.  With the context done, *)
(* os/exec does not start the child and the caller gets the context's      *)
(* error.  A child that fails, or that the signal kills, is an ExitError,  *)
(* which is not a cancellation; the daemon may have acted all the same.    *)

Answered == ~cancelled /\ UNCHANGED contextVars

Refused == cancelled /\ UNCHANGED contextVars

CallFails == /\ ~cancelled /\ faults < MaxFaults
             /\ faults' = faults + 1
             /\ cancelled' \in BOOLEAN

Signal == /\ ~cancelled /\ faults < MaxFaults
          /\ faults' = faults + 1
          /\ cancelled' = TRUE

(* The cleanup context is never cancelled by a signal.  A call under it    *)
(* fails when it times out, when the daemon refuses, or when a terminal's  *)
(* ctrl+c, which goes to the whole process group, hits the docker child.   *)
CleanupDone == UNCHANGED contextVars

CleanupFails == /\ faults < MaxFaults
                /\ faults' = faults + 1
                /\ UNCHANGED cancelled
-----------------------------------------------------------------------------
(* What the daemon does.  docker stop leaves a container that is not up as *)
(* it is; docker rm without -f refuses one that is; docker run refuses a   *)
(* name in use, and creates the container before it starts it.  Stop and   *)
(* Remove of an absent container report ErrContainerNotFound, which every  *)
(* caller takes for success.                                               *)

IsUp(k) == k.st \in {"running", "restarting"}

AfterStop(k) == IF IsUp(k) THEN [k EXCEPT !.st = "exited"] ELSE k

Removable(k) == ~IsUp(k)

AfterRun(k, new) == IF k.st = "absent" THEN new ELSE k

HalfRun(k, new) == {k, AfterRun(k, [new EXCEPT !.st = "created"]), AfterRun(k, new)}

SetContainer(s, k) == container' = [container EXCEPT ![s] = k] /\ UNCHANGED network
=============================================================================
