-------------------------------- MODULE Deploy --------------------------------
(***************************************************************************)
(* decloud deploy service (internal/deploy/service.go), step by step, over *)
(* the Docker daemon, the registry files and the ingress, with ctrl+c,     *)
(* failing calls and death of the process at every step, one operator at   *)
(* the keyboard.  The step names are those of the audit log.  The same     *)
(* process runs decloud caddy reload, which is the tail of a deploy.       *)
(*                                                                         *)
(* A deploy is identified by its id, which stands for the image it builds, *)
(* the environment it captures and the hostnames it was asked for.  An id  *)
(* nothing refers to any more is used again.                               *)
(***************************************************************************)
EXTENDS Docker, RegistryFiles, Caddyfile, ExitCodes, FiniteSets

CONSTANTS MaxCrashes

ASSUME DeployBounds == MaxCrashes \in Nat /\ BadHosts \subseteq Hosts

VARIABLES pc,        \* the step the command is at
          req,       \* the request: the service and the id of this deploy
          hostsOf,   \* hostsOf[i]: the hostnames deploy i was asked for
          prev,      \* the previous registration as loaded: image and environment, or None
          code,      \* the exit code of the error being cleaned up after
          unlisted,  \* the services whose files this command's List failed to read
          exit,      \* the exit code of the last command
          crashes,
          probed,    \* history: deploys whose readiness probe passed
          old,       \* history: the container as the command found it
          halfRun,   \* history: this command's docker run failed and left a container
          hurt       \* history: a call of this command's cleanup failed

commandVars == <<pc, req, hostsOf, prev, code, old, unlisted>>
histVars == <<probed, halfRun, hurt>>
vars == <<dockerVars, contextVars, fileVars, caddyVars, commandVars, exit, crashes, histVars>>

CodesOfDeploy == {ExitOK, ExitConfigError, ExitEnvCaptureFail, ExitBuildFail, ExitRunFail,
              ExitReadinessFail, ExitCaddyReloadFail, ExitInternal, ExitInterrupted, Killed, Pending}

ForwardSteps == {"network", "envcap", "load_prev", "build", "stop_old", "inspect_old", "remove_old",
                 "orphan_check", "orphan_stop", "orphan_remove", "run_new", "readiness",
                 "save_config", "save_secrets"}
CleanupSteps == {"cleanup_config", "cleanup_stop", "cleanup_remove", "restore_old"}
IngressSteps == {"generate", "validate", "rename", "reload"}

S == req.svc
I == req.id

TypeOK ==
  /\ DockerTypeOK
  /\ FilesTypeOK
  /\ disk \in (SUBSET (Hosts \X Services)) \union {NoConfig}
  /\ tmp  \in (SUBSET (Hosts \X Services)) \union {NoConfig}
  /\ live \in (SUBSET (Hosts \X Services)) \union {Down}
  /\ pc \in ForwardSteps \union CleanupSteps \union IngressSteps \union {"idle"}
  /\ req \in [svc : Services, id : Versions \union {None}]
  /\ hostsOf \in [Versions -> SUBSET Hosts]
  /\ prev \in [img : Versions \union {None}, env : Versions \union {None}]
  /\ code \in CodesOfDeploy
  /\ exit \in CodesOfDeploy
  /\ crashes \in 0..MaxCrashes
  /\ probed \in SUBSET Versions
  /\ old \in AContainer
  /\ unlisted \in SUBSET Services
  /\ halfRun \in BOOLEAN /\ hurt \in BOOLEAN

NoPrev == [img |-> None, env |-> None]
hasPrev == prev # NoPrev

(* A host with nothing deployed yet; some names may be taken by containers *)
(* that are not decloud's.                                                 *)
Init ==
  /\ container \in [Services -> {Absent, Stranger}]
  /\ network = FALSE /\ cancelled = FALSE /\ faults = 0 /\ crashes = 0
  /\ config = [s \in Services |-> NoFile] /\ secrets = [s \in Services |-> NoFile]
  /\ secDir = [s \in Services |-> FALSE] /\ litter = [s \in Services |-> FALSE]
  /\ disk = NoConfig /\ tmp = NoConfig /\ live = Down
  /\ pc = "idle" /\ prev = NoPrev /\ code = Pending /\ exit = ExitOK
  /\ req \in [svc : Services, id : {None}]
  /\ hostsOf = [i \in Versions |-> {}]
  /\ probed = {} /\ old = Absent /\ unlisted = {} /\ halfRun = FALSE /\ hurt = FALSE
-----------------------------------------------------------------------------
At(step) == pc = step

Goto(step) == pc' = step /\ UNCHANGED <<req, hostsOf, prev, code, old, unlisted, exit>>

(* The command ends; its locals go. *)
Return(c) == /\ pc' = "idle"
             /\ exit' = c
             /\ code' = Pending /\ prev' = NoPrev /\ old' = Absent /\ unlisted' = {}
             /\ req' = [svc |-> S, id |-> None]
             /\ UNCHANGED hostsOf

CleanUpAfter(c, step) == pc' = step /\ code' = c /\ UNCHANGED <<req, hostsOf, prev, old, unlisted, exit>>

(* A file-system call that fails. *)
FileFails == faults < MaxFaults /\ faults' = faults + 1 /\ UNCHANGED cancelled

(* The exit code of a docker call that failed with c: a child that the     *)
(* signal caught after it had done its work reports the cancellation.      *)
Classified(c) == {c} \union (IF cancelled' THEN {ExitInterrupted} ELSE {})

OnlyContext == UNCHANGED <<dockerVars, fileVars, caddyVars, crashes, histVars>>
OnlyDocker == UNCHANGED <<fileVars, caddyVars, crashes>>

InUse == UNION {{config[s], secrets[s], container[s].img, container[s].env} : s \in Services}

(* The deploys whose hostnames a Caddyfile can still be made of. *)
Recorded == {config[s] : s \in Services}

(* runDeployService, and the start of Deploy: a fresh id. *)
BeginDeploy(s, hosts) ==
  /\ At("idle")
  /\ Versions \ InUse # {}
  /\ LET i == CHOOSE v \in Versions \ InUse : TRUE
     IN  /\ req' = [svc |-> s, id |-> i]
         /\ hostsOf' = [j \in Versions |-> IF j = i THEN hosts
                                           ELSE IF j \in Recorded THEN hostsOf[j] ELSE {}]
         /\ probed' = probed \intersect Recorded
  /\ pc' = "network"
  /\ old' = container[s] /\ halfRun' = FALSE /\ hurt' = FALSE
  /\ cancelled' = FALSE /\ exit' = Pending
  /\ UNCHANGED <<dockerVars, faults, fileVars, caddyVars, prev, code, unlisted, crashes>>

NetworkEnsure ==
  /\ At("network")
  /\ \/ Answered /\ network' = TRUE /\ Goto("envcap")
     \/ Refused /\ UNCHANGED network /\ Return(ExitRunFail)
     \/ CallFails /\ network' \in {network, TRUE} /\ Return(ExitRunFail)
  /\ UNCHANGED <<container, fileVars, caddyVars, crashes, histVars>>

(* Without an env script there is nothing to run and the context is not    *)
(* looked at; one that is gone or unreadable is found before bash runs.    *)
EnvCapture ==
  /\ At("envcap")
  /\ \/ UNCHANGED contextVars /\ Goto("load_prev")
     \/ (Refused \/ CallFails) /\ \E c \in {ExitEnvCaptureFail, ExitConfigError} : Return(c)
  /\ OnlyContext

(* Mutant: the error of Load is not looked at. *)
LoadPrevUnchecked ==
  /\ At("load_prev")
  /\ prev' = [img |-> config[S], env |-> secrets[S]]
  /\ pc' = "build"
  /\ UNCHANGED <<contextVars, req, hostsOf, code, old, unlisted, exit>>
  /\ OnlyContext

LoadPrev ==
  /\ At("load_prev")
  /\ LoadVerdict(S) # "Malformed"
  /\ prev' = IF Loadable(S) THEN [img |-> config[S], env |-> secrets[S]] ELSE NoPrev
  /\ pc' = "build"
  /\ UNCHANGED <<contextVars, req, hostsOf, code, old, unlisted, exit>>
  /\ OnlyContext

(* A registration that is there and cannot be loaded, or cannot be read.   *)
LoadPrevFails ==
  /\ At("load_prev")
  /\ \/ LoadVerdict(S) = "Malformed" /\ UNCHANGED contextVars
     \/ FileFails
  /\ \E c \in {ExitConfigError, ExitInternal} : Return(c)
  /\ OnlyContext

Build ==
  /\ At("build")
  /\ \/ Answered /\ Goto(IF hasPrev THEN "stop_old" ELSE "orphan_check")
     \/ (Refused \/ CallFails) /\ Return(ExitBuildFail)
  /\ OnlyContext
-----------------------------------------------------------------------------
(* Redeploy: the previous container goes, by name. *)
StopOld ==
  /\ At("stop_old")
  /\ \/ Answered /\ SetContainer(S, AfterStop(container[S])) /\ Goto("remove_old")
     \/ Refused /\ UNCHANGED dockerVars /\ Goto("inspect_old")
     \/ /\ CallFails
        /\ \E k \in {container[S], AfterStop(container[S])} : SetContainer(S, k)
        /\ Goto("inspect_old")
  /\ OnlyDocker /\ UNCHANGED histVars

(* Stop failed.  Only an answer that says "running" ends the deploy here.  *)
InspectOld ==
  /\ At("inspect_old")
  /\ \/ Answered /\ container[S].st = "running" /\ Return(ExitRunFail)
     \/ Answered /\ container[S].st # "running" /\ Goto("remove_old")
     \/ (Refused \/ CallFails) /\ Goto("remove_old")
  /\ OnlyContext

(* docker rm, for the previous container and for an orphan. *)
RemoveThen(next) ==
  \/ Answered /\ Removable(container[S]) /\ SetContainer(S, Absent) /\ Goto(next)
  \/ Answered /\ ~Removable(container[S]) /\ UNCHANGED dockerVars /\ Return(ExitRunFail)
  \/ Refused /\ UNCHANGED dockerVars /\ Return(ExitInterrupted)
  \/ /\ CallFails
     /\ \E k \in {container[S]} \union (IF Removable(container[S]) THEN {Absent} ELSE {}) :
          SetContainer(S, k)
     /\ \E c \in Classified(ExitRunFail) : Return(c)

RemoveOld ==
  /\ At("remove_old")
  /\ RemoveThen("run_new")
  /\ OnlyDocker /\ UNCHANGED histVars

(* Fresh deploy: a container of that name is removed if its label is ours. *)
OwnLabelSkipped(k, s) == TRUE     \* mutant: any container of that name goes
OwnLabelRefused(k, s) == FALSE    \* mutant: orphans of our own are refused too
OwnLabel(k, s) == k.label = s

OrphanCheck ==
  /\ At("orphan_check")
  /\ \/ Answered /\ container[S].st = "absent" /\ Goto("run_new")
     \/ /\ Answered /\ container[S].st # "absent"
        /\ IF OwnLabel(container[S], S) THEN Goto("orphan_stop") ELSE Return(ExitRunFail)
     \/ Refused /\ Return(ExitInterrupted)
     \/ CallFails /\ \E c \in Classified(ExitRunFail) : Return(c)
  /\ OnlyContext

OrphanStop ==
  /\ At("orphan_stop")
  /\ \/ Answered /\ SetContainer(S, AfterStop(container[S])) /\ Goto("orphan_remove")
     \/ Refused /\ UNCHANGED dockerVars /\ Return(ExitInterrupted)
     \/ /\ CallFails
        /\ \E k \in {container[S], AfterStop(container[S])} : SetContainer(S, k)
        /\ \E c \in Classified(ExitRunFail) : Return(c)
  /\ OnlyDocker /\ UNCHANGED histVars

OrphanRemove ==
  /\ At("orphan_remove")
  /\ RemoveThen("run_new")
  /\ OnlyDocker /\ UNCHANGED histVars
-----------------------------------------------------------------------------
New == Running(S, I, I)

RollBackNothing(c) == Return(c)   \* mutant: no rollback when docker run fails
RollBackRun(c) == IF hasPrev THEN CleanUpAfter(c, "restore_old") ELSE Return(c)

RunNew ==
  /\ At("run_new")
  /\ \/ /\ Answered
        /\ IF container[S].st = "absent" /\ network
           THEN SetContainer(S, New) /\ Goto("readiness")
           ELSE UNCHANGED dockerVars /\ RollBackRun(ExitRunFail)
        /\ UNCHANGED halfRun
     \/ Refused /\ UNCHANGED <<dockerVars, halfRun>> /\ RollBackRun(ExitInterrupted)
     \/ /\ CallFails
        /\ \E k \in HalfRun(container[S], New) : SetContainer(S, k)
        /\ halfRun' = (container' # container)
        /\ \E c \in Classified(ExitRunFail) : RollBackRun(c)
  /\ OnlyDocker /\ UNCHANGED <<probed, hurt>>

(* probe.Wait.  It gives up at the deadline, or when the context is done;  *)
(* the last probe's own 2 s limit makes the first look like the second     *)
(* (Readiness.tla).                                                        *)
ReadinessPasses ==
  /\ At("readiness")
  /\ Answered /\ container[S].st = "running"
  /\ probed' = probed \union {I}
  /\ Goto("save_config")
  /\ UNCHANGED <<dockerVars, fileVars, caddyVars, crashes, halfRun, hurt>>

(* Mutant: a failed probe is logged and the deploy goes on. *)
ReadinessIgnored ==
  /\ At("readiness")
  /\ Answered /\ Goto("save_config")
  /\ OnlyContext

ReadinessFails ==
  /\ At("readiness")
  /\ \/ Answered /\ \E c \in {ExitReadinessFail, ExitInterrupted} : CleanUpAfter(c, "cleanup_stop")
     \/ Refused /\ \E c \in {ExitReadinessFail, ExitInterrupted} : CleanUpAfter(c, "cleanup_stop")
  /\ OnlyContext

(* Store.Save does not look at the context.  The steps inside it are       *)
(* Registry.tla's; here its two renames, between which the process can die.*)
SaveConfig ==
  /\ At("save_config")
  /\ \/ WriteConfig(S, I) /\ Goto("save_secrets") /\ UNCHANGED contextVars
     \/ FileFails /\ CleanUpAfter(ExitInternal, "cleanup_stop") /\ UNCHANGED fileVars
  /\ UNCHANGED <<dockerVars, caddyVars, crashes, histVars>>

SaveSecrets ==
  /\ At("save_secrets")
  /\ \/ /\ secDir' = [secDir EXCEPT ![S] = TRUE]
        /\ secrets' = [secrets EXCEPT ![S] = I]
        /\ UNCHANGED <<config, litter, contextVars>>
        /\ Goto("generate")
     \/ /\ FileFails
        /\ UNCHANGED fileVars \/ MakeSecretsDir(S)
        /\ CleanUpAfter(ExitInternal, "cleanup_config")
  /\ UNCHANGED <<dockerVars, caddyVars, crashes, histVars>>
-----------------------------------------------------------------------------
(* Cleanup, on a context of its own; what fails there is logged only. *)
CleanupConfig ==
  /\ At("cleanup_config")
  /\ \/ RemoveConfig(S) /\ CleanupDone /\ UNCHANGED hurt
     \/ FileFails /\ UNCHANGED fileVars /\ hurt' = TRUE
  /\ Goto("cleanup_stop")
  /\ UNCHANGED <<dockerVars, caddyVars, crashes, probed, halfRun>>

CleanupStop ==
  /\ At("cleanup_stop")
  /\ \/ CleanupDone /\ SetContainer(S, AfterStop(container[S])) /\ UNCHANGED hurt
     \/ /\ CleanupFails /\ hurt' = TRUE
        /\ \E k \in {container[S], AfterStop(container[S])} : SetContainer(S, k)
  /\ Goto("cleanup_remove")
  /\ OnlyDocker /\ UNCHANGED <<probed, halfRun>>

CleanupRemove ==
  /\ At("cleanup_remove")
  /\ \/ CleanupDone /\ Removable(container[S]) /\ SetContainer(S, Absent) /\ UNCHANGED hurt
     \/ CleanupDone /\ ~Removable(container[S]) /\ UNCHANGED <<dockerVars, hurt>>
     \/ CleanupFails /\ UNCHANGED dockerVars /\ hurt' = TRUE
  /\ IF hasPrev THEN Goto("restore_old") ELSE Return(code)
  /\ OnlyDocker /\ UNCHANGED <<probed, halfRun>>

(* restoreOldContainer: the image and the environment as loaded. *)
RestoredNew == Running(S, I, prev.env)   \* mutant: the image that has just failed
Restored == Running(S, prev.img, prev.env)

RestoreOld ==
  /\ At("restore_old")
  /\ \/ CleanupDone /\ SetContainer(S, AfterRun(container[S], Restored)) /\ UNCHANGED hurt
     \/ /\ CleanupFails /\ hurt' = TRUE
        /\ \E k \in HalfRun(container[S], Restored) : SetContainer(S, k)
  /\ Return(code)
  /\ OnlyDocker /\ UNCHANGED <<probed, halfRun>>
-----------------------------------------------------------------------------
(* regenerateAndReload: the site blocks of every service List can load. *)
Sites == UNION {hostsOf[config[s]] \X {s} : s \in {r \in Services : Loadable(r)}}

(* ... less those of the services it has lost.                             *)
Listed(lost) == {b \in Sites : b[2] \notin lost}

(* The temporary file is written, from what List returned.                 *)
WriteListed(lost) ==
  /\ tmp' = Listed(lost) /\ unlisted' = lost
  /\ pc' = "validate"
  /\ UNCHANGED <<req, hostsOf, prev, code, old, exit>>

(* List, the stub (whose failure is only logged), the temporary file.  Of  *)
(* List's reads only the ReadDir can make it fail: a service one of whose  *)
(* files it fails to read it passes over, without a word in the log.       *)
Generate ==
  /\ At("generate")
  /\ \/ disk' = WithStub(disk) /\ WriteListed({}) /\ UNCHANGED contextVars
     \/ /\ FileFails
        /\ \E lost \in SUBSET {s \in Services : Loadable(s)} : WriteListed(lost)
        /\ disk' \in {disk, WithStub(disk)}
     \/ FileFails /\ UNCHANGED <<disk, tmp>> /\ Return(ExitInternal)
     \/ FileFails /\ disk' = WithStub(disk) /\ UNCHANGED tmp /\ Return(ExitCaddyReloadFail)
  /\ UNCHANGED <<dockerVars, fileVars, live, crashes, histVars>>

(* Mutant: the verdict of caddy validate is not looked at. *)
ValidateUnchecked ==
  /\ At("validate")
  /\ (Answered \/ Refused \/ CallFails)
  /\ Goto("rename")
  /\ UNCHANGED <<dockerVars, fileVars, caddyVars, crashes, histVars>>

(* Mutant: a refused Caddyfile takes the new container down. *)
ValidateRollsBack ==
  /\ At("validate")
  /\ \/ /\ Answered /\ live # Down /\ Accepts(tmp)
        /\ Goto("rename") /\ UNCHANGED caddyVars
     \/ /\ ~(live # Down /\ Accepts(tmp)) \/ cancelled
        /\ tmp' = NoConfig /\ UNCHANGED <<disk, live, contextVars>>
        /\ CleanUpAfter(ExitCaddyReloadFail, "cleanup_stop")
  /\ UNCHANGED <<dockerVars, fileVars, crashes, histVars>>

Validate ==
  /\ At("validate")
  /\ \/ /\ Answered /\ live # Down /\ Accepts(tmp)
        /\ Goto("rename") /\ UNCHANGED caddyVars
     \/ /\ \/ Answered /\ (live = Down \/ ~Accepts(tmp))
           \/ Refused
           \/ CallFails
        /\ tmp' = NoConfig /\ UNCHANGED <<disk, live>>
        /\ Return(ExitCaddyReloadFail)
  /\ UNCHANGED <<dockerVars, fileVars, crashes, histVars>>

Rename ==
  /\ At("rename")
  /\ \/ /\ disk' = tmp /\ tmp' = NoConfig
        /\ Goto("reload") /\ UNCHANGED contextVars
     \/ FileFails /\ Return(ExitCaddyReloadFail) /\ UNCHANGED <<disk, tmp>>
  /\ UNCHANGED <<dockerVars, fileVars, live, crashes, histVars>>

(* Mutant: the error of caddy reload is dropped. *)
ReloadUnchecked ==
  /\ At("reload")
  /\ \/ Answered /\ live # Down /\ live' = disk
     \/ (Refused \/ CallFails) /\ UNCHANGED live
  /\ Return(ExitOK)
  /\ UNCHANGED <<dockerVars, fileVars, disk, tmp, crashes, histVars>>

Reload ==
  /\ At("reload")
  /\ \/ Answered /\ live # Down /\ live' = disk /\ Return(ExitOK)
     \/ /\ \/ Answered /\ live = Down /\ UNCHANGED live
           \/ Refused /\ UNCHANGED live
           \/ CallFails /\ live' \in {live, IF live = Down THEN Down ELSE disk}
        /\ Return(ExitCaddyReloadFail)
  /\ UNCHANGED <<dockerVars, fileVars, disk, tmp, crashes, histVars>>

(* decloud caddy reload. *)
BeginReload ==
  /\ At("idle")
  /\ pc' = "generate"
  /\ cancelled' = FALSE /\ halfRun' = FALSE /\ hurt' = FALSE /\ exit' = Pending
  /\ UNCHANGED <<dockerVars, faults, fileVars, caddyVars, req, hostsOf, prev, code, old, unlisted,
                 crashes, probed>>
-----------------------------------------------------------------------------
(* The world around the process. *)

CtrlC ==
  /\ ~At("idle")
  /\ Signal
  /\ UNCHANGED <<dockerVars, fileVars, caddyVars, commandVars, exit, crashes, histVars>>

(* kill -9, or the host goes down: no cleanup runs. *)
Crash ==
  /\ ~At("idle")
  /\ crashes < MaxCrashes
  /\ crashes' = crashes + 1
  /\ Return(Killed)
  /\ \/ UNCHANGED fileVars
     \/ At("save_secrets") /\ MakeSecretsDir(S)
  /\ UNCHANGED <<dockerVars, contextVars, caddyVars, histVars>>

(* decloud caddy up: (re)start on the Caddyfile as it is. *)
CaddyUp ==
  /\ At("idle") /\ live = Down
  /\ network' = TRUE
  /\ disk' = WithStub(disk)
  /\ Accepts(disk')
  /\ live' = disk'
  /\ UNCHANGED <<container, contextVars, fileVars, tmp, commandVars, exit, crashes, histVars>>

CaddyStops ==
  /\ live # Down
  /\ faults < MaxFaults /\ faults' = faults + 1
  /\ live' = Down
  /\ UNCHANGED <<dockerVars, cancelled, fileVars, disk, tmp, commandVars, exit, crashes, histVars>>

(* The operator runs docker rm -f and docker run by hand. *)
ByHand(s) ==
  /\ At("idle")
  /\ faults < MaxFaults /\ faults' = faults + 1
  /\ SetContainer(s, Stranger)
  /\ UNCHANGED <<cancelled, fileVars, caddyVars, commandVars, exit, crashes, histVars>>

(* ... or edits a registration, or its mode, into something Load rejects.   *)
Tamper(s) ==
  /\ At("idle") /\ Loadable(s)
  /\ FileFails
  /\ secrets' = [secrets EXCEPT ![s] = Broken]
  /\ UNCHANGED <<dockerVars, config, secDir, litter, caddyVars, commandVars, exit, crashes, histVars>>

Step ==
  \/ NetworkEnsure \/ EnvCapture \/ LoadPrev \/ LoadPrevFails \/ Build
  \/ StopOld \/ InspectOld \/ RemoveOld \/ OrphanCheck \/ OrphanStop \/ OrphanRemove
  \/ RunNew \/ ReadinessPasses \/ ReadinessFails \/ SaveConfig \/ SaveSecrets
  \/ CleanupConfig \/ CleanupStop \/ CleanupRemove \/ RestoreOld
  \/ Generate \/ Validate \/ Rename \/ Reload

Next ==
  \/ \E s \in Services, hosts \in SUBSET Hosts : BeginDeploy(s, hosts)
  \/ BeginReload
  \/ Step
  \/ CtrlC \/ Crash \/ CaddyUp \/ CaddyStops
  \/ \E s \in Services : ByHand(s) \/ Tamper(s)

Spec == Init /\ [][Next]_vars
-----------------------------------------------------------------------------
(* Properties *)

Ends == ~At("idle") /\ pc' = "idle"
Deploying == I # None

(* Only a deploy that has answered its readiness probe is ever registered, *)
(* so no later start, rollback or Caddyfile is made from one that failed   *)
(* its probe or was interrupted in it.                                     *)
OnlyProbedRegistered == \A s \in Services : config[s] \in Versions => config[s] \in probed

(* No Caddyfile that caddy validate refuses reaches the disk, so none is   *)
(* waiting there to be loaded when Caddy starts.                           *)
DiskAcceptable == disk # NoConfig => Accepts(disk)

(* Exit 0 means done: this deploy's image runs with this deploy's          *)
(* environment, both files say so, and the Caddyfile on disk and the       *)
(* configuration Caddy serves are those of the registry as it now is, but  *)
(* for the services, this one perhaps among them, that List passed over    *)
(* because a read of their files failed: they are not routed, and neither  *)
(* the exit code nor the log says so.                                      *)
ZeroMeansServed ==
  [][Ends /\ exit' = ExitOK =>
       /\ disk' = {b \in Sites' : b[2] \notin unlisted} /\ live' = disk'
       /\ Deploying => /\ container'[S] = New
                       /\ config'[S] = I /\ secrets'[S] = I]_vars

(* Exit 60 means what its message says: the service is registered and its  *)
(* new container running, only the routing is not up to date.              *)
SixtyMeansRegistered ==
  [][Ends /\ exit' = ExitCaddyReloadFail /\ Deploying =>
       /\ container'[S] = New
       /\ config'[S] = I /\ secrets'[S] = I]_vars

(* The publication of the Caddyfile, its ways to fail and Caddy's own      *)
(* comings and goings amount to the abstract Publication, in which what    *)
(* the registry asks for, as far as List could read it, is checked and put *)
(* in place in one step.                                                   *)
Promise == INSTANCE Publication WITH want <- Listed(unlisted)

Publishes == Promise!Spec

(* A deploy is whole or gone when its command ends by itself: its          *)
(* container is there and both files register it, or none of the three is  *)
(* its doing.  Two things are excepted.  A docker run that failed, or was  *)
(* interrupted, after it had created the container leaves it behind,       *)
(* labelled, unregistered and told of by 40 or 130: no path removes it.    *)
(* And a cleanup call that fails is only logged; it may leave a part.      *)
WholeOrGone ==
  [][Ends /\ Deploying /\ exit' # Killed =>
       LET c == container'[S]
           registers == {config'[S], secrets'[S]}
       IN  \/ c.img = I /\ registers = {I}
           \/ c.img # I /\ I \notin registers
           \/ /\ halfRun' /\ c.img = I /\ c.label = S /\ I \notin registers
              /\ exit' \in {ExitRunFail, ExitInterrupted}
           \/ hurt' /\ exit' \notin {ExitOK, ExitCaddyReloadFail}]_vars

(* A redeploy that fails after it has taken the previous container down    *)
(* starts it again with the image and environment it was registered with,  *)
(* and the registration still says so or is gone altogether: a signal that *)
(* cancels the command does not keep the rollback from finishing.  Two     *)
(* things do.  When it was docker run itself that failed half-way, the     *)
(* container it had created holds the name and the previous one cannot be  *)
(* run; and a cleanup call can fail.  The previous secrets are there in    *)
(* any case.                                                               *)
RollbackRestores ==
  [][Ends /\ At("restore_old") /\ exit' # Killed =>
       /\ secrets'[S] = prev.env
       /\ \/ /\ config'[S] \in {prev.img, NoFile}
             /\ \/ container'[S] = Running(S, prev.img, prev.env)
                \/ halfRun' /\ container'[S].img = I /\ container'[S].label = S
          \/ hurt']_vars

(* A service that was up when its redeploy began is up when the redeploy   *)
(* has failed, but for two windows: a redeploy that cannot remove the      *)
(* container it has already stopped leaves the service down, and so can    *)
(* one whose docker run fails half-way, because the rollback then finds    *)
(* the name taken.  (Or the rollback's own calls fail.)                    *)
OutageWindows ==
  [][Ends /\ hasPrev /\ exit' \notin {ExitOK, Killed} /\ old.st = "running" =>
       \/ container'[S].st = "running"
       \/ At("remove_old")
       \/ At("restore_old") /\ (halfRun' \/ hurt')]_vars

(* A container decloud did not create is never stopped or removed by a     *)
(* service's first deploy.                                                 *)
FreshDeploySparesForeign ==
  [][\A s \in Services : /\ container[s].label = Foreign /\ container'[s] # container[s]
                         /\ ~At("idle")
                         => hasPrev]_vars
-----------------------------------------------------------------------------
(* Fairness: calls return and the program takes its next step; an operator *)
(* who has not given up deploys again, and brings Caddy up when it is      *)
(* down; an application that is probed again and again is ready sometimes. *)
Fairness ==
  /\ WF_vars(Step)
  /\ SF_vars(ReadinessPasses)
  /\ SF_vars(CaddyUp)
  /\ SF_vars(\E s \in Services, hosts \in SUBSET Hosts : BeginDeploy(s, hosts))

FairSpec == Spec /\ Fairness

Served(s) ==
  /\ Loadable(s) /\ container[s] = Running(s, config[s], secrets[s])
  /\ live = Sites

(* Deploying again recovers from whatever a deploy left behind when calls  *)
(* failed, signals came or the process died, at any step: the service is   *)
(* up and routed in the end, as long as its name is not taken by a         *)
(* container that is not decloud's, its files have not been edited into    *)
(* something Load rejects, and no registered service, this one or another, *)
(* keeps a hostname Caddy refuses or two of them claim: then every deploy  *)
(* ends in 60.                                                             *)
RetryConverges ==
  \A s \in Services :
    <>[](container[s].label # Foreign /\ LoadVerdict(s) # "Malformed" /\ Accepts(Sites)) => []<>Served(s)
=============================================================================
