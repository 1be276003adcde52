------------------------------ MODULE Lifecycle ------------------------------
(***************************************************************************)
(* The commands that do not deploy (internal/deploy/lifecycle.go):         *)
(* unregister, start, stop, restart, logs and caddy reload, one at a time, *)
(* on whatever deploys, crashes and the operator's own docker commands     *)
(* have left; and a decloud status that lists every service while they     *)
(* run.                                                                    *)
(*                                                                         *)
(* The ingress is abstracted to the services it has site blocks for, and   *)
(* its publication, which Deploy has step by step, to its outcomes.        *)
(***************************************************************************)
EXTENDS Docker, RegistryFiles, ExitCodes

CONSTANTS Down,       \* decloud-caddy is not running
          Spoilt,     \* the deploys whose hostnames Caddy cannot parse
          Bystanders  \* services nobody runs a command for, or deploys: a bound

ASSUME LifecycleBounds == Spoilt \subseteq Versions /\ Bystanders \subseteq Services

VARIABLES disk,       \* the services the Caddyfile routes to
          live,       \* those Caddy routes to, or Down
          pc, cmd, svc,
          loaded,     \* the registration as loaded: image and environment
          exit,       \* the exit code of the last command
          was,        \* history: the container as the command found it
          trouble,    \* history: a call of this command failed, or somebody pruned
          wpc, wsvc,  \* where decloud status is, and at which service
          todo,       \* the names it has still to look at
          rows,       \* rows[s]: the state it prints for s, or "none"
          seen        \* history: what Load would have made of each service while it ran

routeVars == <<disk, live>>
commandVars == <<cmd, svc, loaded, was>>
watchVars == <<wpc, wsvc, todo, rows>>
vars == <<dockerVars, contextVars, fileVars, routeVars, pc, commandVars, exit, trouble, watchVars, seen>>

Commands == {"unregister", "start", "stop", "restart", "logs", "reload"}
Unloaded == [img |-> None, env |-> None]

(* What List can load; regenerateAndReload routes to these. *)
Sites == {s \in Services : Loadable(s)}

(* What caddy validate makes of a Caddyfile with site blocks for these.    *)
Accepts(sites) == \A s \in sites : config[s] \notin Spoilt

Handled == Services \ Bystanders

(* The state decloud status has to print for a service. *)
Shown(st) == IF st = "exited" THEN "stopped" ELSE st

Rows == {"none", "config-only", "error", "stopped"} \union States

TypeOK ==
  /\ DockerTypeOK /\ FilesTypeOK
  /\ disk \in SUBSET Services /\ live \in (SUBSET Services) \union {Down}
  /\ pc \in {"idle", "load", "stop", "remove", "delete_secrets", "delete_dir", "delete_config",
             "publish", "inspect", "docker_start", "docker_run", "logs"}
  /\ cmd \in Commands \union {"none"} /\ svc \in Services
  /\ loaded \in [img : Versions \union {None}, env : Versions \union {None}]
  /\ exit \in {ExitOK, ExitConfigError, ExitRunFail, ExitCaddyReloadFail, ExitInternal, Killed, Pending}
  /\ was \in AContainer /\ trouble \in BOOLEAN
  /\ wpc \in {"idle", "next", "config", "stat", "read", "inspect"}
  /\ wsvc \in IF wpc \in {"idle", "next"} THEN {None} ELSE Services
  /\ todo \subseteq Services
  /\ rows \in [Services -> Rows] /\ seen \in [Services -> SUBSET {"NotFound", "SecretsMissing", "Malformed", "ok"}]

(* What is left of one service: nothing; registered, or half, or by a file *)
(* somebody has broken; its container running, exited, half-run, removed,  *)
(* dying again and again, or of a deploy that died before it was           *)
(* registered.  The others are registered, and their containers gone.      *)
Init ==
  /\ \E odd \in Handled, u, v, w \in Versions, left \in BOOLEAN :
     \E files \in {<<NoFile, NoFile>>, <<v, v>>, <<v, NoFile>>, <<v, Broken>>},
        box \in {Absent, Stranger, Running(odd, v, v), [Running(odd, v, v) EXCEPT !.st = "exited"],
                 [Running(odd, w, w) EXCEPT !.st = "created"], Running(odd, w, w),
                 [Running(odd, v, v) EXCEPT !.st = "restarting"]} :
       /\ container = [s \in Services |-> IF s = odd THEN box ELSE Absent]
       /\ config    = [s \in Services |-> IF s = odd THEN files[1] ELSE u]
       /\ secrets   = [s \in Services |-> IF s = odd THEN files[2] ELSE u]
       /\ litter    = [s \in Services |-> s = odd /\ left]
       /\ secDir    = [s \in Services |-> secrets[s] # NoFile \/ litter[s]]
  /\ disk \in {Sites, {}} /\ Accepts(disk) /\ live \in {disk, Down}
  /\ network = TRUE /\ cancelled = FALSE /\ faults = 0
  /\ pc = "idle" /\ cmd = "none" /\ svc \in Handled
  /\ loaded = Unloaded /\ exit = ExitOK /\ was = Absent /\ trouble = FALSE
  /\ wpc = "idle" /\ wsvc = None /\ todo = {} /\ rows = [s \in Services |-> "none"]
  /\ seen = [s \in Services |-> {}]
-----------------------------------------------------------------------------
At(step) == pc = step

Goto(step) == pc' = step /\ UNCHANGED <<commandVars, exit>>

Return(err) == /\ pc' = "idle"
               /\ exit' = ExitCodeFor(err)
               /\ cmd' = "none" /\ loaded' = Unloaded /\ was' = Absent
               /\ UNCHANGED svc

Failed == trouble' = TRUE
Fine == UNCHANGED trouble
FileFails == faults < MaxFaults /\ faults' = faults + 1 /\ UNCHANGED cancelled /\ Failed

(* A docker call that does not get through: the signal came before it, or  *)
(* it fails, having done its work or not.                                  *)
NotDone(undone, done) ==
  /\ Failed
  /\ \/ Refused /\ SetContainer(svc, undone)
     \/ CallFails /\ \E k \in {undone, done} : SetContainer(svc, k)

OnlyContext == UNCHANGED <<dockerVars, fileVars, routeVars>>
OnlyDocker == UNCHANGED <<fileVars, routeVars>>

First == [unregister |-> "load", start |-> "load", stop |-> "stop", restart |-> "stop",
          logs |-> "logs", reload |-> "publish"]

Begin(c, s) ==
  /\ At("idle") /\ s \in Handled
  /\ cmd' = c /\ svc' = s /\ pc' = First[c]
  /\ was' = container[s] /\ exit' = Pending
  /\ cancelled' = FALSE /\ trouble' = FALSE
  /\ UNCHANGED <<dockerVars, faults, fileVars, routeVars, loaded>>

(* Mutant: what Load rejects is taken for a mistake on the command line. *)
LoadErrorsUsage(s) == IF LoadVerdict(s) = "ok" THEN {} ELSE {{"Usage"}}

(* What errors.Is finds in the error of Load. *)
LoadErrors(s) == CASE LoadVerdict(s) \in {"NotFound", "SecretsMissing"} -> {{LoadVerdict(s)}}
                   [] LoadVerdict(s) = "Malformed" -> {{"SchemaMismatch"}, {"PermissionMode"}, Plain}
                   [] OTHER -> {}

AfterLoad == IF cmd = "unregister" THEN "stop" ELSE "inspect"

(* Mutant: unregister, too, refuses a service without secrets. *)
LoadStrict ==
  /\ At("load")
  /\ \/ /\ LoadVerdict(svc) = "ok"
        /\ pc' = AfterLoad /\ loaded' = [img |-> config[svc], env |-> secrets[svc]]
        /\ UNCHANGED <<cmd, svc, was, exit, contextVars>> /\ Fine
     \/ \E err \in LoadErrors(svc) : Return(err) /\ UNCHANGED contextVars /\ Fine
  /\ OnlyContext

(* Unregister goes on when only the secrets are missing. *)
Load ==
  /\ At("load")
  /\ \/ /\ LoadVerdict(svc) = "ok"
        /\ pc' = AfterLoad /\ loaded' = [img |-> config[svc], env |-> secrets[svc]]
        /\ UNCHANGED <<cmd, svc, was, exit, contextVars>> /\ Fine
     \/ /\ LoadVerdict(svc) = "SecretsMissing" /\ cmd = "unregister"
        /\ Goto("stop") /\ UNCHANGED contextVars /\ Fine
     \/ /\ \E err \in LoadErrors(svc) :
             (cmd = "unregister" => err # {"SecretsMissing"}) /\ Return(err)
        /\ UNCHANGED contextVars /\ Fine
     \/ FileFails /\ Return(Plain)
  /\ OnlyContext
-----------------------------------------------------------------------------
(* Mutant: restart forgets to start. *)
StopStrict ==
  /\ At("stop")
  /\ \/ /\ Answered /\ Fine
        /\ SetContainer(svc, AfterStop(container[svc]))
        /\ IF cmd = "unregister" THEN Goto("remove") ELSE Return(NoError)
     \/ /\ NotDone(container[svc], AfterStop(container[svc]))
        /\ IF cmd = "unregister" THEN Goto("remove") ELSE Return({"Run"})
  /\ OnlyDocker

(* docker stop: unregister logs its failure, restart takes an absent       *)
(* container for stopped.                                                  *)
Stop ==
  /\ At("stop")
  /\ \/ /\ Answered /\ Fine
        /\ SetContainer(svc, AfterStop(container[svc]))
        /\ CASE cmd = "unregister" -> Goto("remove")
             [] cmd = "restart"    -> Goto("load")
             [] cmd = "stop"       -> Return(IF container[svc].st = "absent" THEN {"NotFound"} ELSE NoError)
     \/ /\ NotDone(container[svc], AfterStop(container[svc]))
        /\ IF cmd = "unregister" THEN Goto("remove") ELSE Return({"Run"})
  /\ OnlyDocker

(* docker rm, its failure logged. *)
Remove ==
  /\ At("remove")
  /\ \/ Answered /\ Removable(container[svc]) /\ Fine /\ SetContainer(svc, Absent)
     \/ Answered /\ ~Removable(container[svc]) /\ Failed /\ UNCHANGED dockerVars
     \/ NotDone(container[svc], IF Removable(container[svc]) THEN Absent ELSE container[svc])
  /\ Goto("delete_secrets")
  /\ OnlyDocker

(* Mutant: the config is removed before the secrets. *)
DeleteConfigFirst ==
  /\ At("delete_secrets")
  /\ config' = [config EXCEPT ![svc] = NoFile] /\ secrets' = [secrets EXCEPT ![svc] = NoFile]
  /\ Goto("delete_dir") /\ UNCHANGED <<contextVars, secDir, litter, dockerVars, routeVars>> /\ Fine

(* Store.Delete, which does not look at the context. *)
DeleteSecrets ==
  /\ At("delete_secrets")
  /\ \/ RemoveSecrets(svc) /\ Goto("delete_dir") /\ UNCHANGED contextVars /\ Fine
     \/ FileFails /\ Return(Plain) /\ UNCHANGED fileVars
  /\ UNCHANGED <<dockerVars, routeVars>>

DeleteDir ==
  /\ At("delete_dir")
  /\ \/ /\ secDir[svc] => DirEmpty(svc)
        /\ RemoveSecretsDir(svc) /\ Goto("delete_config") /\ UNCHANGED contextVars /\ Fine
     \/ /\ secDir[svc] /\ ~DirEmpty(svc)
        /\ Return(Plain) /\ UNCHANGED <<contextVars, fileVars>> /\ Fine
     \/ FileFails /\ Return(Plain) /\ UNCHANGED fileVars
  /\ UNCHANGED <<dockerVars, routeVars>>

DeleteConfig ==
  /\ At("delete_config")
  /\ \/ RemoveConfig(svc) /\ Goto("publish") /\ UNCHANGED contextVars /\ Fine
     \/ FileFails /\ Return(Plain) /\ UNCHANGED fileVars
  /\ UNCHANGED <<dockerVars, routeVars>>

(* Mutant: the Caddyfile is reloaded without being generated anew. *)
PublishStale ==
  /\ At("publish")
  /\ Answered /\ live # Down
  /\ live' = disk /\ UNCHANGED disk /\ Fine
  /\ Return(NoError)
  /\ UNCHANGED <<dockerVars, fileVars>>

(* regenerateAndReload: what List could read is validated, put in place    *)
(* and loaded, or Caddy is down or refuses it and the old Caddyfile stays; *)
(* a call fails, before the rename or after it; the registry cannot be     *)
(* listed.  A service one of whose files fails to be read List passes over.*)
Publish ==
  /\ At("publish")
  /\ \/ \E read \in SUBSET Sites :
          /\ (read = Sites /\ Answered /\ Fine) \/ (FileFails /\ ~cancelled)
          /\ IF live # Down /\ Accepts(read)
             THEN disk' = read /\ live' = read /\ Return(NoError)
             ELSE UNCHANGED routeVars /\ Return({"CaddyReload"})
     \/ Refused /\ Failed /\ UNCHANGED routeVars /\ Return({"CaddyReload"})
     \/ /\ CallFails /\ Failed
        /\ \/ UNCHANGED routeVars
           \/ live # Down /\ Accepts(Sites) /\ disk' = Sites /\ live' \in {live, Sites}
        /\ Return({"CaddyReload"})
     \/ FileFails /\ UNCHANGED routeVars /\ Return(Plain)
  /\ UNCHANGED <<dockerVars, fileVars>>
-----------------------------------------------------------------------------
(* Mutant: a stopped container is run again. *)
InspectRuns ==
  /\ At("inspect")
  /\ Answered /\ Fine
  /\ IF container[svc].st = "running" THEN Return(NoError) ELSE Goto("docker_run")
  /\ OnlyContext

(* Start: three states of the container, three ways on. *)
Inspect ==
  /\ At("inspect")
  /\ \/ /\ Answered /\ Fine
        /\ CASE container[svc].st = "running" -> Return(NoError)
             [] container[svc].st = "exited"  -> Goto("docker_start")
             [] OTHER                         -> Goto("docker_run")
     \/ (Refused \/ CallFails) /\ Failed /\ Return({"Run"})
  /\ OnlyContext

AfterStart(k) == [k EXCEPT !.st = "running"]

(* docker start of a container that has gone meanwhile reports so. *)
DockerStart ==
  /\ At("docker_start")
  /\ \/ /\ Answered /\ Fine
        /\ IF container[svc].st # "absent" /\ network
           THEN SetContainer(svc, AfterStart(container[svc])) /\ Return(NoError)
           ELSE UNCHANGED dockerVars /\ Return({"Run"})
     \/ /\ NotDone(container[svc], IF container[svc].st # "absent" /\ network
                                   THEN AfterStart(container[svc]) ELSE container[svc])
        /\ Return({"Run"})
  /\ OnlyDocker

(* Mutant: the container is run with no environment. *)
FreshEmpty == Running(svc, loaded.img, None)
Fresh == Running(svc, loaded.img, loaded.env)

(* Without its network docker run leaves a container it cannot start. *)
Made == IF network THEN Fresh ELSE [Fresh EXCEPT !.st = "created"]

DockerRun ==
  /\ At("docker_run")
  /\ \/ /\ Answered /\ Fine
        /\ SetContainer(svc, AfterRun(container[svc], Made))
        /\ Return(IF container[svc].st = "absent" /\ network THEN NoError ELSE {"Run"})
     \/ /\ Failed /\ Return({"Run"})
        /\ \/ Refused /\ UNCHANGED dockerVars
           \/ CallFails /\ \E k \in HalfRun(container[svc], Made) : SetContainer(svc, k)
  /\ OnlyDocker

Logs ==
  /\ At("logs")
  /\ \/ /\ Answered /\ Fine
        /\ Return(IF container[svc].st = "absent" THEN {"NotFound"} ELSE NoError)
     \/ (Refused \/ CallFails) /\ Failed /\ Return({"Run"})
  /\ OnlyContext

Step == \/ Load \/ Stop \/ Remove \/ DeleteSecrets \/ DeleteDir \/ DeleteConfig \/ Publish
        \/ Inspect \/ DockerStart \/ DockerRun \/ Logs
-----------------------------------------------------------------------------
(* decloud status without a name: ListNames, and for each of them a Load,  *)
(* which reads the config, looks whether the secrets are there, and then   *)
(* reads them, and an inspect.  What fails becomes an "error" row; so does *)
(* a secrets file that goes between the look and the read.                 *)

WatchStarts ==
  /\ wpc = "idle"
  /\ wpc' = "next" /\ todo' = ListedNames
  /\ UNCHANGED <<wsvc, rows, faults>>

WatchNext ==
  /\ wpc = "next" /\ UNCHANGED faults
  /\ \/ /\ todo # {} /\ wpc' = "config"
        /\ wsvc' = (CHOOSE s \in todo : TRUE)     \* ListNames has sorted them
        /\ todo' = todo \ {wsvc'} /\ UNCHANGED rows
     \/ /\ todo = {} /\ wpc' = "idle" /\ UNCHANGED <<wsvc, todo>>
        /\ rows' = [s \in Services |-> "none"]

Row(r) == rows' = [rows EXCEPT ![wsvc] = r] /\ wpc' = "next" /\ wsvc' = None /\ UNCHANGED todo
RowIs(r) == Row(r) /\ UNCHANGED faults
Onward(step) == wpc' = step /\ UNCHANGED <<wsvc, todo, rows, faults>>

WatchConfig ==
  /\ wpc = "config"
  /\ CASE ConfigVerdict(wsvc) = "NotFound"  -> RowIs("none")
       [] ConfigVerdict(wsvc) = "Malformed" -> RowIs("error")
       [] ConfigVerdict(wsvc) = "ok"        -> Onward("stat")

(* os.Stat of the directory and of the file, and their modes. *)
WatchStat ==
  /\ wpc = "stat"
  /\ \/ SecretsVerdict(wsvc) = "SecretsMissing" /\ RowIs("config-only")
     \/ SecretsVerdict(wsvc) = "Malformed" /\ RowIs("error")
     \/ SecretsVerdict(wsvc) # "SecretsMissing" /\ Onward("read")

WatchRead ==
  /\ wpc = "read"
  /\ IF SecretsVerdict(wsvc) = "ok" THEN Onward("inspect") ELSE RowIs("error")

WatchInspect == wpc = "inspect" /\ RowIs(Shown(container[wsvc].st))

WatchFails ==
  /\ wpc \in {"config", "stat", "read", "inspect"}
  /\ faults < MaxFaults /\ faults' = faults + 1
  /\ Row("error")

Watch == /\ WatchStarts \/ WatchNext \/ WatchConfig \/ WatchStat \/ WatchRead \/ WatchInspect \/ WatchFails
         /\ UNCHANGED <<dockerVars, cancelled, fileVars, routeVars, pc, commandVars, exit, trouble>>
-----------------------------------------------------------------------------
(* The world around the two. *)

OnlyWorld == UNCHANGED <<pc, commandVars, exit>>
Fault == faults < MaxFaults /\ faults' = faults + 1 /\ UNCHANGED cancelled

CtrlC == ~At("idle") /\ Signal /\ OnlyContext /\ OnlyWorld /\ Fine

Crash == /\ ~At("idle") /\ Fault /\ OnlyContext /\ Fine
         /\ pc' = "idle" /\ exit' = Killed
         /\ cmd' = "none" /\ loaded' = Unloaded /\ was' = Absent /\ UNCHANGED svc

(* A deploy that ends with 0, or with 60 because Caddy is down or refuses  *)
(* the hostnames.                                                          *)
Deployed(s, v) ==
  /\ At("idle") /\ s \in Handled /\ LoadVerdict(s) # "Malformed"
  /\ Loadable(s) \/ container[s].label # Foreign
  /\ container' = [container EXCEPT ![s] = Running(s, v, v)] /\ network' = TRUE
  /\ config' = [config EXCEPT ![s] = v] /\ secrets' = [secrets EXCEPT ![s] = v]
  /\ secDir' = [secDir EXCEPT ![s] = TRUE] /\ UNCHANGED litter
  /\ IF live # Down /\ Accepts(Sites)' THEN disk' = Sites' /\ live' = Sites' ELSE UNCHANGED routeVars
  /\ UNCHANGED contextVars /\ OnlyWorld /\ Fine

(* docker kill, or a host that comes back with its containers stopped; or  *)
(* the application dies, which has docker start it again and again.        *)
Exits(s) ==
  /\ container[s].st = "running" /\ Fault /\ Failed
  /\ \E st \in {"exited", "restarting"} : SetContainer(s, [container[s] EXCEPT !.st = st])
  /\ OnlyDocker /\ OnlyWorld

Revives(s) ==
  /\ container[s].st = "restarting" /\ UNCHANGED contextVars /\ Failed
  /\ SetContainer(s, AfterStart(container[s]))
  /\ OnlyDocker /\ OnlyWorld

(* docker system prune: what is not up goes, and a network nobody is on. *)
Prune ==
  /\ Fault /\ Failed
  /\ container' = [s \in Services |-> IF IsUp(container[s]) THEN container[s] ELSE Absent]
  /\ network' = (network /\ (live # Down \/ \E s \in Services : IsUp(container[s])))
  /\ OnlyDocker /\ OnlyWorld

CaddyStops == /\ live # Down /\ Fault /\ live' = Down
              /\ UNCHANGED <<dockerVars, fileVars, disk>> /\ OnlyWorld /\ Fine

CaddyUp == /\ At("idle") /\ live = Down
           /\ live' = disk /\ network' = TRUE
           /\ UNCHANGED <<container, contextVars, fileVars, disk>> /\ OnlyWorld /\ Fine

World == /\ \/ CtrlC \/ Crash \/ Prune \/ CaddyStops \/ CaddyUp
            \/ \E s \in Services : Exits(s) \/ Revives(s) \/ \E v \in Versions : Deployed(s, v)
         /\ UNCHANGED watchVars

(* While a listing runs, what Load would say is written down. *)
Observe == seen' = [s \in Services |-> IF wpc' = "idle" THEN {}
                                       ELSE (IF wpc = "idle" THEN {LoadVerdict(s)} ELSE seen[s])
                                            \union {LoadVerdict(s)'}]

Next ==
  /\ \/ (Step \/ \E c \in Commands, s \in Services : Begin(c, s)) /\ UNCHANGED watchVars
     \/ Watch
     \/ World
  /\ Observe

Spec == Init /\ [][Next]_vars
-----------------------------------------------------------------------------
(* Properties *)

Ends(c) == ~At("idle") /\ pc' = "idle" /\ cmd = c /\ exit' # Killed

(* What a listing says of a service's registration was so at some moment   *)
(* of the listing, although its reads run beside a command that removes    *)
(* the files one by one: "config-only" is printed only if the secrets were *)
(* missing, a container's state only if the registration could be loaded,  *)
(* and none is left out that was there all the time.  An "error" row means *)
(* a broken file or a call that failed, or else secrets that were there    *)
(* when Load looked and gone when it read them.                            *)
Reason == [r \in Rows |-> CASE r = "none"        -> "NotFound"
                            [] r = "config-only" -> "SecretsMissing"
                            [] r = "error"       -> "Malformed"
                            [] OTHER             -> "ok"]

RowsWereTrue ==
  [][wpc = "next" /\ wpc' = "idle" =>
       \A s \in Services :
         \/ Reason[rows[s]] \in seen[s]
         \/ rows[s] = "error" /\ (faults > 0 \/ {"ok", "SecretsMissing"} \subseteq seen[s])]_vars

(* An unregister that exits 0 or 60 has removed all three files, and after *)
(* 0 nothing routes to the service, and what is routed is what is          *)
(* registered, less what List failed to read; its container is gone too,   *)
(* unless docker failed on the way, which the exit code does not tell.     *)
UnregisterRemoves ==
  [][Ends("unregister") /\ exit' \in {ExitOK, ExitCaddyReloadFail} =>
       /\ config'[svc] = NoFile /\ secrets'[svc] = NoFile /\ ~secDir'[svc]
       /\ exit' = ExitOK => /\ svc \notin live' /\ live' \subseteq Sites' /\ disk' = live'
                            /\ live' = Sites' \/ trouble'
       /\ container'[svc].st = "absent" \/ trouble']_vars

(* Start and restart that exit 0 leave the service running; a container    *)
(* that had to be made again has the registered image and environment.     *)
ZeroMeansRunning ==
  [][(Ends("start") \/ Ends("restart")) /\ exit' = ExitOK =>
       /\ container'[svc].st = "running"
       /\ was.st = "absent" /\ ~trouble' => container'[svc] = Running(svc, config[svc], secrets[svc])]_vars

(* A restart that nothing fails gives back the container it stopped, if    *)
(* the service can be loaded.  If it cannot, the restart ends with an      *)
(* error and leaves the service down: Stop does not look at the registry,  *)
(* Start does.                                                             *)
RestartKeepsUp ==
  [][Ends("restart") /\ was.st = "running" /\ ~trouble' =>
       IF Loadable(svc) THEN exit' = ExitOK /\ container'[svc] = was
                        ELSE exit' # ExitOK /\ container'[svc] = AfterStop(was)]_vars
-----------------------------------------------------------------------------
Alone(action) == action /\ UNCHANGED watchVars /\ Observe

(* Fairness: a command takes its next step, and an operator who wants a    *)
(* service up, or gone, does not give up.                                  *)
Fairness ==
  /\ WF_vars(Alone(Step))
  /\ SF_vars(Alone(CaddyUp))
  /\ \A c \in {"start", "unregister", "reload"}, s \in Handled : SF_vars(Alone(Begin(c, s)))

FairSpec == Spec /\ Fairness

(* start, repeated, brings a registered service up, unless a docker run    *)
(* that died half-way, or an application that keeps dying, keeps its name  *)
(* (start runs docker run again, which refuses) or the network is gone     *)
(* (only a deploy or caddy up makes it).                                   *)
StartConverges ==
  \A s \in Handled :
    <>[](Loadable(s) /\ network /\ container[s].st \notin {"created", "restarting"}) => []<>(container[s].st = "running")

(* unregister and caddy reload, repeated, remove a service and its route   *)
(* from whatever was left of it, unless its files are broken, a dead       *)
(* Save's temporary file keeps the secrets directory, or another service   *)
(* keeps a hostname Caddy refuses: then each of them ends in 60 and the    *)
(* route stays.                                                            *)
UnregisterConverges ==
  \A s \in Handled :
    <>[](LoadVerdict(s) # "Malformed" /\ ~litter[s] /\ Accepts(Sites \ {s}))
      => []<>(LoadVerdict(s) = "NotFound" /\ (live = Down \/ s \notin live))
=============================================================================
