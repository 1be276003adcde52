---------------------------- MODULE LifecycleProofs ----------------------------
(***************************************************************************)
(* Theorems about Lifecycle, for any services and versions and any number  *)
(* of failures.                                                            *)
(***************************************************************************)
EXTENDS Lifecycle, ExitCodesProofs

(* Which command takes which steps. *)
CmdAt ==
  /\ pc = "idle" => cmd = "none"
  /\ pc = "load" => cmd \in {"unregister", "start", "restart"}
  /\ pc = "stop" => cmd \in {"unregister", "stop", "restart"}
  /\ pc \in {"remove", "delete_secrets", "delete_dir", "delete_config"} => cmd = "unregister"
  /\ pc = "publish" => cmd \in {"unregister", "reload"}
  /\ pc \in {"inspect", "docker_start", "docker_run"} => cmd \in {"start", "restart"}
  /\ pc = "logs" => cmd = "logs"

(* What unregister has removed when it gets to a step. *)
Removed == cmd = "unregister" =>
  /\ pc \in {"delete_secrets", "delete_dir", "delete_config", "publish"} =>
       container[svc].st = "absent" \/ trouble
  /\ pc \in {"delete_dir", "delete_config", "publish"} => secrets[svc] = NoFile
  /\ pc \in {"delete_config", "publish"} => ~secDir[svc]
  /\ pc = "publish" => config[svc] = NoFile

(* What start and restart know of the registration and the container. *)
Known ==
  /\ pc \in {"inspect", "docker_start", "docker_run"} =>
       loaded = [img |-> config[svc], env |-> secrets[svc]] /\ Loadable(svc)
  /\ cmd \in {"start", "restart"} /\ ~trouble =>
       /\ container[svc] = IF cmd = "start" \/ pc = "stop" THEN was ELSE AfterStop(was)
       /\ pc = "docker_start" => container[svc].st = "exited"
       /\ pc = "docker_run" => container[svc].st \notin {"running", "exited"}
       /\ was.st = "running" => network

(* A container that is up is so on a network. *)
NetUp == (\E s \in Services : IsUp(container[s])) => network

(* The command writes no secrets without a config, and no broken config. *)
Whole == \A s \in Services : config[s] # Broken /\ (secrets[s] # NoFile => config[s] # NoFile)

CommandInv == CmdAt /\ Removed /\ Known /\ NetUp /\ Whole

(* A row that has been printed was true at some moment of the listing; one *)
(* in the making rests on what was true.                                   *)
RowSeen(s) ==
  \/ Reason[rows[s]] \in seen[s]
  \/ rows[s] = "error" /\ (faults > 0 \/ {"ok", "SecretsMissing"} \subseteq seen[s])

(* Secrets that Load has found there: if they are gone since, they were    *)
(* gone alone for a moment.                                                *)
Found(s) ==
  /\ "ok" \in seen[s] \/ "Malformed" \in seen[s]
  /\ SecretsVerdict(s) = "SecretsMissing" => "SecretsMissing" \in seen[s]

ListInv ==
  /\ wpc = "idle" => rows = [s \in Services |-> "none"]
  /\ wpc # "idle" => \A s \in Services :
       /\ LoadVerdict(s) \in seen[s]
       /\ s \notin todo /\ (wpc = "next" \/ s # wsvc) => RowSeen(s)
       /\ s \in todo => rows[s] = "none"
  /\ wpc \in {"config", "stat", "read", "inspect"} => wsvc \notin todo
  /\ wpc = "stat" => ConfigVerdict(wsvc) = "ok" \/ "SecretsMissing" \in seen[wsvc]
  /\ wpc = "read" => Found(wsvc)
  /\ wpc = "inspect" => "ok" \in seen[wsvc]

IInv == TypeOK /\ CommandInv /\ ListInv
-----------------------------------------------------------------------------
(* TypeOK in parts: what the command shares, what it knows, the listing's. *)
SharedTypeOK ==
  /\ DockerTypeOK /\ FilesTypeOK
  /\ disk \in SUBSET Services /\ live \in (SUBSET Services) \union {Down}
  /\ trouble \in BOOLEAN

LocalTypeOK ==
  /\ pc \in {"idle", "load", "stop", "remove", "delete_secrets", "delete_dir", "delete_config",
             "publish", "inspect", "docker_start", "docker_run", "logs"}
  /\ cmd \in Commands \union {"none"} /\ svc \in Services
  /\ loaded \in [img : Versions \union {None}, env : Versions \union {None}]
  /\ exit \in {ExitOK, ExitConfigError, ExitRunFail, ExitCaddyReloadFail, ExitInternal, Killed, Pending}
  /\ was \in AContainer

CommandTypeOK == SharedTypeOK /\ LocalTypeOK

ListTypeOK ==
  /\ wpc \in {"idle", "next", "config", "stat", "read", "inspect"}
  /\ wsvc \in IF wpc \in {"idle", "next"} THEN {None} ELSE Services
  /\ todo \subseteq Services
  /\ rows \in [Services -> Rows]

SeenTypeOK == seen \in [Services -> SUBSET {"NotFound", "SecretsMissing", "Malformed", "ok"}]

LEMMA TypeSplit == TypeOK <=> CommandTypeOK /\ ListTypeOK /\ SeenTypeOK
BY DEF TypeOK, CommandTypeOK, SharedTypeOK, LocalTypeOK, ListTypeOK, SeenTypeOK

LEMMA Verdicts ==
  \A s : /\ ConfigVerdict(s) \in {"NotFound", "Malformed", "ok"}
         /\ SecretsVerdict(s) \in {"SecretsMissing", "Malformed", "ok"}
         /\ LoadVerdict(s) \in {"NotFound", "SecretsMissing", "Malformed", "ok"}
BY DEF ConfigVerdict, SecretsVerdict, LoadVerdict

LEMMA VerdictsNext ==
  \A s : LoadVerdict(s)' \in {"NotFound", "SecretsMissing", "Malformed", "ok"}
BY DEF ConfigVerdict, SecretsVerdict, LoadVerdict

(* The codes of the errors the commands end in. *)
LEMMA CommandCodes ==
  /\ ExitCodeFor(NoError) = ExitOK
  /\ ExitCodeFor(Plain) = ExitInternal
  /\ ExitCodeFor({"Run"}) = ExitRunFail
  /\ ExitCodeFor({"CaddyReload"}) = ExitCaddyReloadFail
  /\ \A e \in {"NotFound", "SecretsMissing", "SchemaMismatch", "PermissionMode"} :
       ExitCodeFor({e}) = ExitConfigError
<1>1. ExitCodeFor({"Run"}) = ExitRunFail
  <2>1. \A i \in 1..10 : Cases[i][1] \intersect {"Run"} # {} <=> i = 6
    BY DEF Cases, ConfigErrors
  <2>2. ExitCodeFor({"Run"}) = Cases[6][2]
    BY <2>1, CodeOfCase DEF NoError
  <2> QED
    BY <2>2 DEF Cases
<1>2. ASSUME NEW e \in {"NotFound", "SecretsMissing", "SchemaMismatch", "PermissionMode"}
      PROVE  ExitCodeFor({e}) = ExitConfigError
  <2>1. \A i \in 1..10 : Cases[i][1] \intersect {e} # {} <=> i = 3
    BY DEF Cases, ConfigErrors
  <2>2. ExitCodeFor({e}) = Cases[3][2]
    BY <2>1, CodeOfCase DEF NoError
  <2> QED
    BY <2>2 DEF Cases
<1> QED
  BY <1>1, <1>2, IngressCodes

LEMMA CodesDiffer ==
  /\ ExitOK \notin {ExitConfigError, ExitRunFail, ExitCaddyReloadFail, ExitInternal, Killed, Pending}
  /\ ExitCaddyReloadFail \notin {ExitConfigError, ExitRunFail, ExitInternal, Killed, Pending}
BY DEF ExitOK, ExitConfigError, ExitRunFail, ExitCaddyReloadFail, ExitInternal, Killed, Pending

LEMMA LoadCodes ==
  ASSUME NEW s, NEW err \in LoadErrors(s)
  PROVE  ExitCodeFor(err) \in {ExitConfigError, ExitInternal}
BY CommandCodes, Verdicts DEF LoadErrors

(* The containers a docker call leaves are containers. *)
LEMMA Containers ==
  ASSUME NEW k \in AContainer
  PROVE  /\ AfterStop(k) \in AContainer /\ AfterStart(k) \in AContainer
         /\ Absent \in AContainer
         /\ \A new \in AContainer : AfterRun(k, new) \in AContainer /\ HalfRun(k, new) \subseteq AContainer
BY DEF AfterStop, IsUp, AfterStart, AfterRun, HalfRun, Absent, AContainer, States

LEMMA MadeType ==
  ASSUME LocalTypeOK
  PROVE  Made \in AContainer
BY DEF LocalTypeOK, Made, Fresh, Running, AContainer, States

LEMMA SetType ==
  ASSUME DockerTypeOK, NEW s \in Services, NEW k \in AContainer, SetContainer(s, k)
  PROVE  container' \in [Services -> AContainer] /\ network' \in BOOLEAN
BY DEF DockerTypeOK, SetContainer

LEMMA ContextType ==
  ASSUME DockerTypeOK, Answered \/ Refused \/ CallFails \/ Signal \/ FileFails \/ Fault \/ UNCHANGED contextVars
  PROVE  cancelled' \in BOOLEAN /\ faults' \in 0..MaxFaults /\ faults' >= faults
<1>1. cancelled' \in BOOLEAN
  BY Zenon DEF DockerTypeOK, Answered, Refused, CallFails, Signal, FileFails, Fault, contextVars
<1>2. faults' \in 0..MaxFaults /\ faults' >= faults
  BY DockerMarks DEF DockerTypeOK, Answered, Refused, CallFails, Signal, FileFails, Fault, contextVars
<1> QED
  BY <1>1, <1>2

LEMMA TroubleType ==
  ASSUME SharedTypeOK, Failed \/ Fine \/ trouble' = FALSE
  PROVE  trouble' \in BOOLEAN
BY Zenon DEF SharedTypeOK, Failed, Fine

LEMMA ReturnType ==
  ASSUME LocalTypeOK, NEW err, Return(err),
         ExitCodeFor(err) \in {ExitOK, ExitConfigError, ExitRunFail, ExitCaddyReloadFail, ExitInternal}
  PROVE  LocalTypeOK'
BY DEF LocalTypeOK, Return, Unloaded, Absent, AContainer, States

LEMMA GotoType ==
  ASSUME LocalTypeOK, NEW step, Goto(step),
         step \in {"load", "stop", "remove", "delete_secrets", "delete_dir", "delete_config",
                   "publish", "inspect", "docker_start", "docker_run", "logs"}
  PROVE  LocalTypeOK'
BY DEF LocalTypeOK, Goto, commandVars

LEMMA StepLocalType ==
  ASSUME SharedTypeOK, LocalTypeOK, CmdAt, Step
  PROVE  LocalTypeOK'
<1> USE GotoType, ReturnType, CommandCodes
<1>1. CASE Load
  <2>1. CASE LoadVerdict(svc) = "ok" /\ pc' = AfterLoad /\ loaded' = [img |-> config[svc], env |-> secrets[svc]]
             /\ UNCHANGED <<cmd, svc, was, exit, contextVars>>
    <3>1. config[svc] \in Versions /\ secrets[svc] \in Versions
      BY <2>1 DEF LoadVerdict, ConfigVerdict, SecretsVerdict, SharedTypeOK, FilesTypeOK, LocalTypeOK
    <3> QED
      BY <2>1, <3>1 DEF LocalTypeOK, AfterLoad
  <2>2. CASE Goto("stop")
    BY <2>2
  <2>3. ASSUME NEW err \in LoadErrors(svc), Return(err) PROVE LocalTypeOK'
    BY <2>3, LoadCodes
  <2>4. CASE Return(Plain)
    BY <2>4
  <2> QED
    BY <1>1, <2>1, <2>2, <2>3, <2>4 DEF Load
<1>2. CASE Stop
  <2>1. Goto("remove") \/ Goto("load") \/ Return({"NotFound"}) \/ Return(NoError) \/ Return({"Run"})
    BY <1>2 DEF Stop, CmdAt, At
  <2> QED
    BY <2>1
<1>3. CASE Remove
  BY <1>3 DEF Remove
<1>4. CASE DeleteSecrets \/ DeleteDir \/ DeleteConfig
  BY <1>4 DEF DeleteSecrets, DeleteDir, DeleteConfig
<1>5. CASE Publish
  BY <1>5 DEF Publish
<1>6. CASE Inspect
  <2>1. Goto("docker_start") \/ Goto("docker_run") \/ Return(NoError) \/ Return({"Run"})
    BY <1>6 DEF Inspect
  <2> QED
    BY <2>1
<1>7. CASE DockerStart \/ DockerRun
  <2>1. Return(NoError) \/ Return({"Run"})
    BY <1>7 DEF DockerStart, DockerRun
  <2> QED
    BY <2>1
<1>8. CASE Logs
  <2>1. Return(NoError) \/ Return({"NotFound"}) \/ Return({"Run"})
    BY <1>8 DEF Logs
  <2> QED
    BY <2>1
<1> QED
  BY <1>1, <1>2, <1>3, <1>4, <1>5, <1>6, <1>7, <1>8 DEF Step

(* A call that does not get through leaves one of two containers. *)
LEMMA NotDoneType ==
  ASSUME SharedTypeOK, LocalTypeOK, NEW j \in AContainer, NEW k \in AContainer, NotDone(j, k)
  PROVE  DockerTypeOK' /\ trouble' \in BOOLEAN
<1>1. cancelled' \in BOOLEAN /\ faults' \in 0..MaxFaults /\ trouble' \in BOOLEAN
  BY ContextType, TroubleType DEF NotDone, SharedTypeOK
<1>2. container' \in [Services -> AContainer] /\ network' \in BOOLEAN
  BY SetType DEF NotDone, SharedTypeOK, LocalTypeOK
<1> QED
  BY <1>1, <1>2 DEF DockerTypeOK

LEMMA AnsweredType ==
  ASSUME SharedTypeOK, LocalTypeOK, NEW k \in AContainer, Answered, Fine, SetContainer(svc, k)
  PROVE  DockerTypeOK' /\ trouble' \in BOOLEAN
<1>1. cancelled' \in BOOLEAN /\ faults' \in 0..MaxFaults /\ trouble' \in BOOLEAN
  BY ContextType, TroubleType DEF SharedTypeOK
<1>2. container' \in [Services -> AContainer] /\ network' \in BOOLEAN
  BY SetType DEF SharedTypeOK, LocalTypeOK
<1> QED
  BY <1>1, <1>2 DEF DockerTypeOK

LEMMA IdleDockerType ==
  ASSUME SharedTypeOK, UNCHANGED dockerVars, Failed \/ Fine,
         Answered \/ Refused \/ CallFails \/ FileFails \/ UNCHANGED contextVars
  PROVE  DockerTypeOK' /\ trouble' \in BOOLEAN
<1>1. cancelled' \in BOOLEAN /\ faults' \in 0..MaxFaults /\ trouble' \in BOOLEAN
  BY ContextType, TroubleType DEF SharedTypeOK
<1> QED
  BY <1>1 DEF DockerTypeOK, SharedTypeOK, dockerVars

LEMMA FilesType ==
  ASSUME SharedTypeOK, LocalTypeOK,
         \/ UNCHANGED fileVars \/ RemoveSecrets(svc) \/ RemoveSecretsDir(svc) \/ RemoveConfig(svc)
  PROVE  FilesTypeOK'
<1> USE DEF SharedTypeOK, LocalTypeOK, FilesTypeOK
<1>1. CASE UNCHANGED fileVars
  BY <1>1 DEF fileVars
<1>2. CASE RemoveSecrets(svc)
  BY <1>2 DEF RemoveSecrets
<1>3. CASE RemoveSecretsDir(svc)
  BY <1>3 DEF RemoveSecretsDir
<1>4. CASE RemoveConfig(svc)
  BY <1>4 DEF RemoveConfig
<1> QED
  BY <1>1, <1>2, <1>3, <1>4

LEMMA StepSharedType ==
  ASSUME SharedTypeOK, LocalTypeOK, Step
  PROVE  SharedTypeOK'
<1>0. container[svc] \in AContainer /\ Absent \in AContainer /\ Made \in AContainer
  BY MadeType, Containers DEF SharedTypeOK, LocalTypeOK, DockerTypeOK
<1> DEFINE Same == /\ FilesTypeOK' /\ disk' \in SUBSET Services
                   /\ live' \in (SUBSET Services) \union {Down}
           Daemon == DockerTypeOK' /\ trouble' \in BOOLEAN
<1>1. UNCHANGED <<fileVars, routeVars>> => Same
  BY FilesType DEF SharedTypeOK, routeVars
<1>2. CASE Load
  <2>1. FileFails => Failed
    BY DEF FileFails
  <2>2. Daemon
    BY <1>2, <2>1, IdleDockerType DEF Load, OnlyContext
  <2> QED
    BY <1>1, <1>2, <2>2 DEF Load, OnlyContext, SharedTypeOK
<1>3. CASE Stop
  <2>1. AfterStop(container[svc]) \in AContainer
    BY <1>0, Containers
  <2>2. Daemon
    BY <1>0, <1>3, <2>1, AnsweredType, NotDoneType DEF Stop
  <2> QED
    BY <1>1, <1>3, <2>2 DEF Stop, OnlyDocker, SharedTypeOK
<1>4. CASE Remove
  <2>1. Daemon
    BY <1>0, <1>4, AnsweredType, NotDoneType, IdleDockerType DEF Remove
  <2> QED
    BY <1>1, <1>4, <2>1 DEF Remove, OnlyDocker, SharedTypeOK
<1>5. CASE DeleteSecrets \/ DeleteDir \/ DeleteConfig
  <2>1. FileFails => Failed
    BY DEF FileFails
  <2>2. Daemon
    BY <1>5, <2>1, IdleDockerType DEF DeleteSecrets, DeleteDir, DeleteConfig, fileVars
  <2>3. Same
    BY <1>5, FilesType DEF DeleteSecrets, DeleteDir, DeleteConfig, SharedTypeOK, routeVars, fileVars
  <2> QED
    BY <2>2, <2>3 DEF SharedTypeOK
<1>6. CASE Publish
  <2>1. FileFails => Failed
    BY DEF FileFails
  <2>2. Daemon
    BY <1>6, <2>1, IdleDockerType DEF Publish
  <2>3. Sites \in SUBSET Services
    BY DEF Sites
  <2>4. Same
    BY <1>6, <2>3, FilesType DEF Publish, SharedTypeOK, routeVars
  <2> QED
    BY <2>2, <2>4 DEF SharedTypeOK
<1>7. CASE Inspect \/ Logs
  <2>1. Daemon
    BY <1>7, IdleDockerType DEF Inspect, Logs, OnlyContext
  <2> QED
    BY <1>1, <1>7, <2>1 DEF Inspect, Logs, OnlyContext, SharedTypeOK
<1>8. CASE DockerStart
  <2>1. AfterStart(container[svc]) \in AContainer
    BY <1>0, Containers
  <2>2. Daemon
    BY <1>0, <1>8, <2>1, AnsweredType, NotDoneType, IdleDockerType DEF DockerStart
  <2> QED
    BY <1>1, <1>8, <2>2 DEF DockerStart, OnlyDocker, SharedTypeOK
<1>9. CASE DockerRun
  <2>1. AfterRun(container[svc], Made) \in AContainer /\ HalfRun(container[svc], Made) \subseteq AContainer
    BY <1>0, Containers
  <2>2. \A k \in AContainer : CallFails /\ SetContainer(svc, k) /\ Failed => Daemon
    BY NotDoneType DEF NotDone
  <2>3. Daemon
    BY <1>9, <2>1, <2>2, AnsweredType, IdleDockerType DEF DockerRun
  <2> QED
    BY <1>1, <1>9, <2>3 DEF DockerRun, OnlyDocker, SharedTypeOK
<1> QED
  BY <1>2, <1>3, <1>4, <1>5, <1>6, <1>7, <1>8, <1>9 DEF Step

LEMMA BeginType ==
  ASSUME SharedTypeOK, LocalTypeOK, NEW c \in Commands, NEW s \in Services, Begin(c, s)
  PROVE  SharedTypeOK' /\ LocalTypeOK'
<1>1. First[c] \in {"load", "stop", "logs", "publish"}
  BY DEF First, Commands
<1>2. container[s] \in AContainer
  BY DEF SharedTypeOK, DockerTypeOK
<1>3. LocalTypeOK'
  BY <1>1, <1>2 DEF Begin, LocalTypeOK
<1>4. cancelled' \in BOOLEAN /\ trouble' \in BOOLEAN
  BY DEF Begin
<1> QED
  BY <1>3, <1>4 DEF Begin, SharedTypeOK, DockerTypeOK, FilesTypeOK, dockerVars, fileVars, routeVars

(* Docker's own changes to a container are of one that is up. *)
LEMMA UpAgain ==
  ASSUME NEW s \in Services, container[s] \in AContainer, Exits(s) \/ Revives(s)
  PROVE  IsUp(container[s]) /\ \E k \in AContainer : SetContainer(s, k)
<1>1. \A st \in States : [container[s] EXCEPT !.st = st] \in AContainer
  BY DEF AContainer
<1>2. {"exited", "restarting", "running"} \subseteq States
  BY DEF States
<1> QED
  BY <1>1, <1>2 DEF Exits, Revives, AfterStart, IsUp

LEMMA WorldType ==
  ASSUME SharedTypeOK, LocalTypeOK, World
  PROVE  SharedTypeOK' /\ LocalTypeOK'
<1>0. /\ \A s \in Services : container[s] \in AContainer
      /\ Absent \in AContainer
  BY Containers DEF SharedTypeOK, DockerTypeOK, Absent, AContainer, States
<1>1. LocalTypeOK'
  <2>1. CASE Crash
    BY <1>0, <2>1 DEF Crash, LocalTypeOK, Unloaded
  <2>2. CASE OnlyWorld
    BY <2>2 DEF OnlyWorld, LocalTypeOK, commandVars
  <2> QED
    BY <2>1, <2>2 DEF World, CtrlC, Prune, CaddyStops, CaddyUp, Exits, Revives, Deployed
<1>2. cancelled' \in BOOLEAN /\ faults' \in 0..MaxFaults /\ trouble' \in BOOLEAN
  BY ContextType, TroubleType DEF SharedTypeOK, World, CtrlC, Crash, Prune, CaddyStops, CaddyUp, Exits, Revives, Deployed
<1> DEFINE Same == FilesTypeOK' /\ disk' \in SUBSET Services /\ live' \in (SUBSET Services) \union {Down}
           Daemon == container' \in [Services -> AContainer] /\ network' \in BOOLEAN
<1> SUFFICES Same /\ Daemon
  BY <1>1, <1>2 DEF SharedTypeOK, DockerTypeOK
<1>3. UNCHANGED <<fileVars, routeVars>> => Same
  BY DEF SharedTypeOK, FilesTypeOK, fileVars, routeVars
<1>4. UNCHANGED dockerVars => Daemon
  BY DEF SharedTypeOK, DockerTypeOK, dockerVars
<1>5. CASE CtrlC \/ Crash
  BY <1>3, <1>4, <1>5 DEF CtrlC, Crash, OnlyContext
<1>6. CASE Prune
  <2>1. container' \in [Services -> AContainer]
    BY <1>0, <1>6 DEF Prune
  <2>2. network' \in BOOLEAN
    BY <1>6, Zenon DEF Prune
  <2> QED
    BY <1>3, <1>6, <2>1, <2>2 DEF Prune, OnlyDocker
<1>7. CASE CaddyStops
  BY <1>4, <1>7 DEF CaddyStops, SharedTypeOK, FilesTypeOK, fileVars
<1>8. CASE CaddyUp
  BY <1>8 DEF CaddyUp, SharedTypeOK, DockerTypeOK, FilesTypeOK, fileVars
<1>9. ASSUME NEW s \in Services, Exits(s) \/ Revives(s) PROVE Same /\ Daemon
  <2>1. PICK k \in AContainer : SetContainer(s, k)
    BY <1>0, <1>9, UpAgain
  <2> QED
    BY <1>3, <1>9, <2>1, SetType DEF Exits, Revives, OnlyDocker, SharedTypeOK
<1>10. ASSUME NEW s \in Services, NEW v \in Versions, Deployed(s, v) PROVE Same /\ Daemon
  <2>1. Running(s, v, v) \in AContainer
    BY DEF Running, AContainer, States
  <2>2. Daemon
    BY <1>10, <2>1 DEF Deployed, SharedTypeOK, DockerTypeOK
  <2>3. FilesTypeOK'
    BY <1>10 DEF Deployed, SharedTypeOK, FilesTypeOK
  <2>4. Sites' \in SUBSET Services
    BY DEF Sites
  <2>5. disk' \in SUBSET Services /\ live' \in (SUBSET Services) \union {Down}
    BY <1>10, <2>4 DEF Deployed, SharedTypeOK, routeVars
  <2> QED
    BY <2>2, <2>3, <2>5
<1> QED
  BY <1>5, <1>6, <1>7, <1>8, <1>9, <1>10 DEF World

LEMMA WatchType ==
  ASSUME SharedTypeOK, LocalTypeOK, ListTypeOK, Watch
  PROVE  SharedTypeOK' /\ LocalTypeOK' /\ ListTypeOK' /\ faults' >= faults
<1>1. faults' \in 0..MaxFaults /\ faults' >= faults
  <2>1. WatchConfig \/ WatchStat \/ WatchRead => UNCHANGED faults
    BY Verdicts DEF WatchConfig, WatchStat, WatchRead, RowIs, Onward
  <2>2. UNCHANGED faults \/ (faults < MaxFaults /\ faults' = faults + 1)
    BY <2>1 DEF Watch, WatchStarts, WatchNext, WatchInspect, WatchFails, RowIs
  <2> QED
    BY <2>2, DockerMarks DEF SharedTypeOK, DockerTypeOK
<1>2. SharedTypeOK' /\ LocalTypeOK'
  <2>1. UNCHANGED <<container, network, cancelled, trouble>>
    BY DEF Watch, dockerVars
  <2>2. DockerTypeOK'
    BY <1>1, <2>1 DEF SharedTypeOK, DockerTypeOK
  <2>3. FilesTypeOK'
    BY DEF Watch, SharedTypeOK, FilesTypeOK, fileVars
  <2>4. LocalTypeOK'
    BY DEF Watch, LocalTypeOK, commandVars
  <2> QED
    BY <2>1, <2>2, <2>3, <2>4 DEF Watch, SharedTypeOK, routeVars
<1>3. ListTypeOK'
  <2>1. \A s \in Services : Shown(container[s].st) \in Rows
    BY DEF SharedTypeOK, DockerTypeOK, AContainer, Shown, Rows, States
  <2>2. {"none", "config-only", "error"} \subseteq Rows
    BY DEF Rows
  <2> USE DEF ListTypeOK, Row
  <2>3. CASE WatchStarts
    BY <2>3 DEF WatchStarts, ListedNames
  <2>4. CASE WatchNext
    BY <2>2, <2>4 DEF WatchNext
  <2>5. CASE WatchConfig
    <3>1. wpc = "config" /\ (RowIs("none") \/ RowIs("error") \/ Onward("stat"))
      BY <2>5, Verdicts DEF WatchConfig
    <3> QED
      BY <2>2, <3>1 DEF RowIs, Onward
  <2>6. CASE WatchStat \/ WatchRead
    <3>1. /\ wpc \in {"stat", "read"}
          /\ RowIs("config-only") \/ RowIs("error") \/ Onward("read") \/ Onward("inspect")
      BY <2>6 DEF WatchStat, WatchRead
    <3> QED
      BY <2>2, <3>1 DEF RowIs, Onward
  <2>7. CASE WatchInspect
    BY <2>1, <2>7 DEF WatchInspect, RowIs
  <2>8. CASE WatchFails
    BY <2>2, <2>8 DEF WatchFails
  <2> QED
    BY <2>3, <2>4, <2>5, <2>6, <2>7, <2>8 DEF Watch
<1> QED
  BY <1>1, <1>2, <1>3

LEMMA InitType == Init => TypeOK
<1> SUFFICES ASSUME Init PROVE TypeOK
  OBVIOUS
<1>1. PICK odd \in Handled, u \in Versions, v \in Versions, w \in Versions, left \in BOOLEAN :
      \E files \in {<<NoFile, NoFile>>, <<v, v>>, <<v, NoFile>>, <<v, Broken>>},
         box \in {Absent, Stranger, Running(odd, v, v), [Running(odd, v, v) EXCEPT !.st = "exited"],
                  [Running(odd, w, w) EXCEPT !.st = "created"], Running(odd, w, w),
                  [Running(odd, v, v) EXCEPT !.st = "restarting"]} :
        /\ container = [s \in Services |-> IF s = odd THEN box ELSE Absent]
        /\ config    = [s \in Services |-> IF s = odd THEN files[1] ELSE u]
        /\ secrets   = [s \in Services |-> IF s = odd THEN files[2] ELSE u]
        /\ litter    = [s \in Services |-> s = odd /\ left]
        /\ secDir    = [s \in Services |-> secrets[s] # NoFile \/ litter[s]]
  BY DEF Init
<1>2. PICK files \in {<<NoFile, NoFile>>, <<v, v>>, <<v, NoFile>>, <<v, Broken>>},
           box \in {Absent, Stranger, Running(odd, v, v), [Running(odd, v, v) EXCEPT !.st = "exited"],
                    [Running(odd, w, w) EXCEPT !.st = "created"], Running(odd, w, w),
                  [Running(odd, v, v) EXCEPT !.st = "restarting"]} :
        /\ container = [s \in Services |-> IF s = odd THEN box ELSE Absent]
        /\ config    = [s \in Services |-> IF s = odd THEN files[1] ELSE u]
        /\ secrets   = [s \in Services |-> IF s = odd THEN files[2] ELSE u]
        /\ litter    = [s \in Services |-> s = odd /\ left]
        /\ secDir    = [s \in Services |-> secrets[s] # NoFile \/ litter[s]]
  BY <1>1
<1>3. container \in [Services -> AContainer]
  <2>1. box \in AContainer
    BY <1>2 DEF Absent, Stranger, Running, AContainer, States, Handled
  <2>2. Absent \in AContainer
    BY DEF Absent, AContainer, States
  <2> QED
    BY <1>2, <2>1, <2>2
<1>4. FilesTypeOK
  <2>1. config \in [Services -> Versions \union {NoFile, Broken}] /\ secrets \in [Services -> Versions \union {NoFile, Broken}]
    BY <1>2
  <2>2. litter \in [Services -> BOOLEAN]
    BY <1>2
  <2>3. secDir \in [Services -> BOOLEAN]
    BY <1>2
  <2> QED
    BY <2>1, <2>2, <2>3 DEF FilesTypeOK
<1>5. network \in BOOLEAN /\ cancelled \in BOOLEAN /\ faults \in 0..MaxFaults /\ trouble \in BOOLEAN
  <2>1. network = TRUE /\ cancelled = FALSE /\ faults = 0 /\ trouble = FALSE
    BY DEF Init
  <2>2. faults \in 0..MaxFaults
    BY <2>1, DockerMarks
  <2> QED
    BY <2>1, <2>2, Zenon
<1>6. disk \in SUBSET Services /\ live \in (SUBSET Services) \union {Down}
  BY DEF Init, Sites
<1>7. LocalTypeOK
  BY DEF Init, LocalTypeOK, Handled, Unloaded, Absent, AContainer, States
<1>8. ListTypeOK /\ SeenTypeOK
  BY DEF Init, ListTypeOK, SeenTypeOK, Rows
<1> QED
  BY <1>3, <1>4, <1>5, <1>6, <1>7, <1>8, TypeSplit DEF CommandTypeOK, SharedTypeOK, DockerTypeOK

LEMMA StepType == TypeOK /\ CommandInv /\ [Next]_vars => TypeOK'
<1> SUFFICES ASSUME TypeOK, CommandInv, [Next]_vars PROVE TypeOK'
  OBVIOUS
<1>0. SharedTypeOK /\ LocalTypeOK /\ ListTypeOK /\ SeenTypeOK /\ CmdAt
  BY TypeSplit DEF CommandTypeOK, CommandInv
<1>1. CASE Next
  <2>1. SharedTypeOK' /\ LocalTypeOK' /\ ListTypeOK'
    <3>1. UNCHANGED watchVars => ListTypeOK'
      BY <1>0 DEF ListTypeOK, watchVars
    <3> QED
      BY <1>0, <1>1, <3>1, StepLocalType, StepSharedType, BeginType, WorldType, WatchType DEF Next, World
  <2>2. SeenTypeOK'
    BY <1>0, <1>1, Verdicts, VerdictsNext DEF Next, Observe, SeenTypeOK
  <2> QED
    BY <2>1, <2>2 DEF TypeOK, SharedTypeOK, LocalTypeOK, ListTypeOK, SeenTypeOK
<1>2. CASE UNCHANGED vars
  BY <1>2 DEF vars, dockerVars, contextVars, fileVars, routeVars, commandVars, watchVars, TypeOK, DockerTypeOK, FilesTypeOK
<1> QED
  BY <1>1, <1>2
-----------------------------------------------------------------------------
(* A command that has ended knows nothing any more. *)
LEMMA ReturnKeeps ==
  ASSUME NEW err, Return(err)
  PROVE  CmdAt' /\ Removed' /\ Known'
BY DEF Return, CmdAt, Removed, Known

LEMMA FilesKeepWhole ==
  ASSUME Whole, UNCHANGED fileVars
  PROVE  Whole'
BY DEF Whole, fileVars

(* Only on a network does a step make a container run. *)
LEMMA NetKept ==
  ASSUME SharedTypeOK, LocalTypeOK, NetUp, NEW k \in AContainer, SetContainer(svc, k),
         IsUp(k) => IsUp(container[svc]) \/ network
  PROVE  NetUp'
<1>1. \A s \in Services : container'[s] = IF s = svc THEN k ELSE container[s]
  BY DEF SetContainer, SharedTypeOK, DockerTypeOK
<1>2. network' = network
  BY DEF SetContainer
<1> QED
  BY <1>1, <1>2 DEF NetUp, LocalTypeOK

LEMMA NetIdle ==
  ASSUME NetUp, UNCHANGED dockerVars
  PROVE  NetUp'
BY DEF NetUp, dockerVars

LEMMA LoadKeeps ==
  ASSUME SharedTypeOK, LocalTypeOK, CommandInv, Load
  PROVE  CommandInv'
<1>1. NetUp' /\ Whole'
  BY NetIdle, FilesKeepWhole DEF CommandInv, Load, OnlyContext
<1>2. container' = container /\ network' = network /\ UNCHANGED fileVars
  BY DEF Load, OnlyContext, dockerVars
<1>3. CmdAt' /\ Removed' /\ Known'
  <2>1. CASE /\ LoadVerdict(svc) = "ok" /\ Fine
             /\ pc' = AfterLoad /\ loaded' = [img |-> config[svc], env |-> secrets[svc]]
             /\ UNCHANGED <<cmd, svc, was, exit>>
    <3>1. /\ cmd \in {"unregister", "start", "restart"} /\ pc = "load"
          /\ pc' = (IF cmd = "unregister" THEN "stop" ELSE "inspect")
      BY <2>1 DEF Load, At, CommandInv, CmdAt, AfterLoad
    <3>2. Loadable(svc)'
      BY <1>2, <2>1 DEF Loadable, LoadVerdict, ConfigVerdict, SecretsVerdict, fileVars
    <3> QED
      BY <1>2, <2>1, <3>1, <3>2 DEF CommandInv, CmdAt, Removed, Known, Fine, fileVars
  <2>2. CASE cmd = "unregister" /\ Goto("stop") /\ Fine
    BY <1>2, <2>2 DEF Goto, commandVars, CommandInv, CmdAt, Removed, Known
  <2>3. ASSUME NEW err, Return(err) PROVE CmdAt' /\ Removed' /\ Known'
    BY <2>3, ReturnKeeps
  <2> QED
    BY <2>1, <2>2, <2>3 DEF Load
<1> QED
  BY <1>1, <1>3 DEF CommandInv

LEMMA StopKeeps ==
  ASSUME SharedTypeOK, LocalTypeOK, CommandInv, Stop
  PROVE  CommandInv'
<1>0. container[svc] \in AContainer /\ AfterStop(container[svc]) \in AContainer
  BY Containers DEF SharedTypeOK, LocalTypeOK, DockerTypeOK
<1>1. PICK k \in {container[svc], AfterStop(container[svc])} : SetContainer(svc, k)
  BY DEF Stop, NotDone
<1>2. ~IsUp(AfterStop(container[svc]))
  BY <1>0 DEF AfterStop, IsUp, AContainer, States
<1>3. NetUp'
  BY <1>0, <1>1, <1>2, NetKept DEF CommandInv
<1>4. Whole'
  BY FilesKeepWhole DEF CommandInv, Stop, OnlyDocker
<1>5. CmdAt' /\ Removed' /\ Known'
  <2>1. CASE /\ Fine /\ SetContainer(svc, AfterStop(container[svc]))
             /\ cmd = "restart" /\ Goto("load")
    <3>1. container'[svc] = AfterStop(container[svc]) /\ network' = network /\ svc' = svc
      BY <2>1 DEF SetContainer, Goto, commandVars, SharedTypeOK, LocalTypeOK, DockerTypeOK
    <3>2. pc = "stop"
      BY DEF Stop, At
    <3> QED
      BY <2>1, <3>1, <3>2 DEF Goto, commandVars, CommandInv, CmdAt, Removed, Known, Fine
  <2>2. CASE cmd = "unregister" /\ Goto("remove")
    BY <2>2 DEF Goto, commandVars, CmdAt, Removed, Known
  <2>3. ASSUME NEW err, Return(err) PROVE CmdAt' /\ Removed' /\ Known'
    BY <2>3, ReturnKeeps
  <2>4. cmd \in {"unregister", "stop", "restart"}
    BY DEF Stop, At, CommandInv, CmdAt
  <2> QED
    BY <2>1, <2>2, <2>3, <2>4 DEF Stop
<1> QED
  BY <1>3, <1>4, <1>5 DEF CommandInv

LEMMA RemoveKeeps ==
  ASSUME SharedTypeOK, LocalTypeOK, CommandInv, Remove
  PROVE  CommandInv'
<1>0. container[svc] \in AContainer /\ Absent \in AContainer /\ cmd = "unregister"
  BY Containers DEF SharedTypeOK, LocalTypeOK, DockerTypeOK, Remove, At, CommandInv, CmdAt
<1>1. UNCHANGED dockerVars \/ \E k \in {container[svc], Absent} : SetContainer(svc, k)
  BY DEF Remove, NotDone
<1>2. NetUp'
  BY <1>0, <1>1, NetKept, NetIdle DEF CommandInv, Absent, IsUp
<1>3. Whole'
  BY FilesKeepWhole DEF CommandInv, Remove, OnlyDocker
<1>4. trouble' \/ container'[svc] = Absent
  BY DEF Remove, NotDone, Failed, SetContainer, SharedTypeOK, LocalTypeOK, DockerTypeOK
<1>5. CmdAt' /\ Removed' /\ Known'
  BY <1>0, <1>4 DEF Remove, Goto, commandVars, CmdAt, Removed, Known, Absent
<1> QED
  BY <1>2, <1>3, <1>5 DEF CommandInv

LEMMA DeleteKeeps ==
  ASSUME SharedTypeOK, LocalTypeOK, CommandInv, DeleteSecrets \/ DeleteDir \/ DeleteConfig
  PROVE  CommandInv'
<1>1. NetUp' /\ container' = container /\ network' = network
  BY NetIdle DEF CommandInv, DeleteSecrets, DeleteDir, DeleteConfig, dockerVars
<1>2. cmd = "unregister" /\ pc \in {"delete_secrets", "delete_dir", "delete_config"}
  BY DEF DeleteSecrets, DeleteDir, DeleteConfig, At, CommandInv, CmdAt
<1>3. ASSUME NEW err, Return(err), UNCHANGED fileVars PROVE CommandInv'
  BY <1>1, <1>3, ReturnKeeps, FilesKeepWhole DEF CommandInv
<1> USE <1>1, <1>2 DEF SharedTypeOK, LocalTypeOK, FilesTypeOK, CommandInv, CmdAt, Removed, Known, Whole, At, Goto, commandVars, Fine
<1>4. CASE RemoveSecrets(svc) /\ Goto("delete_dir") /\ Fine
  BY <1>4 DEF RemoveSecrets
<1>5. CASE pc = "delete_dir" /\ RemoveSecretsDir(svc) /\ Goto("delete_config") /\ Fine
  BY <1>5 DEF RemoveSecretsDir
<1>6. CASE pc = "delete_config" /\ RemoveConfig(svc) /\ Goto("publish") /\ Fine
  BY <1>6, FileMarks DEF RemoveConfig
<1> HIDE DEF CommandInv
<1>7. CASE DeleteSecrets
  BY <1>3, <1>4, <1>7 DEF DeleteSecrets
<1>8. CASE DeleteDir
  BY <1>3, <1>5, <1>8 DEF DeleteDir
<1>9. CASE DeleteConfig
  BY <1>3, <1>6, <1>9 DEF DeleteConfig
<1> QED
  BY <1>7, <1>8, <1>9

LEMMA EndingKeeps ==
  ASSUME SharedTypeOK, LocalTypeOK, CommandInv, Publish \/ Logs
  PROVE  CommandInv'
<1>1. NetUp' /\ Whole'
  BY NetIdle, FilesKeepWhole DEF CommandInv, Publish, Logs, OnlyContext
<1>2. \E err : Return(err)
  BY DEF Publish, Logs
<1> QED
  BY <1>1, <1>2, ReturnKeeps DEF CommandInv

LEMMA InspectKeeps ==
  ASSUME SharedTypeOK, LocalTypeOK, CommandInv, Inspect
  PROVE  CommandInv'
<1>1. NetUp' /\ Whole' /\ container' = container /\ network' = network /\ UNCHANGED fileVars
  BY NetIdle, FilesKeepWhole DEF CommandInv, Inspect, OnlyContext, dockerVars
<1>2. CASE /\ Fine
           /\ \/ container[svc].st = "exited" /\ Goto("docker_start")
              \/ container[svc].st \notin {"running", "exited"} /\ Goto("docker_run")
  <2>1. Loadable(svc)' = Loadable(svc)
    BY <1>1, <1>2 DEF Loadable, LoadVerdict, ConfigVerdict, SecretsVerdict, fileVars, Goto, commandVars
  <2>2. pc = "inspect"
    BY DEF Inspect, At
  <2>3. UNCHANGED <<cmd, svc, loaded, was, trouble, container, network, config, secrets>>
    BY <1>1, <1>2 DEF Goto, commandVars, Fine, fileVars
  <2>4. CmdAt' /\ Removed'
    BY <1>2, <2>2, <2>3 DEF Goto, CommandInv, CmdAt, Removed
  <2>5. Known'
    BY <1>2, <2>1, <2>2, <2>3 DEF Goto, CommandInv, Known
  <2> QED
    BY <1>1, <2>4, <2>5 DEF CommandInv
<1>3. ASSUME NEW err, Return(err) PROVE CommandInv'
  BY <1>1, <1>3, ReturnKeeps DEF CommandInv
<1> QED
  BY <1>2, <1>3 DEF Inspect

LEMMA StartKeeps ==
  ASSUME SharedTypeOK, LocalTypeOK, CommandInv, DockerStart \/ DockerRun
  PROVE  CommandInv'
<1>0. container[svc] \in AContainer /\ AfterStart(container[svc]) \in AContainer /\ Made \in AContainer
  BY Containers, MadeType DEF SharedTypeOK, LocalTypeOK, DockerTypeOK
<1>1. \E err : Return(err)
  BY DEF DockerStart, DockerRun
<1>2. Whole'
  BY FilesKeepWhole DEF CommandInv, DockerStart, DockerRun, OnlyDocker
<1>3. NetUp'
  <2>1. CASE UNCHANGED dockerVars
    BY <2>1, NetIdle DEF CommandInv
  <2>2. CASE network /\ SetContainer(svc, AfterStart(container[svc]))
    BY <1>0, <2>2, NetKept DEF CommandInv
  <2>3. CASE SetContainer(svc, container[svc])
    BY <1>0, <2>3, NetKept DEF CommandInv
  <2>4. ASSUME NEW k \in HalfRun(container[svc], Made), SetContainer(svc, k) PROVE NetUp'
    <3>1. k \in AContainer
      BY <1>0, Containers
    <3>2. IsUp(k) => IsUp(container[svc]) \/ network
      BY <1>0 DEF IsUp, HalfRun, AfterRun, Made, Fresh, Running, AContainer
    <3> QED
      BY <2>4, <3>1, <3>2, NetKept DEF CommandInv
  <2>5. AfterRun(container[svc], Made) \in HalfRun(container[svc], Made)
    BY DEF HalfRun
  <2> QED
    BY <2>1, <2>2, <2>3, <2>4, <2>5 DEF DockerStart, DockerRun, NotDone
<1> QED
  BY <1>1, <1>2, <1>3, ReturnKeeps DEF CommandInv

LEMMA StepKeeps ==
  ASSUME SharedTypeOK, LocalTypeOK, CommandInv, Step
  PROVE  CommandInv'
BY LoadKeeps, StopKeeps, RemoveKeeps, DeleteKeeps, EndingKeeps, InspectKeeps, StartKeeps DEF Step

LEMMA BeginKeeps ==
  ASSUME SharedTypeOK, LocalTypeOK, CommandInv, NEW c \in Commands, NEW s \in Services, Begin(c, s)
  PROVE  CommandInv'
<1>1. NetUp' /\ Whole' /\ container' = container /\ network' = network
  BY NetIdle, FilesKeepWhole DEF CommandInv, Begin, dockerVars
<1>2. CmdAt'
  BY DEF Begin, First, Commands, CmdAt
<1>3. Removed'
  BY DEF Begin, First, Removed
<1>4. pc' \in {"load", "stop", "logs", "publish"} /\ (c = "restart" => pc' = "stop")
  BY DEF Begin, First, Commands
<1>5. was'.st = "running" => network'
  BY <1>1 DEF Begin, CommandInv, NetUp, IsUp
<1>6. Known'
  BY <1>1, <1>4, <1>5 DEF Begin, Known
<1> QED
  BY <1>1, <1>2, <1>3, <1>6 DEF CommandInv

LEMMA WorldKeeps ==
  ASSUME SharedTypeOK, LocalTypeOK, CommandInv, World
  PROVE  CommandInv'
<1>0. pc = "idle" => cmd = "none"
  BY DEF CommandInv, CmdAt
<1>1. CASE CtrlC \/ CaddyStops
  <2>1. UNCHANGED <<dockerVars, fileVars, pc, commandVars, trouble>>
    BY <1>1 DEF CtrlC, CaddyStops, OnlyContext, OnlyWorld, Fine
  <2>2. NetUp' /\ Whole'
    BY <2>1, NetIdle, FilesKeepWhole DEF CommandInv
  <2>3. CmdAt' /\ Removed'
    BY <2>1 DEF CommandInv, CmdAt, Removed, dockerVars, fileVars, commandVars
  <2>4. Known'
    BY <2>1 DEF CommandInv, Known, Loadable, LoadVerdict, ConfigVerdict, SecretsVerdict, dockerVars, fileVars, commandVars
  <2> QED
    BY <2>2, <2>3, <2>4 DEF CommandInv
<1>2. CASE Crash
  <2>1. NetUp' /\ Whole'
    BY <1>2, NetIdle, FilesKeepWhole DEF CommandInv, Crash, OnlyContext
  <2> QED
    BY <1>2, <2>1 DEF Crash, CommandInv, CmdAt, Removed, Known
<1>3. ASSUME NEW s \in Services, NEW v \in Versions, Deployed(s, v) PROVE CommandInv'
  <2>1. Whole'
    BY <1>3, FileMarks DEF Deployed, CommandInv, Whole, SharedTypeOK, FilesTypeOK
  <2>2. NetUp'
    BY <1>3 DEF Deployed, NetUp
  <2>3. pc' = "idle" /\ cmd' = "none"
    BY <1>0, <1>3 DEF Deployed, At, OnlyWorld, commandVars
  <2> QED
    BY <2>1, <2>2, <2>3 DEF CommandInv, CmdAt, Removed, Known
<1>4. CASE CaddyUp
  <2>1. Whole'
    BY <1>4, FilesKeepWhole DEF CaddyUp, CommandInv
  <2>2. NetUp'
    BY <1>4 DEF CaddyUp, NetUp
  <2>3. pc' = "idle" /\ cmd' = "none"
    BY <1>0, <1>4 DEF CaddyUp, At, OnlyWorld, commandVars
  <2> QED
    BY <2>1, <2>2, <2>3 DEF CommandInv, CmdAt, Removed, Known
<1>5. ASSUME Prune \/ \E s \in Services : Exits(s) \/ Revives(s) PROVE CommandInv'
  <2>1. /\ UNCHANGED <<fileVars, pc, commandVars>> /\ trouble'
    BY <1>5 DEF Prune, Exits, Revives, OnlyDocker, OnlyWorld, Failed
  <2>2. ASSUME Prune PROVE NetUp'
    <3>1. \A s \in Services : IsUp(container'[s]) => IsUp(container[s])
      BY <2>2 DEF Prune, IsUp, Absent
    <3> QED
      BY <2>2, <3>1 DEF Prune, CommandInv, NetUp, IsUp
  <2>3. ASSUME NEW s \in Services, Exits(s) \/ Revives(s) PROVE NetUp'
    <3>1. IsUp(container[s]) /\ network' = network
      BY <2>3, UpAgain DEF Exits, Revives, SharedTypeOK, DockerTypeOK, SetContainer
    <3> QED
      BY <3>1 DEF CommandInv, NetUp
  <2>4. Whole'
    BY <2>1, FilesKeepWhole DEF CommandInv
  <2>5. CmdAt' /\ Removed'
    BY <2>1 DEF CommandInv, CmdAt, Removed, fileVars, commandVars
  <2>6. Known'
    BY <2>1 DEF CommandInv, Known, Loadable, LoadVerdict, ConfigVerdict, SecretsVerdict, fileVars, commandVars
  <2> QED
    BY <1>5, <2>2, <2>3, <2>4, <2>5, <2>6 DEF CommandInv
<1> QED
  BY <1>1, <1>2, <1>3, <1>4, <1>5 DEF World

LEMMA SameCommand ==
  ASSUME CommandInv, UNCHANGED <<dockerVars, fileVars, pc, commandVars, trouble>>
  PROVE  CommandInv'
BY DEF CommandInv, CmdAt, Removed, Known, NetUp, Whole, Loadable, LoadVerdict, ConfigVerdict, SecretsVerdict,
       dockerVars, fileVars, commandVars

LEMMA NextKeeps == TypeOK /\ CommandInv /\ [Next]_vars => CommandInv'
<1> SUFFICES ASSUME TypeOK, CommandInv, [Next]_vars PROVE CommandInv'
  OBVIOUS
<1>1. SharedTypeOK /\ LocalTypeOK
  BY TypeSplit DEF CommandTypeOK
<1>2. CASE Watch \/ UNCHANGED vars
  BY <1>2, SameCommand DEF Watch, vars
<1> QED
  BY <1>1, <1>2, StepKeeps, BeginKeeps, WorldKeeps DEF Next
-----------------------------------------------------------------------------
(* While a listing runs, what has been seen stays seen, and grows by what  *)
(* Load would say now.                                                     *)
LEMMA SeenGrows ==
  ASSUME SeenTypeOK, Observe, wpc' # "idle"
  PROVE  /\ \A s \in Services : LoadVerdict(s)' \in seen'[s]
         /\ wpc # "idle" => \A s \in Services : seen[s] \subseteq seen'[s]
         /\ wpc = "idle" => \A s \in Services : LoadVerdict(s) \in seen'[s]
BY DEF Observe, SeenTypeOK

(* A config goes away only after its secrets: a listing that has read it   *)
(* and then finds no secrets has seen a moment when they alone were gone.  *)
LEMMA ConfigLast ==
  ASSUME SharedTypeOK, LocalTypeOK, CommandInv, Next, NEW s \in Services, ConfigVerdict(s) = "ok"
  PROVE  ConfigVerdict(s)' = "ok" \/ LoadVerdict(s) = "SecretsMissing"
<1>1. config[s] \in Versions
  BY DEF ConfigVerdict, SharedTypeOK, FilesTypeOK
<1>2. CASE config'[s] \in Versions
  BY <1>2, FileMarks DEF ConfigVerdict
<1>3. CASE config' = config
  BY <1>1, <1>2, <1>3
<1>4. CASE DeleteConfig
  <2>1. cmd = "unregister" /\ pc = "delete_config" /\ secrets[svc] = NoFile
    BY <1>4 DEF DeleteConfig, At, CommandInv, CmdAt, Removed
  <2>2. CASE s = svc
    BY <2>1, <2>2, FileMarks DEF LoadVerdict, SecretsVerdict
  <2>3. CASE s # svc
    <3>1. config'[s] = config[s]
      BY <1>4, <2>3 DEF DeleteConfig, RemoveConfig, SharedTypeOK, FilesTypeOK, fileVars
    <3> QED
      BY <1>1, <1>2, <3>1
  <2> QED
    BY <2>2, <2>3
<1>5. ASSUME NEW t \in Services, NEW v \in Versions, Deployed(t, v)
      PROVE  ConfigVerdict(s)' = "ok"
  <2>1. config'[s] \in Versions
    BY <1>1, <1>5 DEF Deployed, SharedTypeOK, FilesTypeOK
  <2> QED
    BY <1>2, <2>1, FileMarks DEF ConfigVerdict
<1>6. CASE Step /\ ~DeleteConfig
  BY <1>3, <1>6 DEF Step, Load, Stop, Remove, DeleteSecrets, DeleteDir, Publish, Inspect, DockerStart, DockerRun, Logs,
       OnlyContext, OnlyDocker, fileVars, RemoveSecrets, RemoveSecretsDir
<1>7. ASSUME Watch \/ \E c \in Commands, t \in Services : Begin(c, t) PROVE config' = config
  BY <1>7 DEF Watch, Begin, fileVars
<1>8. ASSUME World, ~\E t \in Services, v \in Versions : Deployed(t, v) PROVE config' = config
  BY <1>8 DEF World, CtrlC, Crash, Prune, CaddyStops, CaddyUp, Exits, Revives, OnlyContext, OnlyDocker, fileVars
<1> QED
  BY <1>3, <1>4, <1>5, <1>6, <1>7, <1>8 DEF Next

(* Secrets go away before their config does.                               *)
LEMMA SecretsFirst ==
  ASSUME SharedTypeOK, LocalTypeOK, CommandInv, Next, NEW s \in Services,
         SecretsVerdict(s) # "SecretsMissing"
  PROVE  SecretsVerdict(s)' # "SecretsMissing" \/ LoadVerdict(s)' = "SecretsMissing"
<1>1. secDir[s] /\ secrets[s] # NoFile /\ config[s] # NoFile /\ config[s] # Broken
  <2>1. secDir[s] /\ secrets[s] # NoFile
    BY FileMarks DEF SecretsVerdict, SharedTypeOK, FilesTypeOK
  <2> QED
    BY <2>1 DEF CommandInv, Whole
<1>2. CASE UNCHANGED <<secrets, secDir>>
  BY <1>1, <1>2 DEF SecretsVerdict
<1>3. CASE DeleteSecrets
  <2>1. UNCHANGED config
    BY <1>3 DEF DeleteSecrets, RemoveSecrets, fileVars
  <2>2. ConfigVerdict(s)' = "ok"
    BY <1>1, <2>1 DEF ConfigVerdict
  <2> QED
    BY <2>2 DEF LoadVerdict
<1>4. CASE DeleteDir
  <2>1. UNCHANGED secrets
    BY <1>4 DEF DeleteDir, RemoveSecretsDir, fileVars
  <2>2. UNCHANGED secDir \/ (RemoveSecretsDir(svc) /\ (secDir[svc] => DirEmpty(svc)))
    BY <1>4 DEF DeleteDir, fileVars
  <2>3. secDir'[s]
    BY <1>1, <2>2 DEF RemoveSecretsDir, DirEmpty, SharedTypeOK, FilesTypeOK
  <2> QED
    BY <1>1, <2>1, <2>3 DEF SecretsVerdict
<1>5. ASSUME NEW t \in Services, NEW v \in Versions, Deployed(t, v)
      PROVE  SecretsVerdict(s)' # "SecretsMissing"
  <2>1. secrets'[s] # NoFile /\ secDir'[s]
    BY <1>1, <1>5, FileMarks DEF Deployed, SharedTypeOK, FilesTypeOK
  <2> QED
    BY <2>1 DEF SecretsVerdict
<1>6. CASE Step /\ ~DeleteSecrets /\ ~DeleteDir
  BY <1>2, <1>6 DEF Step, Load, Stop, Remove, DeleteConfig, Publish, Inspect, DockerStart, DockerRun, Logs,
       OnlyContext, OnlyDocker, fileVars, RemoveConfig
<1>7. ASSUME Watch \/ \E c \in Commands, t \in Services : Begin(c, t) PROVE UNCHANGED <<secrets, secDir>>
  BY <1>7 DEF Watch, Begin, fileVars
<1>8. ASSUME World, ~\E t \in Services, v \in Versions : Deployed(t, v) PROVE UNCHANGED <<secrets, secDir>>
  BY <1>8 DEF World, CtrlC, Crash, Prune, CaddyStops, CaddyUp, Exits, Revives, OnlyContext, OnlyDocker, fileVars
<1> QED
  BY <1>2, <1>3, <1>4, <1>5, <1>6, <1>7, <1>8 DEF Next

(* A row is printed. *)
LEMMA RowPrinted ==
  ASSUME TypeOK, ListInv, Observe, faults' >= faults, faults' \in Nat, NEW r \in Rows,
         wpc \in {"config", "stat", "read", "inspect"}, Row(r),
         \/ Reason[r] \in seen[wsvc]
         \/ r = "error" /\ (faults' > 0 \/ {"ok", "SecretsMissing"} \subseteq seen[wsvc])
  PROVE  ListInv'
<1>1. /\ \A s \in Services : LoadVerdict(s)' \in seen'[s]
      /\ \A s \in Services : seen[s] \subseteq seen'[s]
  BY SeenGrows, TypeSplit DEF Row
<1>2. ASSUME NEW s \in Services, s \notin todo PROVE RowSeen(s)'
  <2>1. CASE s = wsvc
    <3>1. rows'[s] = r
      BY <2>1 DEF Row, TypeOK
    <3> QED
      BY <1>1, <2>1, <3>1 DEF RowSeen
  <2>2. CASE s # wsvc
    <3>1. RowSeen(s) /\ rows'[s] = rows[s]
      BY <1>2, <2>2 DEF Row, ListInv, TypeOK
    <3>2. faults > 0 => faults' > 0
      BY DockerMarks DEF TypeOK, DockerTypeOK
    <3> QED
      BY <1>1, <3>1, <3>2 DEF RowSeen
  <2> QED
    BY <2>1, <2>2
<1>3. \A s \in Services : s \in todo => rows'[s] = "none"
  BY DEF Row, ListInv, TypeOK
<1> QED
  BY <1>1, <1>2, <1>3 DEF Row, ListInv

LEMMA ListKeeps ==
  ASSUME TypeOK, CommandInv, ListInv, Next
  PROVE  ListInv'
<1>0. /\ SharedTypeOK /\ LocalTypeOK /\ ListTypeOK /\ SeenTypeOK
      /\ Observe
  BY TypeSplit DEF CommandTypeOK, Next
<1>1. faults' >= faults /\ faults \in Nat /\ faults' \in Nat
  <2>1. Step => Answered \/ Refused \/ CallFails \/ FileFails \/ UNCHANGED contextVars
    BY DEF Step, Load, Stop, Remove, DeleteSecrets, DeleteDir, DeleteConfig, Publish, Inspect, DockerStart, DockerRun, Logs, NotDone
  <2>2. World => CallFails \/ Signal \/ Fault \/ UNCHANGED contextVars
    BY DEF World, CtrlC, Crash, Prune, CaddyStops, CaddyUp, Exits, Revives, Deployed
  <2>3. ASSUME NEW c \in Commands, NEW s \in Services, Begin(c, s) PROVE faults' = faults
    BY <2>3 DEF Begin
  <2>4. faults \in Nat /\ faults' \in Nat
    BY StepType DEF TypeOK, DockerTypeOK
  <2> QED
    BY <1>0, <2>1, <2>2, <2>3, <2>4, ContextType, WatchType DEF Next, SharedTypeOK
<1>2. wpc' # "idle" =>
        /\ \A s \in Services : LoadVerdict(s)' \in seen'[s]
        /\ wpc # "idle" => \A s \in Services : seen[s] \subseteq seen'[s]
        /\ wpc = "idle" => \A s \in Services : LoadVerdict(s) \in seen'[s]
  BY <1>0, SeenGrows
<1>3. CASE UNCHANGED watchVars
  <2>1. CASE wpc = "idle"
    BY <1>3, <2>1 DEF ListInv, watchVars
  <2>2. CASE wpc # "idle"
    <3>1. ASSUME NEW s \in Services, RowSeen(s) PROVE RowSeen(s)'
      BY <1>1, <1>2, <1>3, <2>2, <3>1 DEF RowSeen, watchVars
    <3>2. wpc = "stat" => ConfigVerdict(wsvc)' = "ok" \/ "SecretsMissing" \in seen'[wsvc]
      <4> SUFFICES ASSUME wpc = "stat" PROVE ConfigVerdict(wsvc)' = "ok" \/ "SecretsMissing" \in seen'[wsvc]
        OBVIOUS
      <4>1. LoadVerdict(wsvc) \in seen[wsvc] /\ seen[wsvc] \subseteq seen'[wsvc] /\ wsvc \in Services
        BY <1>0, <1>2, <1>3, <2>2 DEF ListInv, watchVars, ListTypeOK
      <4>2. CASE ConfigVerdict(wsvc) = "ok"
        <5>1. \A s \in Services : ConfigVerdict(s) = "ok" => ConfigVerdict(s)' = "ok" \/ LoadVerdict(s) = "SecretsMissing"
          BY <1>0, ConfigLast
        <5>2. wsvc' = wsvc
          BY <1>3 DEF watchVars
        <5> QED
          BY <4>1, <4>2, <5>1, <5>2 DEF ConfigVerdict
      <4>3. CASE "SecretsMissing" \in seen[wsvc]
        BY <4>1, <4>3
      <4> QED
        BY <4>2, <4>3 DEF ListInv
    <3>5. wpc = "read" => Found(wsvc)'
      <4> SUFFICES ASSUME wpc = "read" PROVE Found(wsvc)'
        OBVIOUS
      <4>1. /\ LoadVerdict(wsvc)' \in seen'[wsvc] /\ seen[wsvc] \subseteq seen'[wsvc]
            /\ wsvc \in Services /\ wsvc' = wsvc /\ Found(wsvc)
        BY <1>0, <1>2, <1>3, <2>2 DEF ListInv, watchVars, ListTypeOK
      <4>2. SecretsVerdict(wsvc) # "SecretsMissing" =>
              SecretsVerdict(wsvc)' # "SecretsMissing" \/ LoadVerdict(wsvc)' = "SecretsMissing"
        <5>1. \A s \in Services : SecretsVerdict(s) # "SecretsMissing" =>
                 SecretsVerdict(s)' # "SecretsMissing" \/ LoadVerdict(s)' = "SecretsMissing"
          BY <1>0, SecretsFirst
        <5> QED
          BY <4>1, <5>1 DEF SecretsVerdict, LoadVerdict, ConfigVerdict
      <4> QED
        BY <4>1, <4>2 DEF Found
    <3>3. wpc = "inspect" => "ok" \in seen'[wsvc]
      BY <1>0, <1>2, <1>3, <2>2 DEF ListInv, watchVars, ListTypeOK
    <3>4. wsvc' = wsvc /\ todo' = todo /\ rows' = rows /\ wpc' = wpc
      BY <1>3 DEF watchVars
    <3> QED
      BY <1>2, <2>2, <3>1, <3>2, <3>3, <3>4, <3>5 DEF ListInv
  <2> QED
    BY <2>1, <2>2
<1>4. CASE Watch
  <2>0. /\ UNCHANGED <<container, config, secrets, secDir>>
        /\ \A s : ConfigVerdict(s)' = ConfigVerdict(s)
    BY <1>4 DEF Watch, dockerVars, fileVars, ConfigVerdict
  <2>1. CASE WatchStarts
    <3>1. \A s \in Services : rows[s] = "none" /\ rows' = rows
      BY <2>1 DEF WatchStarts, ListInv
    <3>2. ASSUME NEW s \in Services, s \notin ListedNames PROVE RowSeen(s)'
      <4>1. LoadVerdict(s) = "NotFound" /\ Reason["none"] = "NotFound"
        BY <3>2, FileMarks DEF ListedNames, LoadVerdict, ConfigVerdict, Reason, Rows
      <4> QED
        BY <1>2, <2>1, <3>1, <4>1 DEF WatchStarts, RowSeen
    <3> QED
      BY <1>2, <2>1, <3>1, <3>2 DEF WatchStarts, ListInv
  <2>2. CASE WatchNext
    <3>1. CASE /\ todo # {} /\ wpc' = "config" /\ UNCHANGED rows
               /\ wsvc' = (CHOOSE s \in todo : TRUE) /\ todo' = todo \ {wsvc'}
      <4>1. wpc = "next" /\ wsvc' \in todo
        BY <2>2, <3>1 DEF WatchNext
      <4>2. ASSUME NEW s \in Services, RowSeen(s) PROVE RowSeen(s)'
        BY <1>1, <1>2, <3>1, <4>1, <4>2 DEF RowSeen
      <4> QED
        BY <1>2, <3>1, <4>1, <4>2 DEF ListInv
    <3>2. CASE wpc' = "idle" /\ rows' = [s \in Services |-> "none"]
      BY <3>2 DEF ListInv
    <3> QED
      BY <2>2, <3>1, <3>2 DEF WatchNext
  <2>3. ASSUME NEW step \in {"stat", "read", "inspect"}, Onward(step), wpc # "idle", wpc # "next",
               step = "stat" => ConfigVerdict(wsvc) = "ok",
               step = "read" => Found(wsvc),
               step = "inspect" => "ok" \in seen[wsvc]
        PROVE  ListInv'
    <3>1. ASSUME NEW s \in Services, RowSeen(s) PROVE RowSeen(s)'
      BY <1>1, <1>2, <2>3, <3>1 DEF RowSeen, Onward
    <3>2. wsvc' = wsvc /\ wsvc \in Services
      BY <1>0, <2>3 DEF Onward, ListTypeOK
    <3>3. step = "stat" => ConfigVerdict(wsvc)' = "ok"
      BY <2>0, <2>3, <3>2 DEF ConfigVerdict
    <3>4. step = "read" => Found(wsvc)'
      BY <1>2, <2>0, <2>3, <3>2 DEF Found, SecretsVerdict, Onward
    <3> QED
      BY <1>0, <1>2, <2>3, <3>1, <3>2, <3>3, <3>4 DEF Onward, ListInv, ListTypeOK
  <2>4. wpc \notin {"idle", "next"} => wsvc \in Services /\ LoadVerdict(wsvc) \in seen[wsvc]
    BY <1>0 DEF ListInv, ListTypeOK
  <2>5. CASE WatchConfig
    <3>1. CASE ConfigVerdict(wsvc) = "NotFound" /\ RowIs("none")
      <4>1. Reason["none"] = LoadVerdict(wsvc) /\ "none" \in Rows
        BY <3>1 DEF Reason, Rows, LoadVerdict
      <4> QED
        BY <1>0, <1>1, <2>4, <2>5, <3>1, <4>1, RowPrinted DEF RowIs, WatchConfig
    <3>2. CASE ConfigVerdict(wsvc) = "Malformed" /\ RowIs("error")
      <4>1. Reason["error"] = LoadVerdict(wsvc) /\ "error" \in Rows
        BY <3>2 DEF Reason, Rows, LoadVerdict
      <4> QED
        BY <1>0, <1>1, <2>4, <2>5, <3>2, <4>1, RowPrinted DEF RowIs, WatchConfig
    <3>3. CASE ConfigVerdict(wsvc) = "ok" /\ Onward("stat")
      BY <2>3, <2>5, <3>3 DEF WatchConfig
    <3> QED
      BY <2>5, <3>1, <3>2, <3>3, Verdicts DEF WatchConfig
  <2>6. ASSUME wpc \in {"stat", "read"}, SecretsVerdict(wsvc) # "SecretsMissing"
        PROVE  LoadVerdict(wsvc) = SecretsVerdict(wsvc)
    <3>1. secrets[wsvc] # NoFile /\ wsvc \in Services
      BY <2>4, <2>6, FileMarks DEF SecretsVerdict
    <3>2. config[wsvc] # NoFile /\ config[wsvc] # Broken
      BY <3>1 DEF CommandInv, Whole
    <3> QED
      BY <3>2 DEF LoadVerdict, ConfigVerdict
  <2>9. CASE WatchStat
    <3>0. wpc = "stat" /\ (ConfigVerdict(wsvc) = "ok" \/ "SecretsMissing" \in seen[wsvc])
      BY <2>9 DEF WatchStat, ListInv
    <3>1. CASE SecretsVerdict(wsvc) = "SecretsMissing" /\ RowIs("config-only")
      <4>1. Reason["config-only"] = "SecretsMissing" /\ "config-only" \in Rows
        BY DEF Reason, Rows
      <4>2. "SecretsMissing" \in seen[wsvc]
        BY <2>4, <3>0, <3>1 DEF LoadVerdict
      <4> QED
        BY <1>0, <1>1, <3>0, <3>1, <4>1, <4>2, RowPrinted DEF RowIs
    <3>2. CASE SecretsVerdict(wsvc) = "Malformed" /\ RowIs("error")
      <4>1. Reason["error"] = "Malformed" /\ "error" \in Rows
        BY DEF Reason, Rows
      <4>2. LoadVerdict(wsvc) = "Malformed"
        BY <2>6, <3>0, <3>2
      <4> QED
        BY <1>0, <1>1, <2>4, <3>0, <3>2, <4>1, <4>2, RowPrinted DEF RowIs
    <3>3. CASE SecretsVerdict(wsvc) # "SecretsMissing" /\ Onward("read")
      <4>1. LoadVerdict(wsvc) \in {"ok", "Malformed"}
        BY <2>6, <3>0, <3>3, Verdicts
      <4>2. Found(wsvc)
        BY <2>4, <3>0, <3>3, <4>1 DEF Found
      <4> QED
        BY <2>3, <3>0, <3>3, <4>2
    <3> QED
      BY <2>9, <3>1, <3>2, <3>3 DEF WatchStat
  <2>10. CASE WatchRead
    <3>0. wpc = "read" /\ Found(wsvc)
      BY <2>10 DEF WatchRead, ListInv
    <3>1. CASE SecretsVerdict(wsvc) = "ok" /\ Onward("inspect")
      <4>1. "ok" \in seen[wsvc]
        BY <2>4, <2>6, <3>0, <3>1
      <4> QED
        BY <2>3, <3>0, <3>1, <4>1
    <3>2. CASE SecretsVerdict(wsvc) # "ok" /\ RowIs("error")
      <4>1. Reason["error"] = "Malformed" /\ "error" \in Rows
        BY DEF Reason, Rows
      <4>2. "Malformed" \in seen[wsvc] \/ {"ok", "SecretsMissing"} \subseteq seen[wsvc]
        BY <2>4, <2>6, <3>0, <3>2, Verdicts DEF Found
      <4> QED
        BY <1>0, <1>1, <3>0, <3>2, <4>1, <4>2, RowPrinted DEF RowIs
    <3> QED
      BY <2>10, <3>1, <3>2 DEF WatchRead
  <2>7. CASE WatchInspect
    <3>1. wpc = "inspect" /\ "ok" \in seen[wsvc]
      BY <2>7 DEF WatchInspect, ListInv
    <3>2. Shown(container[wsvc].st) \in {"absent", "created", "running", "restarting", "stopped"}
      BY <1>0, <3>1 DEF SharedTypeOK, DockerTypeOK, ListTypeOK, AContainer, States, Shown
    <3>3. \A r \in {"absent", "created", "running", "restarting", "stopped"} : r \in Rows /\ Reason[r] = "ok"
      BY DEF Rows, States, Reason
    <3> QED
      BY <1>0, <1>1, <2>7, <3>1, <3>2, <3>3, RowPrinted DEF WatchInspect, RowIs
  <2>8. CASE WatchFails
    <3>1. faults' > 0 /\ "error" \in Rows
      BY <1>1, <2>8 DEF WatchFails, Rows
    <3> QED
      BY <1>0, <1>1, <2>8, <3>1, RowPrinted DEF WatchFails
  <2> QED
    BY <1>4, <2>1, <2>2, <2>5, <2>7, <2>8, <2>9, <2>10 DEF Watch
<1> QED
  BY <1>3, <1>4 DEF Next, World
-----------------------------------------------------------------------------
LEMMA Inductive == Spec => []IInv
<1>1. Init => IInv
  <2> SUFFICES ASSUME Init PROVE IInv
    OBVIOUS
  <2>1. TypeOK
    BY InitType
  <2>2. CmdAt /\ Removed /\ Known /\ NetUp
    BY DEF Init, CmdAt, Removed, Known, NetUp
  <2>3. Whole
    <3>1. PICK odd \in Handled, u \in Versions, v \in Versions :
            \E files \in {<<NoFile, NoFile>>, <<v, v>>, <<v, NoFile>>, <<v, Broken>>} :
              /\ config  = [s \in Services |-> IF s = odd THEN files[1] ELSE u]
              /\ secrets = [s \in Services |-> IF s = odd THEN files[2] ELSE u]
      BY DEF Init
    <3>2. PICK files \in {<<NoFile, NoFile>>, <<v, v>>, <<v, NoFile>>, <<v, Broken>>} :
            /\ config  = [s \in Services |-> IF s = odd THEN files[1] ELSE u]
            /\ secrets = [s \in Services |-> IF s = odd THEN files[2] ELSE u]
      BY <3>1
    <3>3. files[1] # Broken /\ (files[2] # NoFile => files[1] # NoFile) /\ u # Broken /\ u # NoFile
      BY <3>2, FileMarks
    <3> QED
      BY <3>2, <3>3 DEF Whole
  <2>4. ListInv
    BY DEF Init, ListInv
  <2> QED
    BY <2>1, <2>2, <2>3, <2>4 DEF IInv, CommandInv
<1>2. IInv /\ [Next]_vars => IInv'
  <2> SUFFICES ASSUME IInv, [Next]_vars PROVE IInv'
    OBVIOUS
  <2>1. TypeOK' /\ CommandInv'
    BY StepType, NextKeeps DEF IInv
  <2>2. ListInv'
    <3>1. CASE Next
      BY <3>1, ListKeeps DEF IInv
    <3>2. CASE UNCHANGED vars
      BY <3>2 DEF vars, IInv, ListInv, watchVars, contextVars, fileVars, RowSeen, Found, LoadVerdict, ConfigVerdict, SecretsVerdict
    <3> QED
      BY <3>1, <3>2
  <2> QED
    BY <2>1, <2>2 DEF IInv
<1> QED
  BY <1>1, <1>2, PTL DEF Spec

(* Every variable keeps its type; the container states in particular are   *)
(* those docker reports.                                                   *)
THEOREM TypeCorrect == Spec => []TypeOK
BY Inductive, PTL DEF IInv

(* What a listing prints was true of each service at some moment while it  *)
(* ran, for any number of services deployed and unregistered beside it; an *)
(* "error" row that was not, and that no call's failure explains, is of a  *)
(* service whose secrets went between the look and the read.               *)
THEOREM RowsTrue == Spec => RowsWereTrue
<1>1. ASSUME IInv, [Next]_vars, wpc = "next", wpc' = "idle", NEW s \in Services
      PROVE  RowSeen(s)
  <2>1. WatchNext
    <3>1. ~UNCHANGED watchVars
      BY <1>1 DEF watchVars
    <3>2. Watch
      BY <1>1, <3>1 DEF Next, World, vars
    <3> QED
      BY <1>1, <3>2 DEF Watch, WatchStarts, WatchConfig, WatchStat, WatchRead, WatchInspect, WatchFails, RowIs, Row, Onward
  <2>2. todo = {}
    BY <1>1, <2>1 DEF WatchNext
  <2> QED
    BY <1>1, <2>2 DEF IInv, ListInv
<1>2. IInv /\ [Next]_vars =>
        [wpc = "next" /\ wpc' = "idle" =>
           \A s \in Services :
             \/ Reason[rows[s]] \in seen[s]
             \/ rows[s] = "error" /\ (faults > 0 \/ {"ok", "SecretsMissing"} \subseteq seen[s])]_vars
  BY <1>1 DEF RowSeen
<1> QED
  BY <1>2, Inductive, PTL DEF Spec, RowsWereTrue

(* A command ends in one of its own steps. *)
LEMMA EndsInStep ==
  ASSUME Next, NEW c, Ends(c)
  PROVE  Step
BY DEF Ends, Next, World, Watch, CtrlC, Crash, Prune, CaddyStops, CaddyUp, Exits, Revives, Deployed, OnlyWorld, At, Begin

(* Exit codes of a command: 0 and 60 come from where they should. *)
LEMMA CodeOfReturn ==
  /\ \A s : \A err \in LoadErrors(s) : ExitCodeFor(err) \notin {ExitOK, ExitCaddyReloadFail}
  /\ \A err \in {Plain, {"Run"}, {"NotFound"}} : ExitCodeFor(err) \notin {ExitOK, ExitCaddyReloadFail}
  /\ ExitCodeFor({"CaddyReload"}) # ExitOK
BY LoadCodes, CommandCodes, CodesDiffer

(* Unregister that exits 0 or 60 has removed the registration, and after 0 *)
(* the route; the container only if docker did as it was told, and other   *)
(* services' routes stay only if List read their files.                    *)
THEOREM Unregistered == Spec => UnregisterRemoves
<1>1. ASSUME IInv, [Next]_vars, Ends("unregister"), exit' \in {ExitOK, ExitCaddyReloadFail}
      PROVE  /\ config'[svc] = NoFile /\ secrets'[svc] = NoFile /\ ~secDir'[svc]
             /\ exit' = ExitOK => /\ svc \notin live' /\ live' \subseteq Sites' /\ disk' = live'
                                  /\ live' = Sites' \/ trouble'
             /\ container'[svc].st = "absent" \/ trouble'
  <2>1. Step /\ CommandInv /\ cmd = "unregister"
    <3>1. Next
      BY <1>1 DEF vars, Ends, At
    <3> QED
      BY <1>1, <3>1, EndsInStep DEF IInv, Ends
  <2>2. Publish
    <3>1. ~Load
      BY <1>1, CodeOfReturn DEF Load, Return, Goto, Ends, AfterLoad, At
    <3>2. ~Stop /\ ~Remove
      BY <1>1, <2>1 DEF Stop, Remove, Goto, Ends
    <3>3. ~DeleteSecrets /\ ~DeleteDir /\ ~DeleteConfig
      BY <1>1, CodeOfReturn DEF DeleteSecrets, DeleteDir, DeleteConfig, Return, Goto, Ends
    <3>4. ~Inspect /\ ~DockerStart /\ ~DockerRun /\ ~Logs
      BY <2>1 DEF Inspect, DockerStart, DockerRun, Logs, At, CommandInv, CmdAt
    <3> QED
      BY <2>1, <3>1, <3>2, <3>3, <3>4 DEF Step
  <2>3. /\ config[svc] = NoFile /\ secrets[svc] = NoFile /\ ~secDir[svc]
        /\ container[svc].st = "absent" \/ trouble
    BY <2>1, <2>2 DEF Publish, At, CommandInv, Removed
  <2>4. UNCHANGED <<dockerVars, fileVars>> /\ (trouble => trouble')
    BY <2>2 DEF Publish, Fine, Failed, FileFails
  <2>5. exit' = ExitOK => live' \subseteq Sites /\ disk' = live' /\ (live' = Sites \/ trouble')
    BY <2>2, CodeOfReturn DEF Publish, Return, FileFails, Failed
  <2>6. Sites' = Sites
    BY <2>4 DEF Sites, Loadable, LoadVerdict, ConfigVerdict, SecretsVerdict, fileVars
  <2>7. svc \notin Sites
    BY <2>3 DEF Sites, Loadable, LoadVerdict, ConfigVerdict
  <2> QED
    BY <2>3, <2>4, <2>5, <2>6, <2>7 DEF dockerVars, fileVars
<1>2. IInv /\ [Next]_vars =>
        [Ends("unregister") /\ exit' \in {ExitOK, ExitCaddyReloadFail} =>
           /\ config'[svc] = NoFile /\ secrets'[svc] = NoFile /\ ~secDir'[svc]
           /\ exit' = ExitOK => /\ svc \notin live' /\ live' \subseteq Sites' /\ disk' = live'
                                /\ live' = Sites' \/ trouble'
           /\ container'[svc].st = "absent" \/ trouble']_vars
  BY <1>1
<1> QED
  BY <1>2, Inductive, PTL DEF Spec, UnregisterRemoves

(* A start or a restart ends with 0 in one of three ways. *)
LEMMA StartedBy ==
  ASSUME TypeOK, CommandInv, Step, Ends("start") \/ Ends("restart"), exit' = ExitOK
  PROVE  \/ Inspect /\ container[svc].st = "running" /\ UNCHANGED dockerVars /\ Fine
         \/ DockerStart /\ SetContainer(svc, AfterStart(container[svc])) /\ Fine
         \/ DockerRun /\ SetContainer(svc, Fresh) /\ Fine
<1>0. cmd \in {"start", "restart"} /\ pc' = "idle"
  BY DEF Ends
<1>1. ~Load
  BY <1>0, CodeOfReturn DEF Load, Return, Goto, AfterLoad
<1>2. ~Stop
  <2>1. CASE cmd = "start"
    BY <2>1 DEF Stop, At, CommandInv, CmdAt
  <2>2. CASE cmd = "restart" /\ Stop
    <3>1. Goto("load") \/ Return({"Run"})
      BY <2>2 DEF Stop
    <3> QED
      BY <1>0, <3>1, CodeOfReturn DEF Goto, Return
  <2> QED
    BY <1>0, <2>1, <2>2
<1>3. ~Remove /\ ~DeleteSecrets /\ ~DeleteDir /\ ~DeleteConfig /\ ~Publish /\ ~Logs
  BY <1>0 DEF Remove, DeleteSecrets, DeleteDir, DeleteConfig, Publish, Logs, At, CommandInv, CmdAt
<1>4. CASE Inspect
  BY <1>0, <1>4, CodeOfReturn DEF Inspect, Return, Goto, OnlyContext
<1>5. CASE DockerStart
  BY <1>5, CodeOfReturn DEF DockerStart, Return
<1>6. CASE DockerRun
  BY <1>6, CodeOfReturn DEF DockerRun, Return, AfterRun, Made
<1> QED
  BY <1>1, <1>2, <1>3, <1>4, <1>5, <1>6 DEF Step

(* Start and restart that exit 0 leave the service running, and one made   *)
(* again has the image and the environment of its registration.            *)
THEOREM StartedRuns == Spec => ZeroMeansRunning
<1>1. ASSUME IInv, [Next]_vars, Ends("start") \/ Ends("restart"), exit' = ExitOK
      PROVE  /\ container'[svc].st = "running"
             /\ was.st = "absent" /\ ~trouble' => container'[svc] = Running(svc, config[svc], secrets[svc])
  <2>1. Step
    <3>1. Next
      BY <1>1 DEF vars, Ends, At
    <3> QED
      BY <1>1, <3>1, EndsInStep
  <2>2. /\ CommandInv /\ TypeOK /\ cmd \in {"start", "restart"}
        /\ svc \in Services /\ container[svc] \in AContainer
    BY <1>1 DEF IInv, TypeOK, DockerTypeOK, Ends
  <2>3. CASE Inspect /\ container[svc].st = "running" /\ UNCHANGED dockerVars /\ Fine
    <3>1. pc = "inspect"
      BY <2>3 DEF Inspect, At
    <3>2. ~trouble => container[svc] \in {was, AfterStop(was)}
      BY <2>2, <3>1 DEF CommandInv, Known
    <3> QED
      BY <2>3, <3>2 DEF dockerVars, Fine, AfterStop, IsUp
  <2>4. CASE DockerStart /\ SetContainer(svc, AfterStart(container[svc])) /\ Fine
    <3>1. container'[svc] = AfterStart(container[svc]) /\ pc = "docker_start"
      BY <2>2, <2>4 DEF SetContainer, TypeOK, DockerTypeOK, DockerStart, At
    <3>2. container'[svc].st = "running"
      BY <2>2, <3>1 DEF AfterStart, AContainer
    <3>3. ~trouble => container[svc].st = "exited" /\ container[svc] \in {was, AfterStop(was)}
      BY <2>2, <3>1 DEF CommandInv, Known
    <3>4. was.st = "absent" => trouble
      BY <3>3 DEF AfterStop, IsUp
    <3> QED
      BY <2>4, <3>2, <3>4 DEF Fine
  <2>5. CASE DockerRun /\ SetContainer(svc, Fresh) /\ Fine
    <3>1. container'[svc] = Fresh /\ loaded = [img |-> config[svc], env |-> secrets[svc]]
      BY <2>2, <2>5 DEF SetContainer, TypeOK, DockerTypeOK, DockerRun, At, CommandInv, Known
    <3> QED
      BY <3>1 DEF Fresh, Running
  <2> QED
    BY <1>1, <2>1, <2>2, <2>3, <2>4, <2>5, StartedBy
<1>2. IInv /\ [Next]_vars =>
        [(Ends("start") \/ Ends("restart")) /\ exit' = ExitOK =>
           /\ container'[svc].st = "running"
           /\ was.st = "absent" /\ ~trouble' => container'[svc] = Running(svc, config[svc], secrets[svc])]_vars
  BY <1>1
<1> QED
  BY <1>2, Inductive, PTL DEF Spec, ZeroMeansRunning

(* A restart of a running service that nothing fails gives back the same   *)
(* container, running, if the service can be loaded, and otherwise ends    *)
(* with an error and leaves it stopped.                                    *)
THEOREM RestartKeeps == Spec => RestartKeepsUp
<1> DEFINE Kept == IF Loadable(svc) THEN exit' = ExitOK /\ container'[svc] = was
                                    ELSE exit' # ExitOK /\ container'[svc] = AfterStop(was)
<1>1. ASSUME IInv, [Next]_vars, Ends("restart"), was.st = "running", ~trouble'
      PROVE  Kept
  <2>1. Step
    <3>1. Next
      BY <1>1 DEF vars, Ends, At
    <3> QED
      BY <1>1, <3>1, EndsInStep
  <2>2. /\ CommandInv /\ TypeOK /\ cmd = "restart" /\ pc' = "idle" /\ was \in AContainer
        /\ svc \in Services /\ container[svc] \in AContainer
    BY <1>1 DEF IInv, TypeOK, DockerTypeOK, Ends
  <2>3. ~trouble => network /\ container[svc] = IF pc = "stop" THEN was ELSE AfterStop(was)
    BY <1>1, <2>2 DEF CommandInv, Known
  <2>4. AfterStop(was).st = "exited" /\ AfterStart(AfterStop(was)) = was
    BY <1>1, <2>2 DEF AfterStop, IsUp, AfterStart, AContainer
  <2>5. CASE Load
    <3>1. PICK err \in LoadErrors(svc) : Return(err) /\ Fine /\ UNCHANGED container /\ pc = "load"
      BY <1>1, <2>2, <2>5 DEF Load, Goto, AfterLoad, FileFails, Failed, OnlyContext, dockerVars, At
    <3>2. ~Loadable(svc)
      BY <3>1 DEF LoadErrors, Loadable
    <3>3. exit' # ExitOK
      BY <3>1, CodeOfReturn DEF Return
    <3> QED
      BY <1>1, <2>3, <3>1, <3>2, <3>3 DEF Fine
  <2>6. ~Stop
    BY <1>1, <2>2 DEF Stop, NotDone, Failed, Goto
  <2>7. ~Remove /\ ~DeleteSecrets /\ ~DeleteDir /\ ~DeleteConfig /\ ~Publish /\ ~Logs
    BY <2>2 DEF Remove, DeleteSecrets, DeleteDir, DeleteConfig, Publish, Logs, At, CommandInv, CmdAt
  <2>8. ~Inspect
    <3>1. pc = "inspect" /\ ~trouble => container[svc].st = "exited"
      BY <2>3, <2>4
    <3> QED
      BY <1>1, <2>2, <3>1 DEF Inspect, At, Failed, Fine, Goto
  <2>9. ~DockerRun
    <3>1. pc = "docker_run" => trouble
      BY <2>2, <2>3, <2>4 DEF CommandInv, Known
    <3> QED
      BY <1>1, <3>1 DEF DockerRun, At, Failed, Fine
  <2>10. CASE DockerStart
    <3>1. Fine /\ pc = "docker_start" /\ Loadable(svc)
      BY <1>1, <2>2, <2>10 DEF DockerStart, NotDone, Failed, At, CommandInv, Known
    <3>2. ~trouble /\ network /\ container[svc] = AfterStop(was)
      BY <1>1, <2>3, <3>1 DEF Fine
    <3>3. SetContainer(svc, AfterStart(container[svc])) /\ Return(NoError)
      BY <1>1, <2>4, <2>10, <3>2 DEF DockerStart, NotDone, Failed
    <3>4. exit' = ExitOK
      BY <3>3, CommandCodes DEF Return
    <3> QED
      BY <2>2, <2>4, <3>1, <3>2, <3>3, <3>4 DEF SetContainer, TypeOK, DockerTypeOK
  <2> QED
    BY <2>1, <2>5, <2>6, <2>7, <2>8, <2>9, <2>10 DEF Step
<1>2. IInv /\ [Next]_vars =>
        [Ends("restart") /\ was.st = "running" /\ ~trouble' =>
           IF Loadable(svc) THEN exit' = ExitOK /\ container'[svc] = was
                            ELSE exit' # ExitOK /\ container'[svc] = AfterStop(was)]_vars
  BY <1>1
<1> QED
  BY <1>2, Inductive, PTL DEF Spec, RestartKeepsUp
=============================================================================
