----------------------------- MODULE DeployProofs -----------------------------
(***************************************************************************)
(* Proofs about Deploy, for any sets of services, deploys and hostnames    *)
(* and any number of failures, signals and crashes: what is registered has *)
(* passed its probe, what is on disk Caddy accepts, and the exit codes 0   *)
(* and 60 say what they mean.                                               *)
(***************************************************************************)
EXTENDS Deploy, TLAPS

Typed ==
  /\ config = [s \in Services |-> config[s]]
  /\ secrets = [s \in Services |-> secrets[s]]
  /\ container = [s \in Services |-> container[s]]
  /\ req \in [svc : Services, id : Versions \union {None}]

(* The deploy a finished command was for is forgotten, and the codes kept  *)
(* while cleaning up are those of real failures.                            *)
Idle == pc = "idle" => I = None

Failure == code \notin {ExitOK, ExitCaddyReloadFail, Killed}

(* How far the deploy has got. *)
NewRuns == pc \in {"readiness", "save_config", "save_secrets"} => container[S] = New

Registered == container[S] = New /\ config[S] = I /\ secrets[S] = I

Stage ==
  /\ NewRuns
  /\ pc = "save_config" => I \in probed
  /\ pc = "save_secrets" => config[S] = I
  /\ pc \in IngressSteps /\ Deploying => Registered

(* How far the publication of the Caddyfile has got. *)
Published ==
  /\ pc \in {"validate", "rename"} => tmp = Listed(unlisted)
  /\ pc = "rename" => Accepts(tmp)
  /\ pc = "reload" => disk = Listed(unlisted) /\ disk # NoConfig

IInv == /\ Typed /\ Idle /\ Failure
        /\ Stage
        /\ Published
        /\ OnlyProbedRegistered
        /\ DiskAcceptable
-----------------------------------------------------------------------------
(* The site blocks depend on the registry alone. *)
LEMMA SitesFrame ==
  UNCHANGED <<hostsOf, config, secrets, secDir>> => Sites' = Sites
BY DEF Sites, Loadable, LoadVerdict, ConfigVerdict, SecretsVerdict

LEMMA InvInit == Init => IInv
<1> SUFFICES ASSUME Init PROVE IInv
  OBVIOUS
<1> USE DEF Init
<1>1. Typed /\ Idle /\ Failure
  BY DEF Typed, Idle, Failure, I, ExitOK, ExitCaddyReloadFail, Killed, Pending
<1>2. Stage /\ Published
  BY DEF Stage, NewRuns, Published, IngressSteps
<1>3. OnlyProbedRegistered
  BY FileMarks DEF FileMarks, OnlyProbedRegistered
<1>4. DiskAcceptable
  BY DEF DiskAcceptable
<1> QED
  BY <1>1, <1>2, <1>3, <1>4 DEF IInv

(* Every step keeps the invariant. *)
LEMMA InvNext == IInv /\ [Next]_vars => IInv'
<1> SUFFICES ASSUME IInv, [Next]_vars PROVE IInv'
  OBVIOUS
<1> USE DEF IInv, Typed, Idle, Failure, Stage, NewRuns, Registered, Published, OnlyProbedRegistered,
            DiskAcceptable, Listed, Deploying, IngressSteps, S, I, New, At, Goto, Return, CleanUpAfter,
            OnlyContext, OnlyDocker, SetContainer,
            dockerVars, contextVars, fileVars, caddyVars, commandVars, histVars,
            ExitOK, ExitCaddyReloadFail, Killed, Pending
<1>1. ASSUME NEW s \in Services, NEW hosts \in SUBSET Hosts, BeginDeploy(s, hosts) PROVE IInv'
  BY <1>1, SitesFrame DEF BeginDeploy, Recorded
<1>2. ASSUME BeginReload PROVE IInv'
  BY <1>2, SitesFrame DEF BeginReload
<1>3. ASSUME NetworkEnsure PROVE IInv'
  <2>1. /\ UNCHANGED <<container, config, secrets, secDir, disk, tmp, probed>>
        /\ At("network")
    BY <1>3 DEF NetworkEnsure
  <2>2. Goto("envcap") \/ Return(ExitRunFail)
    BY <1>3 DEF NetworkEnsure
  <2> QED
    BY <2>1, <2>2, SitesFrame
<1>4. ASSUME EnvCapture PROVE IInv'
  BY <1>4, SitesFrame DEF EnvCapture, ExitConfigError, ExitEnvCaptureFail
<1>5. ASSUME LoadPrev PROVE IInv'
  BY <1>5, SitesFrame DEF LoadPrev
<1>6. ASSUME LoadPrevFails PROVE IInv'
  BY <1>6, SitesFrame DEF LoadPrevFails
<1>7. ASSUME Build PROVE IInv'
  BY <1>7, SitesFrame DEF Build, ExitBuildFail
<1>8. ASSUME StopOld PROVE IInv'
  BY <1>8, SitesFrame DEF StopOld
<1>9. ASSUME InspectOld PROVE IInv'
  BY <1>9, SitesFrame DEF InspectOld, ExitRunFail
<1>10. ASSUME RemoveOld PROVE IInv'
  BY <1>10, SitesFrame DEF RemoveOld, RemoveThen, Classified, ExitRunFail, ExitInterrupted
<1>11. ASSUME OrphanCheck PROVE IInv'
  BY <1>11, SitesFrame DEF OrphanCheck, Classified, ExitRunFail, ExitInterrupted
<1>12. ASSUME OrphanStop PROVE IInv'
  BY <1>12, SitesFrame DEF OrphanStop, Classified, ExitRunFail, ExitInterrupted
<1>13. ASSUME OrphanRemove PROVE IInv'
  BY <1>13, SitesFrame DEF OrphanRemove, RemoveThen, Classified, ExitRunFail, ExitInterrupted
<1>14. ASSUME RunNew PROVE IInv'
  BY <1>14, SitesFrame DEF RunNew, RollBackRun, Classified, ExitRunFail, ExitInterrupted
<1>15. ASSUME ReadinessPasses PROVE IInv'
  BY <1>15, SitesFrame DEF ReadinessPasses
<1>16. ASSUME ReadinessFails PROVE IInv'
  BY <1>16, SitesFrame DEF ReadinessFails, ExitInterrupted, ExitReadinessFail
<1>17. ASSUME SaveConfig PROVE IInv'
  BY <1>17, SitesFrame DEF SaveConfig, WriteConfig, ExitInternal
<1>18. ASSUME SaveSecrets PROVE IInv'
  BY <1>18, SitesFrame DEF SaveSecrets, MakeSecretsDir, ExitInternal
<1>19. ASSUME CleanupConfig PROVE IInv'
  <2>1. UNCHANGED <<container, disk, tmp, probed>> /\ At("cleanup_config") /\ Goto("cleanup_stop")
    BY <1>19 DEF CleanupConfig
  <2>2. config' = [config EXCEPT ![S] = NoFile] \/ UNCHANGED config
    BY <1>19 DEF CleanupConfig, RemoveConfig
  <2>3. UNCHANGED secrets
    BY <1>19 DEF CleanupConfig, RemoveConfig
  <2> QED
    BY <2>1, <2>2, <2>3, FileMarks DEF FileMarks
<1>20. ASSUME CleanupStop PROVE IInv'
  BY <1>20, SitesFrame DEF CleanupStop
<1>21. ASSUME CleanupRemove PROVE IInv'
  BY <1>21, SitesFrame DEF CleanupRemove
<1>22. ASSUME RestoreOld PROVE IInv'
  BY <1>22, SitesFrame DEF RestoreOld
<1>23. ASSUME Generate PROVE IInv'
  <2>1. /\ UNCHANGED <<container, config, secrets, secDir, probed>>
        /\ At("generate")
        /\ disk' = WithStub(disk) \/ UNCHANGED disk
    BY <1>23 DEF Generate
  <2>2. DiskAcceptable'
    BY <2>1 DEF WithStub, Stub, Accepts
  <2>3. \/ \E lost \in SUBSET Services : WriteListed(lost)
        \/ Return(ExitInternal)
        \/ Return(ExitCaddyReloadFail)
    BY <1>23 DEF Generate
  <2>4. UNCHANGED <<req, hostsOf, code>> /\ tmp' = Listed(unlisted') /\ pc' = "validate" => IInv'
    BY <2>1, <2>2, SitesFrame
  <2>5. Return(ExitInternal) \/ Return(ExitCaddyReloadFail) => IInv'
    BY <2>1, <2>2, SitesFrame
  <2> QED
    BY <2>3, <2>4, <2>5 DEF WriteListed
<1>24. ASSUME Validate PROVE IInv'
  BY <1>24, SitesFrame DEF Validate
<1>25. ASSUME Rename PROVE IInv'
  <2>1. tmp # NoConfig
    BY <1>25 DEF Rename, Accepts
  <2> QED
    BY <1>25, <2>1, SitesFrame DEF Rename
<1>26. ASSUME Reload PROVE IInv'
  BY <1>26, SitesFrame DEF Reload
<1>27. ASSUME CtrlC PROVE IInv'
  BY <1>27, SitesFrame DEF CtrlC
<1>28. ASSUME Crash PROVE IInv'
  BY <1>28, SitesFrame DEF Crash, MakeSecretsDir
<1>29. ASSUME CaddyUp PROVE IInv'
  BY <1>29, SitesFrame DEF CaddyUp, WithStub, Accepts, Stub
<1>30. ASSUME CaddyStops PROVE IInv'
  BY <1>30, SitesFrame DEF CaddyStops
<1>31. ASSUME NEW s \in Services, ByHand(s) PROVE IInv'
  BY <1>31, SitesFrame DEF ByHand
<1>32. ASSUME NEW s \in Services, Tamper(s) PROVE IInv'
  BY <1>32, SitesFrame DEF Tamper
<1>33. CASE UNCHANGED vars
  BY <1>33, SitesFrame DEF vars
<1> QED
  BY <1>1, <1>2, <1>3, <1>4, <1>5, <1>6, <1>7, <1>8, <1>9, <1>10, <1>11, <1>12, <1>13, <1>14, <1>15,
      <1>16, <1>17, <1>18, <1>19, <1>20, <1>21, <1>22, <1>23, <1>24, <1>25, <1>26, <1>27, <1>28,
      <1>29, <1>30, <1>31, <1>32, <1>33 DEF Next, Step

LEMMA Invariant == Spec => []IInv
<1> QED
  BY InvInit, InvNext, PTL DEF Spec

(* A command ends with 0 or 60 only in the four steps of the publication.  *)
LEMMA EndsInIngress ==
  ASSUME IInv, [Next]_vars, Ends, exit' \in {ExitOK, ExitCaddyReloadFail}
  PROVE  Generate \/ Validate \/ Rename \/ Reload
<1> USE DEF Ends, At, Goto, Return, CleanUpAfter, IInv, Failure,
            ExitOK, ExitCaddyReloadFail, Killed, Pending, ExitRunFail, ExitInternal, ExitInterrupted,
            ExitReadinessFail, ExitConfigError, ExitBuildFail, ExitEnvCaptureFail, Classified
<1>1. ~(NetworkEnsure \/ EnvCapture \/ LoadPrev \/ LoadPrevFails \/ Build)
  <2>1. ~NetworkEnsure
    <3>1. NetworkEnsure => Goto("envcap") \/ Return(ExitRunFail)
      BY DEF NetworkEnsure
    <3> QED
      BY <3>1
  <2>2. ~(EnvCapture \/ LoadPrev \/ LoadPrevFails \/ Build)
    BY DEF EnvCapture, LoadPrev, LoadPrevFails, Build
  <2> QED
    BY <2>1, <2>2
<1>2. ~(StopOld \/ InspectOld \/ RemoveOld \/ OrphanCheck \/ OrphanStop \/ OrphanRemove)
  BY DEF StopOld, InspectOld, RemoveOld, OrphanCheck, OrphanStop, OrphanRemove, RemoveThen
<1>3. ~(RunNew \/ ReadinessPasses \/ ReadinessFails \/ SaveConfig \/ SaveSecrets)
  BY DEF RunNew, RollBackRun, ReadinessPasses, ReadinessFails, SaveConfig, SaveSecrets
<1>4. ~(CleanupConfig \/ CleanupStop \/ CleanupRemove \/ RestoreOld)
  BY DEF CleanupConfig, CleanupStop, CleanupRemove, RestoreOld
<1>5. ~(BeginReload \/ CtrlC \/ Crash \/ CaddyUp \/ CaddyStops)
  BY DEF BeginReload, CtrlC, Crash, CaddyUp, CaddyStops, commandVars
<1>6. ASSUME NEW s \in Services, NEW hosts \in SUBSET Hosts PROVE ~BeginDeploy(s, hosts)
  BY DEF BeginDeploy
<1>7. ASSUME NEW s \in Services PROVE ~(ByHand(s) \/ Tamper(s))
  BY DEF ByHand, Tamper, commandVars
<1>8. ~UNCHANGED vars
  BY DEF vars, commandVars
<1> QED
  BY <1>1, <1>2, <1>3, <1>4, <1>5, <1>6, <1>7, <1>8 DEF Next, Step
-----------------------------------------------------------------------------
(* Types, in parts: the daemon and the context, the files, the ingress,    *)
(* what the command knows, and the counters and history.                   *)
Files == SUBSET (Hosts \X Services)

CaddyTypeOK ==
  /\ disk \in Files \union {NoConfig}
  /\ tmp  \in Files \union {NoConfig}
  /\ live \in Files \union {Down}

LocalTypeOK ==
  /\ pc \in ForwardSteps \union CleanupSteps \union IngressSteps \union {"idle"}
  /\ req \in [svc : Services, id : Versions \union {None}]
  /\ hostsOf \in [Versions -> SUBSET Hosts]
  /\ prev \in [img : Versions \union {None}, env : Versions \union {None}]
  /\ code \in CodesOfDeploy
  /\ exit \in CodesOfDeploy
  /\ old \in AContainer
  /\ unlisted \in SUBSET Services

CountTypeOK ==
  /\ crashes \in 0..MaxCrashes
  /\ probed \in SUBSET Versions
  /\ halfRun \in BOOLEAN /\ hurt \in BOOLEAN

(* A deploy on its way has an id, which is what it will register. *)
HasId == pc \in ForwardSteps => I \in Versions

TypeInv == DockerTypeOK /\ FilesTypeOK /\ CaddyTypeOK /\ LocalTypeOK /\ CountTypeOK /\ HasId

LEMMA TypeJoin == TypeInv => TypeOK
BY DEF TypeInv, TypeOK, CaddyTypeOK, LocalTypeOK, CountTypeOK, Files

LEMMA Codes ==
  /\ {ExitOK, ExitConfigError, ExitEnvCaptureFail, ExitBuildFail, ExitRunFail, ExitReadinessFail,
      ExitCaddyReloadFail, ExitInternal, ExitInterrupted, Killed, Pending} \subseteq CodesOfDeploy
  /\ Classified(ExitRunFail) \subseteq CodesOfDeploy
BY DEF CodesOfDeploy, Classified

LEMMA TypeInit == Init => TypeInv
<1> SUFFICES ASSUME Init PROVE TypeInv
  OBVIOUS
<1> USE DEF Init
<1>1. DockerTypeOK
  <2>1. Absent \in AContainer /\ Stranger \in AContainer
    BY DEF AContainer, States, Absent, Stranger
  <2>2. container \in [Services -> AContainer]
    BY <2>1
  <2>3. network \in BOOLEAN /\ cancelled \in BOOLEAN
    BY Zenon
  <2>4. faults \in 0..MaxFaults
    BY DockerMarks
  <2> QED
    BY <2>2, <2>3, <2>4 DEF DockerTypeOK
<1>2. FilesTypeOK /\ CaddyTypeOK
  BY DEF FilesTypeOK, CaddyTypeOK
<1>3. LocalTypeOK
  BY Codes DEF LocalTypeOK, NoPrev, AContainer, States, Absent
<1>4. CountTypeOK
  <2>1. halfRun \in BOOLEAN /\ hurt \in BOOLEAN
    BY Zenon
  <2>2. crashes \in 0..MaxCrashes /\ probed \in SUBSET Versions
    BY DeployBounds
  <2> QED
    BY <2>1, <2>2 DEF CountTypeOK
<1>5. HasId
  BY DEF HasId, ForwardSteps
<1> QED
  BY <1>1, <1>2, <1>3, <1>4, <1>5 DEF TypeInv

(* The ways a step goes on. *)
LEMMA GotoType ==
  ASSUME LocalTypeOK, NEW step \in ForwardSteps \union CleanupSteps \union IngressSteps, Goto(step)
  PROVE  LocalTypeOK'
BY DEF LocalTypeOK, Goto

LEMMA ReturnType ==
  ASSUME LocalTypeOK, NEW c \in CodesOfDeploy, Return(c)
  PROVE  LocalTypeOK' /\ HasId'
BY Codes DEF LocalTypeOK, HasId, ForwardSteps, Return, NoPrev, S, AContainer, States, Absent

LEMMA CleanUpType ==
  ASSUME LocalTypeOK, NEW c \in CodesOfDeploy, NEW step \in CleanupSteps, CleanUpAfter(c, step)
  PROVE  LocalTypeOK' /\ HasId'
BY DEF LocalTypeOK, HasId, ForwardSteps, CleanupSteps, CleanUpAfter

(* What a deploy knows stays well formed from step to step. *)
LEMMA LocalKept ==
  ASSUME LocalTypeOK, FilesTypeOK, HasId, Step
  PROVE  LocalTypeOK' /\ HasId'
<1> USE Codes, GotoType, ReturnType, CleanUpType
<1> DEFINE Kept == LocalTypeOK' /\ HasId'
<1>1. ASSUME NEW step \in ForwardSteps, pc \in ForwardSteps, Goto(step) PROVE Kept
  BY <1>1 DEF HasId, Goto, I
<1>2. ASSUME NEW step \in CleanupSteps \union IngressSteps, Goto(step) PROVE Kept
  BY <1>2 DEF HasId, Goto, I, ForwardSteps, CleanupSteps, IngressSteps
<1>3. /\ {"network", "envcap", "load_prev", "build", "stop_old", "inspect_old", "remove_old",
          "orphan_check", "orphan_stop", "orphan_remove", "run_new", "readiness",
          "save_config", "save_secrets"} \subseteq ForwardSteps
      /\ {"cleanup_config", "cleanup_stop", "cleanup_remove", "restore_old"} \subseteq CleanupSteps
      /\ {"generate", "validate", "rename", "reload"} \subseteq IngressSteps
  BY DEF ForwardSteps, CleanupSteps, IngressSteps
<1>4. CASE NetworkEnsure
  <2>1. Goto("envcap") \/ Return(ExitRunFail)
    BY <1>4 DEF NetworkEnsure
  <2>2. pc \in ForwardSteps
    BY <1>3, <1>4 DEF NetworkEnsure, At
  <2> QED
    BY <1>1, <1>3, <2>1, <2>2
<1>5. CASE EnvCapture \/ Build
  BY <1>1, <1>3, <1>5 DEF EnvCapture, Build, At
<1>6. CASE LoadPrev
  <2>1. Loadable(S) => config[S] \in Versions /\ secrets[S] \in Versions
    BY DEF Loadable, LoadVerdict, ConfigVerdict, SecretsVerdict, FilesTypeOK, LocalTypeOK, S
  <2>2. prev' \in [img : Versions \union {None}, env : Versions \union {None}]
    BY <1>6, <2>1 DEF LoadPrev, NoPrev
  <2> QED
    BY <1>3, <1>6, <2>2 DEF LoadPrev, LocalTypeOK, HasId, At, I
<1>7. CASE LoadPrevFails
  BY <1>7 DEF LoadPrevFails
<1>8. CASE StopOld \/ InspectOld
  BY <1>1, <1>3, <1>8 DEF StopOld, InspectOld, At
<1>9. CASE RemoveOld \/ OrphanRemove
  BY <1>1, <1>3, <1>9 DEF RemoveOld, OrphanRemove, RemoveThen, At
<1>10. CASE OrphanCheck \/ OrphanStop
  BY <1>1, <1>3, <1>10 DEF OrphanCheck, OrphanStop, At
<1>11. CASE RunNew
  <2>1. \A c \in CodesOfDeploy : RollBackRun(c) => Kept
    BY <1>3 DEF RollBackRun
  <2> QED
    BY <1>1, <1>3, <1>11, <2>1 DEF RunNew, At
<1>12. CASE ReadinessPasses \/ ReadinessFails
  BY <1>1, <1>3, <1>12 DEF ReadinessPasses, ReadinessFails, At
<1>13. CASE SaveConfig \/ SaveSecrets
  BY <1>1, <1>2, <1>3, <1>13 DEF SaveConfig, SaveSecrets, At
<1>14. CASE CleanupConfig \/ CleanupStop
  BY <1>2, <1>3, <1>14 DEF CleanupConfig, CleanupStop
<1>15. CASE CleanupRemove \/ RestoreOld
  <2>1. code \in CodesOfDeploy
    BY DEF LocalTypeOK
  <2> QED
    BY <1>2, <1>3, <1>15, <2>1 DEF CleanupRemove, RestoreOld
<1>16. CASE Generate
  <2>1. ASSUME NEW lost \in SUBSET Services, WriteListed(lost) PROVE Kept
    BY <2>1 DEF WriteListed, LocalTypeOK, HasId, I, ForwardSteps, IngressSteps
  <2> QED
    BY <1>16, <2>1 DEF Generate
<1>18. CASE Validate
  BY <1>2, <1>3, <1>18 DEF Validate
<1>17. CASE Rename \/ Reload
  BY <1>2, <1>3, <1>17 DEF Rename, Reload
<1> QED
  BY <1>4, <1>5, <1>6, <1>7, <1>8, <1>9, <1>10, <1>11, <1>12, <1>13, <1>14, <1>15, <1>16, <1>17, <1>18 DEF Step

(* The containers a docker call leaves are containers. *)
LEMMA Containers ==
  ASSUME NEW k \in AContainer
  PROVE  /\ AfterStop(k) \in AContainer /\ Absent \in AContainer /\ Stranger \in AContainer
         /\ \A new \in AContainer : AfterRun(k, new) \in AContainer /\ HalfRun(k, new) \subseteq AContainer
BY DEF AfterStop, AfterRun, HalfRun, Absent, Stranger, AContainer, States

LEMMA Runs ==
  ASSUME LocalTypeOK
  PROVE  New \in AContainer /\ Restored \in AContainer
BY DEF LocalTypeOK, New, Restored, Running, S, I, AContainer, States

LEMMA SetType ==
  ASSUME DockerTypeOK, NEW s \in Services, NEW k \in AContainer, SetContainer(s, k)
  PROVE  container' \in [Services -> AContainer] /\ network' \in BOOLEAN
BY DEF DockerTypeOK, SetContainer

LEMMA ContextKept ==
  ASSUME DockerTypeOK,
         \/ Answered \/ Refused \/ CallFails \/ Signal \/ FileFails \/ CleanupFails \/ CleanupDone
         \/ UNCHANGED contextVars
  PROVE  cancelled' \in BOOLEAN /\ faults' \in 0..MaxFaults
<1>1. cancelled' \in BOOLEAN
  BY Zenon DEF DockerTypeOK, Answered, Refused, CallFails, Signal, FileFails, CleanupFails, CleanupDone, contextVars
<1>2. faults' \in 0..MaxFaults
  BY DockerMarks DEF DockerTypeOK, Answered, Refused, CallFails, Signal, FileFails, CleanupFails, CleanupDone, contextVars
<1> QED
  BY <1>1, <1>2

(* What a step does to the daemon: nothing, a container of the service's   *)
(* name, or the network.                                                   *)
LEMMA DaemonKept ==
  ASSUME DockerTypeOK, LocalTypeOK, Step
  PROVE  DockerTypeOK'
<1> DEFINE Daemon == container' \in [Services -> AContainer] /\ network' \in BOOLEAN
<1>0. /\ S \in Services /\ container[S] \in AContainer
      /\ AfterStop(container[S]) \in AContainer /\ Absent \in AContainer
      /\ AfterRun(container[S], Restored) \in AContainer /\ New \in AContainer
      /\ HalfRun(container[S], New) \subseteq AContainer /\ HalfRun(container[S], Restored) \subseteq AContainer
  BY Containers, Runs DEF DockerTypeOK, LocalTypeOK, S
<1>1. \A k \in AContainer : SetContainer(S, k) => Daemon
  BY <1>0, SetType
<1>2. UNCHANGED dockerVars => Daemon
  BY DEF DockerTypeOK, dockerVars
<1>3. /\ \/ Answered \/ Refused \/ CallFails \/ FileFails \/ CleanupFails \/ CleanupDone
         \/ UNCHANGED contextVars
  BY DEF Step, NetworkEnsure, EnvCapture, LoadPrev, LoadPrevFails, Build, StopOld, InspectOld, RemoveOld,
         OrphanCheck, OrphanStop, OrphanRemove, RemoveThen, RunNew, ReadinessPasses, ReadinessFails,
         SaveConfig, SaveSecrets, CleanupConfig, CleanupStop, CleanupRemove, RestoreOld,
         Generate, Validate, Rename, Reload
<1>4. ASSUME NetworkEnsure PROVE Daemon
  <2>1. network' \in BOOLEAN
    BY <1>4, Zenon DEF NetworkEnsure, DockerTypeOK
  <2>2. container' = container
    BY <1>4 DEF NetworkEnsure
  <2> QED
    BY <2>1, <2>2 DEF DockerTypeOK
<1>5. ASSUME EnvCapture \/ LoadPrev \/ LoadPrevFails \/ Build \/ InspectOld \/ OrphanCheck \/ ReadinessFails
       PROVE  Daemon
  BY <1>2, <1>5 DEF EnvCapture, LoadPrev, LoadPrevFails, Build, InspectOld, OrphanCheck, ReadinessFails, OnlyContext
<1>6. ASSUME StopOld \/ OrphanStop PROVE Daemon
  BY <1>0, <1>1, <1>2, <1>6 DEF StopOld, OrphanStop
<1>7. ASSUME RemoveOld \/ OrphanRemove PROVE Daemon
  BY <1>0, <1>1, <1>2, <1>7 DEF RemoveOld, OrphanRemove, RemoveThen
<1>8. ASSUME RunNew PROVE Daemon
  BY <1>0, <1>1, <1>2, <1>8 DEF RunNew
<1>9. ASSUME CleanupStop \/ CleanupRemove \/ RestoreOld PROVE Daemon
  BY <1>0, <1>1, <1>2, <1>9 DEF CleanupStop, CleanupRemove, RestoreOld
<1>10. ASSUME ReadinessPasses \/ SaveConfig \/ SaveSecrets \/ CleanupConfig \/ Generate \/ Validate \/ Rename \/ Reload
       PROVE  Daemon
  BY <1>2, <1>10 DEF ReadinessPasses, SaveConfig, SaveSecrets, CleanupConfig, Generate, Validate, Rename, Reload
<1>11. Daemon
  BY <1>4, <1>5, <1>6, <1>7, <1>8, <1>9, <1>10 DEF Step, DockerTypeOK
<1> QED
  BY <1>3, <1>11, ContextKept DEF DockerTypeOK

(* ... to the files of the registration and of the ingress, ... *)
LEMMA FilesKept ==
  ASSUME FilesTypeOK, LocalTypeOK, HasId, Step
  PROVE  FilesTypeOK'
<1>0. S \in Services /\ (pc \in ForwardSteps => I \in Versions)
  BY DEF LocalTypeOK, HasId, S
<1>1. CASE SaveConfig
  BY <1>0, <1>1 DEF SaveConfig, At, ForwardSteps, WriteConfig, FilesTypeOK, fileVars
<1>2. CASE SaveSecrets
  BY <1>0, <1>2 DEF SaveSecrets, At, ForwardSteps, MakeSecretsDir, FilesTypeOK, fileVars
<1>3. CASE CleanupConfig
  BY <1>0, <1>3 DEF CleanupConfig, RemoveConfig, FilesTypeOK, fileVars
<1>4. CASE ~SaveConfig /\ ~SaveSecrets /\ ~CleanupConfig
  <2>1. UNCHANGED fileVars
    BY <1>4 DEF Step, NetworkEnsure, EnvCapture, LoadPrev, LoadPrevFails, Build, StopOld, InspectOld, RemoveOld,
         OrphanCheck, OrphanStop, OrphanRemove, RunNew, ReadinessPasses, ReadinessFails,
         CleanupStop, CleanupRemove, RestoreOld, Generate, Validate, Rename, Reload, OnlyContext, OnlyDocker
  <2> QED
    BY <2>1 DEF fileVars, FilesTypeOK
<1> QED
  BY <1>1, <1>2, <1>3, <1>4

LEMMA CaddyKept ==
  ASSUME CaddyTypeOK, FilesTypeOK, LocalTypeOK, Published, Step
  PROVE  CaddyTypeOK'
<1>1. \A lost : Listed(lost) \in Files
  BY DEF Listed, Sites, Files, LocalTypeOK, FilesTypeOK, Loadable, LoadVerdict, ConfigVerdict
<1>2. CASE Generate
  BY <1>1, <1>2 DEF Generate, WriteListed, CaddyTypeOK, WithStub, Stub, Files
<1>3. CASE Validate \/ Rename
  BY <1>3 DEF Validate, Rename, CaddyTypeOK, caddyVars, OnlyContext
<1>4. CASE Reload
  <2>1. UNCHANGED <<disk, tmp>> /\ (live' = live \/ (live # Down /\ live' = disk))
    BY <1>4 DEF Reload
  <2>2. disk # NoConfig
    BY <1>4 DEF Reload, At, Published
  <2> QED
    BY <2>1, <2>2 DEF CaddyTypeOK
<1>5. CASE ~Generate /\ ~Validate /\ ~Rename /\ ~Reload
  <2>1. UNCHANGED caddyVars
    BY <1>5 DEF Step, NetworkEnsure, EnvCapture, LoadPrev, LoadPrevFails, Build, StopOld, InspectOld, RemoveOld,
         OrphanCheck, OrphanStop, OrphanRemove, RunNew, ReadinessPasses, ReadinessFails, SaveConfig, SaveSecrets,
         CleanupConfig, CleanupStop, CleanupRemove, RestoreOld, OnlyContext, OnlyDocker
  <2> QED
    BY <2>1 DEF caddyVars, CaddyTypeOK
<1> QED
  BY <1>2, <1>3, <1>4, <1>5

(* ... and to the history. *)
LEMMA CountKept ==
  ASSUME CountTypeOK, HasId, Step
  PROVE  CountTypeOK'
<1>1. crashes' = crashes
  BY DEF Step, NetworkEnsure, EnvCapture, LoadPrev, LoadPrevFails, Build, StopOld, InspectOld, RemoveOld,
         OrphanCheck, OrphanStop, OrphanRemove, RunNew, ReadinessPasses, ReadinessFails, SaveConfig, SaveSecrets,
         CleanupConfig, CleanupStop, CleanupRemove, RestoreOld, Generate, Validate, Rename, Reload,
         OnlyContext, OnlyDocker
<1>2. ASSUME ~ReadinessPasses PROVE probed' = probed
  BY <1>2 DEF Step, NetworkEnsure, EnvCapture, LoadPrev, LoadPrevFails, Build, StopOld, InspectOld, RemoveOld,
         OrphanCheck, OrphanStop, OrphanRemove, RunNew, ReadinessFails, SaveConfig, SaveSecrets,
         CleanupConfig, CleanupStop, CleanupRemove, RestoreOld, Generate, Validate, Rename, Reload,
         OnlyContext, histVars
<1>3. ASSUME ReadinessPasses PROVE probed' \in SUBSET Versions
  BY <1>3 DEF ReadinessPasses, At, HasId, ForwardSteps, CountTypeOK
<1>4. /\ hurt' = hurt \/ hurt' = TRUE
      /\ halfRun' = halfRun \/ halfRun' = (container' # container)
  BY DEF Step, NetworkEnsure, EnvCapture, LoadPrev, LoadPrevFails, Build, StopOld, InspectOld, RemoveOld,
         OrphanCheck, OrphanStop, OrphanRemove, RunNew, ReadinessPasses, ReadinessFails, SaveConfig, SaveSecrets,
         CleanupConfig, CleanupStop, CleanupRemove, RestoreOld, Generate, Validate, Rename, Reload,
         OnlyContext, histVars
<1>5. hurt' \in BOOLEAN /\ halfRun' \in BOOLEAN
  BY <1>4, Zenon DEF CountTypeOK
<1> QED
  BY <1>1, <1>2, <1>3, <1>5 DEF CountTypeOK

(* A deploy begins with an id of its own. *)
LEMMA BeginType ==
  ASSUME TypeInv, NEW s \in Services, NEW hosts \in SUBSET Hosts, BeginDeploy(s, hosts)
  PROVE  TypeInv'
<1> USE DEF TypeInv
<1>1. PICK i \in Versions :
        /\ req' = [svc |-> s, id |-> i]
        /\ hostsOf' = [j \in Versions |-> IF j = i THEN hosts
                                          ELSE IF j \in Recorded THEN hostsOf[j] ELSE {}]
        /\ probed' = probed \intersect Recorded
  BY DEF BeginDeploy
<1>2. LocalTypeOK'
  BY <1>1, Codes DEF BeginDeploy, LocalTypeOK, DockerTypeOK, ForwardSteps
<1>3. HasId'
  BY <1>1 DEF HasId, I
<1>4. hurt' \in BOOLEAN /\ halfRun' \in BOOLEAN /\ cancelled' \in BOOLEAN
  BY Zenon DEF BeginDeploy
<1>5. CountTypeOK'
  BY <1>1, <1>4 DEF BeginDeploy, CountTypeOK
<1>6. DockerTypeOK' /\ FilesTypeOK' /\ CaddyTypeOK'
  BY <1>4 DEF BeginDeploy, DockerTypeOK, FilesTypeOK, CaddyTypeOK, dockerVars, fileVars, caddyVars
<1> QED
  BY <1>2, <1>3, <1>5, <1>6

(* What happens around the command. *)
LEMMA WorldType ==
  ASSUME TypeInv,
         BeginReload \/ CtrlC \/ Crash \/ CaddyUp \/ CaddyStops \/ \E s \in Services : ByHand(s) \/ Tamper(s)
  PROVE  TypeInv'
<1> USE DEF TypeInv
<1>1. ASSUME UNCHANGED commandVars, UNCHANGED exit PROVE LocalTypeOK' /\ HasId'
  BY <1>1 DEF commandVars, LocalTypeOK, HasId, I
<1>2. ASSUME UNCHANGED histVars, UNCHANGED crashes PROVE CountTypeOK'
  BY <1>2 DEF histVars, CountTypeOK
<1> DEFINE Daemon == container' \in [Services -> AContainer] /\ network' \in BOOLEAN
           Context == cancelled' \in BOOLEAN /\ faults' \in 0..MaxFaults
<1>3. UNCHANGED dockerVars => Daemon
  BY DEF DockerTypeOK, dockerVars
<1>4. UNCHANGED fileVars => FilesTypeOK'
  BY DEF FilesTypeOK, fileVars
<1>5. UNCHANGED caddyVars => CaddyTypeOK'
  BY DEF CaddyTypeOK, caddyVars
<1>6. CASE BeginReload
  <2>1. hurt' \in BOOLEAN /\ halfRun' \in BOOLEAN /\ cancelled' \in BOOLEAN
    BY <1>6, Zenon DEF BeginReload
  <2>2. LocalTypeOK' /\ HasId'
    BY <1>6, Codes DEF BeginReload, LocalTypeOK, HasId, ForwardSteps, IngressSteps
  <2>3. CountTypeOK'
    BY <1>6, <2>1 DEF BeginReload, CountTypeOK
  <2>4. DockerTypeOK'
    BY <1>6, <2>1 DEF BeginReload, DockerTypeOK, dockerVars
  <2> QED
    BY <1>4, <1>5, <1>6, <2>2, <2>3, <2>4 DEF BeginReload
<1>7. CASE CtrlC
  <2>1. Context
    BY <1>7, ContextKept DEF CtrlC
  <2> QED
    BY <1>1, <1>2, <1>3, <1>4, <1>5, <1>7, <2>1 DEF CtrlC, DockerTypeOK
<1>8. CASE Crash
  <2>1. LocalTypeOK' /\ HasId'
    BY <1>8, Codes, ReturnType DEF Crash
  <2>2. CountTypeOK'
    BY <1>8, DeployBounds DEF Crash, CountTypeOK, histVars
  <2>3. FilesTypeOK'
    BY <1>4, <1>8 DEF Crash, MakeSecretsDir, FilesTypeOK
  <2>4. DockerTypeOK'
    BY <1>3, <1>8, ContextKept DEF Crash, DockerTypeOK
  <2> QED
    BY <1>5, <1>8, <2>1, <2>2, <2>3, <2>4 DEF Crash
<1>9. CASE CaddyUp
  <2>1. network' \in BOOLEAN
    BY <1>9, Zenon DEF CaddyUp
  <2>2. DockerTypeOK'
    BY <1>9, <2>1, ContextKept DEF CaddyUp, DockerTypeOK
  <2>3. CaddyTypeOK'
    BY <1>9 DEF CaddyUp, CaddyTypeOK, WithStub, Stub, Files, Accepts
  <2> QED
    BY <1>1, <1>2, <1>4, <1>9, <2>2, <2>3 DEF CaddyUp
<1>10. CASE CaddyStops
  <2>1. Context
    BY <1>10, DockerMarks DEF CaddyStops, DockerTypeOK
  <2>2. CaddyTypeOK'
    BY <1>10 DEF CaddyStops, CaddyTypeOK
  <2> QED
    BY <1>1, <1>2, <1>3, <1>4, <1>10, <2>1, <2>2 DEF CaddyStops, DockerTypeOK
<1>11. ASSUME NEW s \in Services, ByHand(s) PROVE TypeInv'
  <2>1. Context
    BY <1>11, DockerMarks DEF ByHand, DockerTypeOK
  <2>2. Daemon
    <3>1. Stranger \in AContainer
      BY DEF Stranger, AContainer, States
    <3> QED
      BY <1>11, <3>1, SetType DEF ByHand
  <2> QED
    BY <1>1, <1>2, <1>4, <1>5, <1>11, <2>1, <2>2 DEF ByHand, DockerTypeOK
<1>12. ASSUME NEW s \in Services, Tamper(s) PROVE TypeInv'
  <2>1. Context
    BY <1>12, ContextKept DEF Tamper
  <2>2. FilesTypeOK'
    BY <1>12 DEF Tamper, FilesTypeOK
  <2> QED
    BY <1>1, <1>2, <1>3, <1>5, <1>12, <2>1, <2>2 DEF Tamper, DockerTypeOK
<1> QED
  BY <1>6, <1>7, <1>8, <1>9, <1>10, <1>11, <1>12

LEMMA TypeNext == TypeInv /\ IInv /\ [Next]_vars => TypeInv'
<1> SUFFICES ASSUME TypeInv, IInv, [Next]_vars PROVE TypeInv'
  OBVIOUS
<1>1. CASE Step
  BY <1>1, LocalKept, DaemonKept, FilesKept, CaddyKept, CountKept DEF TypeInv, IInv
<1>2. CASE UNCHANGED vars
  BY <1>2 DEF vars, dockerVars, contextVars, fileVars, caddyVars, commandVars, histVars, TypeInv, HasId, I,
              DockerTypeOK, FilesTypeOK, CaddyTypeOK, LocalTypeOK, CountTypeOK, contextVars
<1> QED
  BY <1>1, <1>2, BeginType, WorldType DEF Next

(* Every variable keeps its type: in particular a deploy only ever writes  *)
(* ids into the registry, and ends in one of its documented exit codes.    *)
THEOREM TypeCorrect == Spec => []TypeOK
<1> QED
  BY TypeJoin, TypeInit, TypeNext, Invariant, PTL DEF Spec
-----------------------------------------------------------------------------
(* Only a deploy whose readiness probe passed is registered: nothing but   *)
(* SaveConfig writes a config, and it is reached through ReadinessPasses.  *)
THEOREM OnlyProbed == Spec => []OnlyProbedRegistered
<1>1. IInv => OnlyProbedRegistered
  BY DEF IInv
<1> QED
  BY <1>1, Invariant, PTL

(* No Caddyfile that caddy validate refuses is ever on disk, as long as    *)
(* one command at a time publishes one.                                    *)
THEOREM CaddyfileAcceptable == Spec => []DiskAcceptable
<1>1. IInv => DiskAcceptable
  BY DEF IInv
<1> QED
  BY <1>1, Invariant, PTL

(* Exit 60: registered, and the new container running.                     *)
THEOREM SixtyIsTrue == Spec => SixtyMeansRegistered
<1>1. ASSUME IInv, [Next]_vars, Ends, exit' = ExitCaddyReloadFail, Deploying
      PROVE  container'[S] = New /\ config'[S] = I /\ secrets'[S] = I
  <2>1. Generate \/ Validate \/ Rename \/ Reload
    BY <1>1, EndsInIngress
  <2>2. pc \in IngressSteps /\ UNCHANGED <<container, config, secrets>>
    BY <2>1 DEF Generate, Validate, Rename, Reload, At, IngressSteps, dockerVars, fileVars
  <2> QED
    BY <1>1, <2>2 DEF IInv, Stage, Registered
<1> QED
  BY <1>1, Invariant, PTL DEF Spec, SixtyMeansRegistered

(* Exit 0: registered, running, and routed to by the Caddyfile on disk and *)
(* by Caddy, both of which say what the registry says, less the services   *)
(* List could not read.                                                    *)
THEOREM ZeroIsTrue == Spec => ZeroMeansServed
<1>1. ASSUME IInv, [Next]_vars, Ends, exit' = ExitOK
      PROVE  /\ disk' = {b \in Sites' : b[2] \notin unlisted} /\ live' = disk'
             /\ Deploying => container'[S] = New /\ config'[S] = I /\ secrets'[S] = I
  <2>1. Reload
    <3>1. Generate \/ Validate \/ Rename \/ Reload
      BY <1>1, EndsInIngress
    <3>2. ~Generate /\ ~Validate /\ ~Rename
      BY <1>1 DEF Generate, WriteListed, Validate, Rename, Ends, Goto, Return, ExitOK, ExitCaddyReloadFail, ExitInternal
    <3> QED
      BY <3>1, <3>2
  <2>2. /\ pc = "reload" /\ pc \in IngressSteps
        /\ UNCHANGED <<container, config, secrets, secDir, disk>>
    BY <2>1 DEF Reload, At, IngressSteps, dockerVars, fileVars
  <2>3. UNCHANGED hostsOf
    BY <2>1, <1>1 DEF Reload, Return
  <2>4. live' = disk
    BY <1>1, <2>1 DEF Reload, Return, ExitOK, ExitCaddyReloadFail
  <2>5. Sites' = Sites
    BY <2>2, <2>3, SitesFrame
  <2> QED
    BY <1>1, <2>2, <2>4, <2>5 DEF IInv, Stage, Registered, Published, Listed
<1> QED
  BY <1>1, Invariant, PTL DEF Spec, ZeroMeansServed

(* The deploy implements the abstract publication.  Of its steps only four *)
(* touch the Caddyfile or Caddy; the rename publishes, because the file it *)
(* renames is still what the registry asks for, as far as List could read  *)
(* it, and has been accepted.                                              *)
THEOREM Refinement == Spec => Publishes
<1>1. Init => Promise!Init
  BY DEF Init, Promise!Init
<1>2. ASSUME IInv, [Next]_vars PROVE [Promise!Next]_<<Listed(unlisted), disk, live>>
  <2> USE DEF Promise!Next
  <2>1. ASSUME Generate PROVE Promise!Next
    <3>1. UNCHANGED live /\ (UNCHANGED disk \/ disk' = WithStub(disk))
      BY <2>1 DEF Generate
    <3> QED
      BY <3>1 DEF Promise!Change, Promise!LayStub, WithStub, Stub, Promise!Stub
  <2>2. ASSUME Rename PROVE Promise!Next
    <3>1. UNCHANGED live /\ (UNCHANGED disk \/ disk' = tmp)
      BY <2>2 DEF Rename
    <3>2. tmp = Listed(unlisted) /\ Accepts(tmp)
      BY <1>2, <2>2 DEF Rename, At, IInv, Published
    <3> QED
      BY <3>1, <3>2 DEF Promise!Change, Promise!Publish, Accepts, Promise!Accepts
  <2>3. ASSUME Reload PROVE Promise!Next
    <3>1. disk' = disk /\ (live' = live \/ (live # Down /\ live' = disk))
      BY <2>3 DEF Reload
    <3>2. disk # NoConfig
      BY <1>2, <2>3 DEF Reload, At, IInv, Published
    <3> QED
      BY <3>1, <3>2 DEF Promise!Change, Promise!Load
  <2>4. ASSUME CaddyUp PROVE Promise!Next
    BY <2>4 DEF CaddyUp, Promise!Start, WithStub, Promise!WithStub, Stub, Promise!Stub,
                Accepts, Promise!Accepts
  <2>5. ASSUME CaddyStops PROVE Promise!Next
    BY <2>5 DEF CaddyStops, Promise!Stop
  <2>6. CASE UNCHANGED <<disk, live>>
    BY <2>6 DEF Promise!Change
  <2>7. ASSUME ~(Generate \/ Rename \/ Reload \/ CaddyUp \/ CaddyStops) PROVE UNCHANGED <<disk, live>>
    <3> USE DEF caddyVars, OnlyContext, OnlyDocker
    <3>1. ASSUME NEW s \in Services, NEW hosts \in SUBSET Hosts, BeginDeploy(s, hosts)
          PROVE  UNCHANGED <<disk, live>>
      BY <3>1 DEF BeginDeploy
    <3>2. ASSUME NEW s \in Services, ByHand(s) \/ Tamper(s) PROVE UNCHANGED <<disk, live>>
      BY <3>2 DEF ByHand, Tamper
    <3>3. ASSUME NetworkEnsure \/ EnvCapture \/ LoadPrev \/ LoadPrevFails \/ Build
          PROVE  UNCHANGED <<disk, live>>
      BY <3>3 DEF NetworkEnsure, EnvCapture, LoadPrev, LoadPrevFails, Build
    <3>4. ASSUME StopOld \/ InspectOld \/ RemoveOld \/ OrphanCheck \/ OrphanStop \/ OrphanRemove
          PROVE  UNCHANGED <<disk, live>>
      BY <3>4 DEF StopOld, InspectOld, RemoveOld, OrphanCheck, OrphanStop, OrphanRemove
    <3>5. ASSUME RunNew \/ ReadinessPasses \/ ReadinessFails \/ SaveConfig \/ SaveSecrets
          PROVE  UNCHANGED <<disk, live>>
      BY <3>5 DEF RunNew, ReadinessPasses, ReadinessFails, SaveConfig, SaveSecrets
    <3>6. ASSUME CleanupConfig \/ CleanupStop \/ CleanupRemove \/ RestoreOld \/ Validate
          PROVE  UNCHANGED <<disk, live>>
      BY <3>6 DEF CleanupConfig, CleanupStop, CleanupRemove, RestoreOld, Validate
    <3>7. ASSUME BeginReload \/ CtrlC \/ Crash \/ UNCHANGED vars PROVE UNCHANGED <<disk, live>>
      BY <3>7 DEF BeginReload, CtrlC, Crash, vars
    <3> QED
      BY <1>2, <2>7, <3>1, <3>2, <3>3, <3>4, <3>5, <3>6, <3>7 DEF Next, Step
  <2> QED
    BY <2>1, <2>2, <2>3, <2>4, <2>5, <2>6, <2>7
<1> QED
  BY <1>1, <1>2, Invariant, PTL DEF Spec, Publishes, Promise!Spec
=============================================================================
