---------------------------- MODULE RollbackProofs ----------------------------
(***************************************************************************)
(* Proofs about how a deploy ends, for any sets of services, deploys and   *)
(* hostnames and any number of failures, signals and crashes: a deploy is  *)
(* whole or gone, its rollback restores the previous container, two        *)
(* windows leave a service down, and a first deploy spares containers that *)
(* are not decloud's; with what a half-way docker run makes of each.       *)
(***************************************************************************)
EXTENDS DeployProofs

ToRun == {"network", "envcap", "load_prev", "build", "stop_old", "inspect_old", "remove_old",
          "orphan_check", "orphan_stop", "orphan_remove", "run_new"}
Unsaved == ToRun \union {"readiness", "save_config"}
Loaded == {"build", "stop_old", "inspect_old", "remove_old", "orphan_check", "orphan_stop",
           "orphan_remove", "run_new", "readiness", "save_config"}
Untouched == {"network", "envcap", "load_prev", "build"}

(* The id of a deploy is its own until the deploy writes it somewhere.     *)
OwnId ==
  /\ pc \in CleanupSteps => I \in Versions
  /\ pc \in Unsaved \union {"save_secrets"} \union CleanupSteps => prev.img # I /\ secrets[S] # I
  /\ pc \in Unsaved => config[S] # I
  /\ pc \in CleanupSteps \ {"cleanup_config"} /\ ~hurt => config[S] # I
  /\ pc \in ToRun => container[S].img # I

(* What was loaded is what is still registered, until the deploy saves.    *)
KnowsPrev ==
  /\ pc \in {"idle", "network", "envcap", "load_prev"} => ~hasPrev
  /\ pc \in IngressSteps /\ ~Deploying => ~hasPrev
  /\ pc \in {"stop_old", "inspect_old", "remove_old", "restore_old"} => hasPrev
  /\ pc \in {"orphan_check", "orphan_stop", "orphan_remove"} => ~hasPrev
  /\ hasPrev /\ pc \in Loaded => config[S] = prev.img
  /\ hasPrev /\ pc \in Loaded \union {"save_secrets"} \union CleanupSteps => secrets[S] = prev.env
  /\ hasPrev /\ pc \in {"cleanup_stop", "cleanup_remove", "restore_old"} /\ ~hurt =>
       config[S] \in {prev.img, NoFile}

(* Whose the container of the service's name is.                           *)
KnowsContainer ==
  /\ \A s \in Services : container[s].st = "absent" => container[s] = Absent
  /\ pc \in {"orphan_stop", "orphan_remove", "cleanup_remove"} => container[S].label = S
  /\ pc \in {"cleanup_config", "cleanup_stop"} => container[S] = New
  /\ pc = "run_new" => container[S].st = "absent"
  /\ pc = "cleanup_remove" /\ ~hurt => ~IsUp(container[S])
  /\ pc = "restore_old" /\ ~hurt /\ ~halfRun => container[S].st = "absent"
  /\ halfRun => pc \in {"restore_old", "idle"}
  /\ halfRun /\ pc = "restore_old" =>
       /\ container[S].st # "absent" /\ container[S].img = I /\ container[S].label = S
       /\ config[S] # I /\ code \in {ExitRunFail, ExitInterrupted}
  /\ pc \in Untouched => old = container[S]

Story == OwnId /\ KnowsPrev /\ KnowsContainer

RInv == IInv /\ TypeInv /\ Story
-----------------------------------------------------------------------------
LEMMA StoryInit == Init => Story
BY DEF Init, Story, OwnId, KnowsPrev, KnowsContainer, ToRun, Unsaved, Loaded, Untouched, CleanupSteps,
       IngressSteps, hasPrev, Absent, Stranger

(* A deploy begins: its id is nobody's yet.                                 *)
LEMMA StoryBegins ==
  ASSUME RInv, NEW s \in Services, NEW hosts \in SUBSET Hosts, BeginDeploy(s, hosts)
  PROVE  Story'
<1>1. PICK i \in Versions \ InUse : req' = [svc |-> s, id |-> i]
  BY DEF BeginDeploy
<1>2. i # config[s] /\ i # secrets[s] /\ i # container[s].img
  BY <1>1 DEF InUse
<1>3. /\ pc' = "network" /\ S' = s /\ I' = i /\ old' = container[s] /\ halfRun' = FALSE
      /\ UNCHANGED <<container, config, secrets, prev>>
      /\ pc = "idle"
  BY <1>1 DEF BeginDeploy, dockerVars, fileVars, S, I, At
<1>4. prev = NoPrev
  BY <1>3 DEF RInv, Story, KnowsPrev, hasPrev
<1>5. NoPrev.img # i
  BY <1>1, DockerMarks DEF NoPrev
<1>6. OwnId'
  BY <1>2, <1>3, <1>4, <1>5 DEF OwnId, CleanupSteps, Unsaved, ToRun
<1>7. KnowsPrev'
  BY <1>3, <1>4 DEF KnowsPrev, hasPrev, IngressSteps, Loaded, CleanupSteps, NoPrev
<1>8. KnowsContainer'
  BY <1>3 DEF RInv, Story, KnowsContainer, Untouched
<1> QED
  BY <1>6, <1>7, <1>8 DEF Story

LEMMA StoryKept ==
  ASSUME RInv, Step
  PROVE  Story'
<1> USE DEF RInv, Story, OwnId, KnowsPrev, KnowsContainer, ToRun, Unsaved, Loaded, Untouched, hasPrev,
            At, Goto, Return, CleanUpAfter, OnlyContext, OnlyDocker, SetContainer, S, I,
            CleanupSteps, IngressSteps, ForwardSteps,
            dockerVars, contextVars, fileVars, histVars, Deploying
<1>0. S \in Services /\ container \in [Services -> AContainer] /\ (pc \in ForwardSteps => I \in Versions)
  BY DEF TypeInv, DockerTypeOK, LocalTypeOK, HasId
<1>1. ASSUME NetworkEnsure PROVE Story'
  <2>1. Goto("envcap") \/ Return(ExitRunFail)
    BY <1>1 DEF NetworkEnsure
  <2>2. UNCHANGED <<container, fileVars, hurt, halfRun>> /\ pc = "network"
    BY <1>1 DEF NetworkEnsure
  <2> QED
    BY <2>1, <2>2
<1>2. ASSUME EnvCapture PROVE Story'
  BY <1>2 DEF EnvCapture
<1>3. ASSUME LoadPrev PROVE Story'
  BY <1>3 DEF LoadPrev, NoPrev
<1>4. ASSUME LoadPrevFails PROVE Story'
  BY <1>4 DEF LoadPrevFails
<1>5. ASSUME Build PROVE Story'
  BY <1>5 DEF Build
<1>6. ASSUME StopOld PROVE Story'
  BY <1>0, <1>6 DEF StopOld, AfterStop, AContainer, IsUp
<1>7. ASSUME InspectOld PROVE Story'
  BY <1>7 DEF InspectOld
<1>8. ASSUME RemoveOld PROVE Story'
  BY <1>0, <1>8, DockerMarks DEF RemoveOld, RemoveThen, Absent
<1>9. ASSUME OrphanCheck PROVE Story'
  BY <1>9 DEF OrphanCheck, OwnLabel
<1>10. ASSUME OrphanStop PROVE Story'
  BY <1>0, <1>10 DEF OrphanStop, AfterStop, AContainer, IsUp
<1>11. ASSUME OrphanRemove PROVE Story'
  BY <1>0, <1>11, DockerMarks DEF OrphanRemove, RemoveThen, Absent
<1>12. ASSUME RunNew PROVE Story'
  <2>1. /\ pc = "run_new" /\ UNCHANGED <<config, secrets>>
        /\ \/ Goto("readiness")
           \/ hasPrev /\ pc' = "restore_old" /\ UNCHANGED <<req, prev>>
           \/ ~hasPrev /\ pc' = "idle" /\ prev' = NoPrev
    BY <1>12 DEF RunNew, RollBackRun
  <2>2. PICK k \in HalfRun(container[S], New) : container' = [container EXCEPT ![S] = k]
    <3>1. UNCHANGED container => container' = [container EXCEPT ![S] = container[S]]
      BY <1>0
    <3>2. container[S].st = "absent" => AfterRun(container[S], New) = New
      BY DEF AfterRun
    <3>3. container[S] \in HalfRun(container[S], New) /\ AfterRun(container[S], New) \in HalfRun(container[S], New)
      BY DEF HalfRun
    <3>4. UNCHANGED container \/ \E k \in HalfRun(container[S], New) : container' = [container EXCEPT ![S] = k]
      BY <1>12, <3>2, <3>3 DEF RunNew
    <3> QED
      BY <3>1, <3>3, <3>4
  <2>3. k.st = "absent" => k = container[S]
    BY <2>2 DEF HalfRun, AfterRun, New, Running
  <2>4. \A s \in Services : container'[s].st = "absent" => container'[s] = Absent
    BY <1>0, <2>2, <2>3
  <2>5. pc' = "restore_old" /\ ~halfRun' => container'[S].st = "absent"
    BY <1>12, <2>1 DEF RunNew, RollBackRun
  <2>6. ~halfRun /\ (pc' = "readiness" => ~halfRun')
    BY <1>12, <2>1 DEF RunNew, RollBackRun
  <2>7. halfRun' => /\ container'[S].st # "absent" /\ container'[S].img = I /\ container'[S].label = S
                    /\ config'[S] # I
                    /\ pc' = "restore_old" => code' \in {ExitRunFail, ExitInterrupted}
    <3>1. halfRun' => container' # container
      BY <1>12, <2>6 DEF RunNew
    <3>2. k # container[S] => k.st # "absent" /\ k.img = I /\ k.label = S
      BY <2>1, <2>2 DEF HalfRun, AfterRun, New, Running
    <3>3. pc' = "restore_old" => code' \in {ExitRunFail, ExitInterrupted}
      BY <1>12 DEF RunNew, RollBackRun, Classified
    <3> QED
      BY <1>0, <2>1, <2>2, <3>1, <3>2, <3>3
  <2> QED
    BY <1>0, <2>1, <2>4, <2>5, <2>6, <2>7
<1>13. ASSUME ReadinessPasses PROVE Story'
  BY <1>13 DEF ReadinessPasses
<1>14. ASSUME ReadinessFails PROVE Story'
  BY <1>0, <1>14 DEF ReadinessFails, IInv, Stage, NewRuns, New, Running
<1>15. ASSUME SaveConfig PROVE Story'
  BY <1>0, <1>15 DEF SaveConfig, WriteConfig, IInv, Stage, NewRuns, New, Running
<1>16. ASSUME SaveSecrets PROVE Story'
  BY <1>0, <1>16, DockerMarks DEF SaveSecrets, MakeSecretsDir, IInv, Stage, NewRuns, New, Running
<1>17. ASSUME CleanupConfig PROVE Story'
  <2>1. /\ pc = "cleanup_config" /\ Goto("cleanup_stop") /\ UNCHANGED <<container, secrets, halfRun>>
        /\ config' = [config EXCEPT ![S] = NoFile] \/ hurt'
    BY <1>17 DEF CleanupConfig, RemoveConfig
  <2>2. config' = [config EXCEPT ![S] = NoFile] => config'[S] = NoFile
    BY <1>0 DEF IInv, Typed
  <2> QED
    BY <2>1, <2>2, FileMarks DEF New, Running
<1>18. ASSUME CleanupStop PROVE Story'
  BY <1>0, <1>18 DEF CleanupStop, AfterStop, AContainer, IsUp, New, Running
<1>19. ASSUME CleanupRemove PROVE Story'
  <2>1. /\ pc = "cleanup_remove" /\ UNCHANGED <<config, secrets, halfRun>>
        /\ (hasPrev /\ Goto("restore_old")) \/ (~hasPrev /\ Return(code))
    BY <1>19 DEF CleanupRemove
  <2>2. container' = [container EXCEPT ![S] = Absent] \/ UNCHANGED container
    BY <1>19 DEF CleanupRemove
  <2>3. (hurt' = hurt \/ hurt') /\ (~hurt' => container' = [container EXCEPT ![S] = Absent])
    BY <1>19, <2>1 DEF CleanupRemove, Removable
  <2>4. \A s \in Services : container'[s].st = "absent" => container'[s] = Absent
    BY <1>0, <2>2 DEF Absent
  <2>5. ~hurt' => container'[S].st = "absent"
    BY <1>0, <2>3 DEF Absent
  <2> QED
    BY <2>1, <2>3, <2>4, <2>5
<1>20. ASSUME RestoreOld PROVE Story'
  <2>1. Return(code) /\ UNCHANGED <<config, secrets>>
    BY <1>20 DEF RestoreOld
  <2>2. PICK k \in HalfRun(container[S], Restored) : container' = [container EXCEPT ![S] = k]
    BY <1>20 DEF RestoreOld, HalfRun
  <2>3. k.st = "absent" => k = container[S]
    BY <2>2 DEF HalfRun, AfterRun, Restored, Running
  <2>4. \A s \in Services : container'[s].st = "absent" => container'[s] = Absent
    BY <1>0, <2>2, <2>3
  <2> QED
    BY <2>1, <2>4
<1>21. ASSUME Generate \/ Validate \/ Rename \/ Reload PROVE Story'
  <2>1. /\ pc \in IngressSteps /\ UNCHANGED <<container, config, secrets, hurt, halfRun>>
        /\ \/ pc' = "validate" /\ UNCHANGED <<req, prev>>
           \/ Goto("rename") \/ Goto("reload")
           \/ \E c \in CodesOfDeploy : Return(c)
    BY <1>21, Codes DEF Generate, WriteListed, Validate, Rename, Reload
  <2> QED
    BY <2>1
<1> QED
  BY <1>1, <1>2, <1>3, <1>4, <1>5, <1>6, <1>7, <1>8, <1>9, <1>10, <1>11, <1>12, <1>13, <1>14, <1>15,
     <1>16, <1>17, <1>18, <1>19, <1>20, <1>21 DEF Step

(* ... and so does what happens around it.                                 *)
LEMMA StoryAround ==
  ASSUME RInv, BeginReload \/ CtrlC \/ Crash \/ CaddyUp \/ CaddyStops \/ \E s \in Services : ByHand(s) \/ Tamper(s)
  PROVE  Story'
<1> USE DEF RInv, Story, OwnId, KnowsPrev, KnowsContainer, ToRun, Unsaved, Loaded, Untouched, hasPrev,
            At, Return, S, I, CleanupSteps, IngressSteps, Deploying, commandVars
<1>1. CASE CtrlC \/ CaddyUp \/ CaddyStops
  <2>1. UNCHANGED <<container, config, secrets, hurt, halfRun, commandVars>>
    BY <1>1 DEF CtrlC, CaddyUp, CaddyStops, dockerVars, fileVars, histVars
  <2> QED
    BY <2>1 DEF New, Running
<1>2. CASE Crash \/ BeginReload
  <2>1. /\ UNCHANGED container
        /\ \/ pc' = "idle" /\ prev' = NoPrev
           \/ pc = "idle" /\ pc' = "generate" /\ UNCHANGED prev /\ halfRun' = FALSE
    BY <1>2 DEF Crash, BeginReload, dockerVars
  <2> QED
    BY <2>1
<1>3. CASE \E s \in Services : ByHand(s) \/ Tamper(s)
  <2>1. pc = "idle" /\ UNCHANGED commandVars
    BY <1>3 DEF ByHand, Tamper
  <2>2. \A s \in Services : container'[s].st = "absent" => container'[s] = Absent
    <3>1. container \in [Services -> AContainer]
      BY DEF TypeInv, DockerTypeOK
    <3> QED
      BY <1>3, <3>1 DEF ByHand, Tamper, SetContainer, Stranger, dockerVars
  <2> QED
    BY <2>1, <2>2
<1> QED
  BY <1>1, <1>2, <1>3

LEMMA RInvNext == RInv /\ [Next]_vars => RInv'
<1> SUFFICES ASSUME RInv, [Next]_vars PROVE RInv'
  OBVIOUS
<1>1. IInv' /\ TypeInv'
  BY InvNext, TypeNext DEF RInv
<1>2. CASE UNCHANGED vars
  BY <1>1, <1>2 DEF RInv, Story, OwnId, KnowsPrev, KnowsContainer, hasPrev, S, I, Deploying, New, Running,
     vars, dockerVars, fileVars, commandVars, histVars
<1> QED
  BY <1>1, <1>2, StoryBegins, StoryKept, StoryAround DEF Next, RInv

LEMMA RInvariant == Spec => []RInv
<1>1. Init => RInv
  BY InvInit, TypeInit, StoryInit DEF RInv
<1> QED
  BY <1>1, RInvNext, PTL DEF Spec

(* A command that ends by itself ends in one of its own steps. *)
LEMMA EndsInStep ==
  ASSUME [Next]_vars, Ends, exit' # Killed
  PROVE  Step
<1> USE DEF Ends, At
<1>1. ~(BeginReload \/ CtrlC \/ Crash \/ CaddyUp \/ CaddyStops)
  BY DEF BeginReload, CtrlC, Crash, CaddyUp, CaddyStops, commandVars, Return
<1>2. ASSUME NEW s \in Services, NEW hosts \in SUBSET Hosts PROVE ~BeginDeploy(s, hosts)
  BY DEF BeginDeploy
<1>3. ASSUME NEW s \in Services PROVE ~(ByHand(s) \/ Tamper(s))
  BY DEF ByHand, Tamper, commandVars
<1>4. ~UNCHANGED vars
  BY DEF vars, commandVars
<1> QED
  BY <1>1, <1>2, <1>3, <1>4 DEF Next

(* The steps a command ends in, and what it leaves there.                  *)
LEMMA Endings ==
  ASSUME RInv, Step, Ends
  PROVE  \/ /\ UNCHANGED <<container, config, secrets>>
            /\ pc \in Untouched \union {"inspect_old", "orphan_check"} \union IngressSteps
         \/ RemoveOld \/ OrphanStop \/ OrphanRemove \/ RunNew \/ CleanupRemove \/ RestoreOld
<1> USE DEF Ends, At, Goto, Return, CleanUpAfter, OnlyContext, dockerVars, fileVars, Untouched, IngressSteps
<1>1. CASE NetworkEnsure \/ EnvCapture \/ LoadPrev \/ LoadPrevFails \/ Build \/ InspectOld \/ OrphanCheck
  BY <1>1 DEF NetworkEnsure, EnvCapture, LoadPrev, LoadPrevFails, Build, InspectOld, OrphanCheck
<1>2. CASE Generate \/ Validate \/ Rename \/ Reload
  BY <1>2 DEF Generate, Validate, Rename, Reload
<1>3. ~(StopOld \/ ReadinessPasses \/ ReadinessFails \/ SaveConfig \/ SaveSecrets \/ CleanupConfig \/ CleanupStop)
  BY DEF StopOld, ReadinessPasses, ReadinessFails, SaveConfig, SaveSecrets, CleanupConfig, CleanupStop
<1> QED
  BY <1>1, <1>2, <1>3 DEF Step
-----------------------------------------------------------------------------
(* A deploy that ends by itself leaves a container of its own and two      *)
(* files that register it, or none of the three, but for the container of  *)
(* a docker run that failed half-way, which it leaves labelled and         *)
(* unregistered, ending in 40 or 130, and for a failed cleanup call, after *)
(* which it ends in neither 0 nor 60.                                      *)
THEOREM Whole == Spec => WholeOrGone
<1> DEFINE registers == {config'[S], secrets'[S]}
           Complete == container'[S].img = I /\ registers = {I}
           Gone == container'[S].img # I /\ I \notin registers
           LeftBehind == /\ halfRun' /\ container'[S].img = I /\ container'[S].label = S
                         /\ I \notin registers /\ exit' \in {ExitRunFail, ExitInterrupted}
           PartCleaned == hurt' /\ exit' \notin {ExitOK, ExitCaddyReloadFail}
<1>1. ASSUME RInv, [Next]_vars, Ends, Deploying, exit' # Killed
      PROVE  Complete \/ Gone \/ LeftBehind \/ PartCleaned
  <2> USE DEF RInv, Story, OwnId
  <2>1. Step
    BY <1>1, EndsInStep
  <2>2. S \in Services /\ container \in [Services -> AContainer]
    BY <1>1 DEF TypeInv, DockerTypeOK, LocalTypeOK, S
  <2>3. I \in Versions \/ pc \in IngressSteps
    BY <1>1 DEF TypeInv, HasId, LocalTypeOK, Ends, At
  <2>5. CASE pc \in IngressSteps
    <3>1. UNCHANGED <<container, config, secrets>>
      BY <1>1, <2>1, <2>5, Endings DEF IngressSteps, Ends, RemoveOld, OrphanStop, OrphanRemove, RunNew, CleanupRemove,
          RestoreOld, At
    <3>2. Complete
      BY <1>1, <2>5, <3>1 DEF IInv, Stage, Registered, New, Running
    <3> QED
      BY <3>2
  <2>6. CASE UNCHANGED <<container, config, secrets>> /\ pc \in ToRun
    <3>1. Gone
      BY <1>1, <2>6 DEF Unsaved
    <3> QED
      BY <3>1
  <2>7. CASE RemoveOld \/ OrphanStop \/ OrphanRemove \/ RunNew
    <3>1. UNCHANGED <<config, secrets>> /\ pc \in ToRun /\ I \in Versions
      BY <2>3, <2>7 DEF RemoveOld, OrphanStop, OrphanRemove, RunNew, At, OnlyDocker, fileVars, ToRun, IngressSteps
    <3>2. I \notin registers
      BY <1>1, <3>1 DEF Unsaved
    <3>3. CASE RemoveOld \/ OrphanRemove
      <4>1. container'[S].img # I
        BY <1>1, <2>2, <3>1, <3>3, DockerMarks
        DEF RemoveOld, OrphanRemove, RemoveThen, SetContainer, Absent, dockerVars
      <4> QED
        BY <3>2, <4>1
    <3>4. CASE OrphanStop
      <4>1. AfterStop(container[S]).img = container[S].img
        BY <2>2 DEF AfterStop, AContainer
      <4>2. \/ UNCHANGED container
            \/ \E k \in {container[S], AfterStop(container[S])} : container' = [container EXCEPT ![S] = k]
        BY <3>4 DEF OrphanStop, SetContainer, dockerVars
      <4>3. container'[S].img = container[S].img
        BY <2>2, <4>1, <4>2
      <4> QED
        BY <1>1, <3>1, <3>2, <4>3
    <3>5. CASE RunNew
      <4>1. UNCHANGED container \/ LeftBehind
        <5>1. UNCHANGED container \/ (halfRun' /\ exit' \in {ExitRunFail, ExitInterrupted})
          BY <1>1, <3>5 DEF RunNew, Ends, Goto, dockerVars, RollBackRun, Return, CleanUpAfter, Classified
        <5>2. \/ UNCHANGED container
              \/ \E k \in HalfRun(container[S], New) : container' = [container EXCEPT ![S] = k]
          BY <1>1, <3>5 DEF RunNew, Ends, Goto, At, dockerVars, SetContainer
        <5>3. ASSUME NEW k \in HalfRun(container[S], New), k # container[S]
              PROVE  k.img = I /\ k.label = S
          BY <5>3 DEF HalfRun, AfterRun, New, Running
        <5> QED
          BY <2>2, <3>2, <5>1, <5>2, <5>3
      <4> QED
        BY <1>1, <3>1, <3>2, <4>1
    <3> QED
      BY <2>7, <3>3, <3>4, <3>5
  <2>8. CASE CleanupRemove \/ RestoreOld
    <3>1. UNCHANGED <<config, secrets>> /\ pc \in CleanupSteps /\ I \in Versions /\ exit' = code
      BY <1>1, <2>8 DEF CleanupRemove, RestoreOld, At, OnlyDocker, fileVars, CleanupSteps, Ends, Goto, Return
    <3>2. secrets'[S] # I
      BY <1>1, <3>1
    <3>3. CASE hurt'
      BY <1>1, <3>1, <3>3 DEF IInv, Failure
    <3>4. CASE ~hurt' /\ CleanupRemove
      <4>1. container' = [container EXCEPT ![S] = Absent] /\ config'[S] # I
        BY <1>1, <3>1, <3>4 DEF CleanupRemove, KnowsContainer, Removable, SetContainer, At
      <4> QED
        BY <2>2, <3>1, <3>2, <4>1, DockerMarks DEF Absent
    <3>5. CASE ~hurt' /\ RestoreOld /\ ~halfRun
      <4>1. container' = [container EXCEPT ![S] = Restored]
        BY <1>1, <3>5 DEF RestoreOld, KnowsContainer, SetContainer, At, AfterRun
      <4>2. config'[S] # I
        BY <1>1, <3>1, <3>5 DEF RestoreOld, At, CleanupSteps
      <4> QED
        BY <1>1, <2>2, <3>1, <3>2, <4>1, <4>2 DEF Restored, Running
    <3>6. CASE ~hurt' /\ RestoreOld /\ halfRun
      <4>1. container' = [container EXCEPT ![S] = container[S]] /\ halfRun'
        BY <1>1, <3>6 DEF RestoreOld, KnowsContainer, SetContainer, At, AfterRun
      <4>2. LeftBehind
        BY <1>1, <2>2, <3>1, <3>2, <3>6, <4>1 DEF RestoreOld, KnowsContainer, At
      <4> QED
        BY <4>2
    <3> QED
      BY <2>8, <3>3, <3>4, <3>5, <3>6
  <2> QED
    BY <1>1, <2>1, <2>5, <2>6, <2>7, <2>8, Endings DEF ToRun, Untouched
<1>2. RInv /\ [Next]_vars /\ Ends /\ Deploying /\ exit' # Killed
      => LET c == container'[S]
             r == {config'[S], secrets'[S]}
         IN  \/ c.img = I /\ r = {I}
             \/ c.img # I /\ I \notin r
             \/ /\ halfRun' /\ c.img = I /\ c.label = S /\ I \notin r
                /\ exit' \in {ExitRunFail, ExitInterrupted}
             \/ hurt' /\ exit' \notin {ExitOK, ExitCaddyReloadFail}
  BY <1>1
<1> QED
  BY <1>2, RInvariant, PTL DEF Spec, WholeOrGone

(* A deploy that ends after its rollback has run leaves the previous       *)
(* secrets, and, no cleanup call having failed, the previous registration  *)
(* or none, and the previous container as it was registered, unless the    *)
(* one its own half-way docker run created still holds the name.           *)
THEOREM RolledBack == Spec => RollbackRestores
<1>1. ASSUME RInv, [Next]_vars, Ends, At("restore_old"), exit' # Killed
      PROVE  /\ secrets'[S] = prev.env
             /\ \/ /\ config'[S] \in {prev.img, NoFile}
                   /\ \/ container'[S] = Running(S, prev.img, prev.env)
                      \/ halfRun' /\ container'[S].img = I /\ container'[S].label = S
                \/ hurt'
  <2>1. RestoreOld
    <3>1. pc = "restore_old" /\ Step
      BY <1>1, EndsInStep DEF At
    <3> QED
      BY <3>1 DEF Step, At, NetworkEnsure, EnvCapture, LoadPrev, LoadPrevFails, Build, StopOld, InspectOld,
           RemoveOld, OrphanCheck, OrphanStop, OrphanRemove, RunNew, ReadinessPasses, ReadinessFails,
           SaveConfig, SaveSecrets, CleanupConfig, CleanupStop, CleanupRemove, Generate, Validate, Rename, Reload
  <2>2. secrets[S] = prev.env /\ UNCHANGED <<config, secrets, halfRun>>
    BY <1>1, <2>1 DEF RestoreOld, At, OnlyDocker, fileVars, RInv, Story, KnowsPrev, CleanupSteps
  <2>3. S \in Services /\ container \in [Services -> AContainer]
    BY <1>1 DEF RInv, TypeInv, DockerTypeOK, LocalTypeOK, S
  <2>4. ASSUME ~hurt' PROVE ~hurt /\ config[S] \in {prev.img, NoFile}
    BY <1>1, <2>1, <2>4 DEF RestoreOld, At, RInv, Story, KnowsPrev
  <2>5. ASSUME ~hurt', ~halfRun PROVE container'[S] = Running(S, prev.img, prev.env)
    <3>1. container[S].st = "absent"
      BY <1>1, <2>1, <2>4, <2>5 DEF RestoreOld, At, RInv, Story, KnowsContainer
    <3>2. container' = [container EXCEPT ![S] = Restored]
      BY <1>1, <2>1, <2>5, <3>1 DEF RestoreOld, SetContainer, AfterRun
    <3> QED
      BY <2>3, <3>2 DEF Restored, S
  <2>6. ASSUME ~hurt', halfRun PROVE container'[S].img = I /\ container'[S].label = S
    <3>1. container[S].st # "absent" /\ container[S].img = I /\ container[S].label = S
      BY <1>1, <2>1, <2>6 DEF RestoreOld, At, RInv, Story, KnowsContainer, S, I
    <3>2. container' = [container EXCEPT ![S] = container[S]]
      BY <1>1, <2>1, <2>6, <3>1 DEF RestoreOld, SetContainer, AfterRun
    <3> QED
      BY <2>3, <3>1, <3>2
  <2> QED
    BY <2>2, <2>4, <2>5, <2>6
<1> QED
  BY <1>1, RInvariant, PTL DEF Spec, RollbackRestores

(* A redeploy that fails leaves a service that was up running, unless it   *)
(* fails at the removal of the previous container, or its docker run left  *)
(* a container behind, or a call of its rollback failed.                   *)
THEOREM TwoWindows == Spec => OutageWindows
<1>1. ASSUME RInv, [Next]_vars, Ends, hasPrev, exit' \notin {ExitOK, Killed}, old.st = "running"
      PROVE  \/ container'[S].st = "running"
             \/ At("remove_old")
             \/ At("restore_old") /\ (halfRun' \/ hurt')
  <2> USE DEF RInv, Story, KnowsPrev, KnowsContainer
  <2>1. Step
    BY <1>1, EndsInStep
  <2>2. S \in Services /\ container \in [Services -> AContainer]
    BY <1>1 DEF TypeInv, DockerTypeOK, LocalTypeOK, S
  <2>3. CASE UNCHANGED container /\ pc \in Untouched
    BY <1>1, <2>3
  <2>4. CASE UNCHANGED container /\ pc \in IngressSteps
    BY <1>1, <2>4 DEF IInv, Stage, Registered, New, Running
  <2>5. CASE pc = "inspect_old"
    BY <1>1, <2>1, <2>5 DEF Step, NetworkEnsure, EnvCapture, LoadPrev, LoadPrevFails, Build, StopOld, InspectOld,
         RemoveOld, OrphanCheck, OrphanStop, OrphanRemove, RunNew, ReadinessPasses, ReadinessFails,
         SaveConfig, SaveSecrets, CleanupConfig, CleanupStop, CleanupRemove, RestoreOld, Generate, Validate,
         Rename, Reload, At, Ends, Goto, Return, OnlyContext, dockerVars
  <2>6. CASE RestoreOld
    <3>1. At("restore_old") /\ (halfRun' = halfRun) /\ (~hurt' => ~hurt)
      BY <2>6 DEF RestoreOld
    <3>2. CASE ~hurt' /\ ~halfRun'
      <4>1. container' = [container EXCEPT ![S] = Restored]
        BY <1>1, <2>6, <3>1, <3>2 DEF RestoreOld, SetContainer, At, AfterRun
      <4> QED
        BY <2>2, <4>1 DEF Restored, Running
    <3> QED
      BY <3>1, <3>2
  <2>7. ~RunNew /\ ~CleanupRemove
    BY <1>1 DEF RunNew, RollBackRun, CleanupRemove, CleanUpAfter, Goto, Ends
  <2>8. ~(OrphanCheck \/ OrphanStop \/ OrphanRemove)
    BY <1>1 DEF OrphanCheck, OrphanStop, OrphanRemove, At
  <2> QED
    BY <1>1, <2>1, <2>3, <2>4, <2>5, <2>6, <2>7, <2>8, Endings DEF RemoveOld, At
<1> QED
  BY <1>1, RInvariant, PTL DEF Spec, OutageWindows

(* While a first deploy runs, no container that is not decloud's changes.  *)
THEOREM ForeignSpared == Spec => FreshDeploySparesForeign
<1>1. ASSUME RInv, [Next]_vars, NEW s \in Services,
             container[s].label = Foreign, container'[s] # container[s], ~At("idle")
      PROVE  hasPrev
  <2> USE DEF RInv, Story, KnowsPrev, KnowsContainer
  <2>1. S \in Services /\ container \in [Services -> AContainer] /\ (Foreign # S)
    BY <1>1, DockerMarks DEF TypeInv, DockerTypeOK, LocalTypeOK, S
  <2>2. container[s].st # "absent"
    BY <1>1, DockerMarks DEF Absent
  <2>3. ~UNCHANGED container
    BY <1>1
  <2>4. Step
    BY <1>1, <2>3 DEF Next, BeginDeploy, BeginReload, CtrlC, Crash, CaddyUp, CaddyStops, ByHand, Tamper, At, dockerVars, vars
  <2>5. \/ StopOld \/ RemoveOld \/ OrphanStop \/ OrphanRemove \/ RunNew \/ CleanupStop \/ CleanupRemove \/ RestoreOld
    BY <2>3, <2>4 DEF Step, NetworkEnsure, EnvCapture, LoadPrev, LoadPrevFails, Build, InspectOld,
         OrphanCheck, ReadinessPasses, ReadinessFails, SaveConfig, SaveSecrets, CleanupConfig,
         Generate, Validate, Rename, Reload, OnlyContext, dockerVars
  <2>6. s = S
    BY <1>1, <2>1, <2>5 DEF StopOld, RemoveOld, OrphanStop, OrphanRemove, RemoveThen, RunNew, CleanupStop,
         CleanupRemove, RestoreOld, SetContainer, dockerVars
  <2>7. StopOld \/ RemoveOld \/ RestoreOld => hasPrev
    BY <1>1 DEF StopOld, RemoveOld, RestoreOld, At
  <2>8. ~(OrphanStop \/ OrphanRemove \/ CleanupStop \/ CleanupRemove)
    BY <1>1, <2>1, <2>6 DEF OrphanStop, OrphanRemove, CleanupStop, CleanupRemove, At, New, Running
  <2>9. ~RunNew
    <3>1. RunNew => container[S].st = "absent"
      BY <1>1 DEF RunNew, At
    <3> QED
      BY <2>2, <2>6, <3>1
  <2> QED
    BY <2>5, <2>7, <2>8, <2>9
<1>2. RInv /\ [Next]_vars =>
        \A s \in Services : /\ container[s].label = Foreign /\ container'[s] # container[s]
                            /\ ~At("idle")
                            => hasPrev
  BY <1>1
<1> QED
  BY <1>2, RInvariant, PTL DEF Spec, FreshDeploySparesForeign
=============================================================================
