-------------------------------- MODULE Ingress --------------------------------
(***************************************************************************)
(* Commands that meet at the ingress.  decloud takes no lock: deploys,     *)
(* unregisters and caddy reloads of several operators each regenerate and  *)
(* publish the one Caddyfile (regenerateAndReload), through the one        *)
(* Caddyfile.tmp, while caddy up and caddy down create and remove the      *)
(* container that serves it.  A command is here from the moment it has     *)
(* changed the registry; what goes before is in Deploy and Lifecycle.      *)
(***************************************************************************)
EXTENDS Caddyfile, ExitCodes

CONSTANTS Services, Publishers,
          MaxChanges,   \* commands that change the registry, in a behaviour
          MaxFaults     \* calls that fail, deaths of a process and of Caddy

ASSUME IngressBounds == MaxChanges \in Nat /\ MaxFaults \in Nat

Files == SUBSET (Hosts \X Services)

ASSUME DownIsNoFile == Down # NoConfig /\ \A file \in Files : file # Down

VARIABLES routes,     \* the registry: the hostnames of each service
          box,        \* what docker inspect says of decloud-caddy
          pc,         \* the step of each publisher
          todo, snap, \* List: the names it has still to load, the site blocks it has
          up,         \* the step of caddy up or caddy down
          exit,       \* the exit code of the command that has just ended, or Pending
          changes, faults,
          alone,      \* history: the publishers whom nobody has disturbed
          passed,     \* history: the services whose read has failed in each publisher's List
          ever,       \* history: the hostnames each service has had since all was quiet
          bare        \* history: there was no Caddyfile then

publisherVars == <<pc, todo, snap>>
boundVars == <<changes, faults>>
histVars == <<alone, passed, ever, bare>>
vars == <<caddyVars, routes, box, publisherVars, up, exit, boundVars, histVars>>

Blocks(table) == {b \in Hosts \X Services : b[1] \in table[b[2]]}

Tables == [Services -> SUBSET Hosts]

TypeOK ==
  /\ routes \in Tables
  /\ disk \in Files \union {NoConfig}
  /\ tmp  \in Files \union {NoConfig}
  /\ live \in Files \union {Down}
  /\ box \in {"absent", "created", "running", "exited", "restarting"}
  /\ box = "running" <=> live # Down
  /\ pc \in [Publishers -> {"idle", "names", "load", "stub_stat", "stub_write", "generate",
                            "validate", "discard", "rename", "reload"}]
  /\ todo \in [Publishers -> SUBSET Services]
  /\ snap \in [Publishers -> Files]
  /\ exit \in {ExitOK, ExitCaddyReloadFail, ExitInternal, ExitRunFail, Killed, Pending}
  /\ up \in {"idle", "up_stat", "up_write", "up_inspect", "up_start", "up_run", "down_stop", "down_remove"}
  /\ changes \in 0..MaxChanges /\ faults \in 0..MaxFaults
  /\ alone \in SUBSET Publishers /\ passed \in [Publishers -> SUBSET Services]
  /\ ever \in [Services -> SUBSET SUBSET Hosts] /\ bare \in BOOLEAN

(* Nobody at work; the last publication may have been refused or never     *)
(* made, and the container be in any state a manager leaves.               *)
Init ==
  /\ routes \in Tables
  /\ disk \in {NoConfig, Stub} \union (IF Accepts(Blocks(routes)) THEN {Blocks(routes)} ELSE {})
  /\ tmp = NoConfig
  /\ \/ box \in {"absent", "created", "exited"} /\ live = Down
     \/ disk # NoConfig /\ box = "running" /\ live = disk
  /\ pc = [p \in Publishers |-> "idle"] /\ todo = [p \in Publishers |-> {}]
  /\ snap = [p \in Publishers |-> {}]
  /\ up = "idle" /\ exit = Pending
  /\ changes = 0 /\ faults = 0
  /\ alone = {} /\ passed = [p \in Publishers |-> {}] /\ ever = [s \in Services |-> {}] /\ bare = FALSE
-----------------------------------------------------------------------------
Busy(p) == pc[p] # "idle"
Quiet == up = "idle" /\ \A p \in Publishers : ~Busy(p)

(* The services p has just failed to read, and goes on without. *)
PassedOver(p) == IF faults' = faults THEN {} ELSE todo[p] \ todo'[p]

(* What is written down of who disturbs whom, and of what is passed over: *)
(* to whoever passes a service over it has no hostnames.                   *)
History ==
  /\ alone' = {p \in Publishers : /\ Busy(p)' /\ up' = "idle" /\ \A q \in Publishers \ {p} : ~Busy(q)'
                                  /\ Busy(p) => p \in alone}
  /\ passed' = [p \in Publishers |-> IF Busy(p)' THEN passed[p] \union PassedOver(p) ELSE {}]
  /\ ever' = [s \in Services |-> IF Quiet' THEN {}
                                 ELSE {routes'[s]} \union (IF Quiet THEN {routes[s]} ELSE ever[s])
                                        \union {{} : p \in {q \in Publishers : s \in passed'[q]}}]
  /\ bare' = (~Quiet' /\ IF Quiet THEN disk = NoConfig ELSE bare)

At(p, step) == pc[p] = step

Goto(p, step) == pc' = [pc EXCEPT ![p] = step] /\ exit' = Pending

Return(p, err) == /\ pc' = [pc EXCEPT ![p] = "idle"]
                  /\ exit' = ExitCodeFor(err)

Fails == faults < MaxFaults /\ faults' = faults + 1 /\ UNCHANGED changes
Works == UNCHANGED boundVars

OnlyFiles == UNCHANGED <<routes, live, box, todo, snap, up>>

(* A deploy, an unregister, or (nothing changed) a caddy reload has done   *)
(* with the registry and comes to publish.                                 *)
Commit(p, s, hosts) ==
  /\ At(p, "idle")
  /\ routes' = [routes EXCEPT ![s] = hosts]
  /\ changes' = IF hosts = routes[s] THEN changes ELSE changes + 1
  /\ changes' <= MaxChanges
  /\ Goto(p, "names")
  /\ UNCHANGED <<caddyVars, box, todo, snap, up, faults>>

AfterLoading(p) == Goto(p, IF todo'[p] = {} THEN "stub_stat" ELSE "load")

(* Store.List: the names first, then each is loaded, in their order; a     *)
(* service that has gone meanwhile is left out, and so is one whose read   *)
(* fails: List tells nobody of it.                                         *)
ListNames(p) ==
  /\ At(p, "names")
  /\ \/ Works /\ todo' = [todo EXCEPT ![p] = {s \in Services : routes[s] # {}}] /\ AfterLoading(p)
     \/ Fails /\ UNCHANGED todo /\ Return(p, Plain)
  /\ UNCHANGED <<caddyVars, routes, box, snap, up>>

Load(p) ==
  /\ At(p, "load")
  /\ LET s == CHOOSE t \in todo[p] : TRUE
     IN  /\ todo' = [todo EXCEPT ![p] = @ \ {s}]
         /\ \/ Works /\ snap' = [snap EXCEPT ![p] = @ \union {b \in Blocks(routes) : b[2] = s}]
            \/ Fails /\ UNCHANGED snap
  /\ AfterLoading(p)
  /\ UNCHANGED <<caddyVars, routes, box, up>>

(* Mutant: the stub is written without a look. *)
StubStatBlind(p) ==
  /\ At(p, "stub_stat") /\ Works
  /\ Goto(p, "stub_write")
  /\ UNCHANGED caddyVars /\ OnlyFiles

(* WriteStubIfMissing looks, and writes later; a failure is logged. *)
StubStat(p) ==
  /\ At(p, "stub_stat")
  /\ \/ Works /\ Goto(p, IF disk = NoConfig THEN "stub_write" ELSE "generate")
     \/ Fails /\ Goto(p, "generate")
  /\ UNCHANGED caddyVars /\ OnlyFiles

StubWrite(p) ==
  /\ At(p, "stub_write")
  /\ \/ Works /\ disk' = Stub
     \/ Fails /\ UNCHANGED disk
  /\ Goto(p, "generate")
  /\ UNCHANGED tmp /\ OnlyFiles

(* Generate writes a file of its own and renames it to Caddyfile.tmp. *)
Generate(p) ==
  /\ At(p, "generate")
  /\ \/ Works /\ tmp' = snap[p] /\ Goto(p, "validate")
     \/ Fails /\ UNCHANGED tmp /\ Return(p, {"CaddyReload"})
  /\ snap' = [snap EXCEPT ![p] = {}]
  /\ UNCHANGED <<disk, routes, live, box, todo, up>>

(* Mutant: whatever caddy validate says. *)
ValidateNothing(p) ==
  /\ At(p, "validate") /\ Works
  /\ Goto(p, "rename")
  /\ UNCHANGED caddyVars /\ OnlyFiles

(* Mutant: there is no need to reload what has not changed. *)
RenameChanged(p) ==
  /\ At(p, "rename") /\ Works /\ tmp # NoConfig
  /\ disk' = tmp /\ tmp' = NoConfig
  /\ IF disk' = disk THEN Return(p, NoError) ELSE Goto(p, "reload")
  /\ OnlyFiles

(* caddy validate runs in the container, on what the file holds by then. *)
Validate(p) ==
  /\ At(p, "validate")
  /\ \/ Works /\ Goto(p, IF box = "running" /\ Accepts(tmp) THEN "rename" ELSE "discard")
     \/ Fails /\ Goto(p, "discard")
  /\ UNCHANGED caddyVars /\ OnlyFiles

Discard(p) ==
  /\ At(p, "discard")
  /\ Works /\ tmp' = NoConfig /\ Return(p, {"CaddyReload"})
  /\ UNCHANGED disk /\ OnlyFiles

Rename(p) ==
  /\ At(p, "rename")
  /\ \/ /\ Works /\ tmp # NoConfig
        /\ disk' = tmp /\ tmp' = NoConfig /\ Goto(p, "reload")
     \/ Works /\ tmp = NoConfig /\ UNCHANGED <<disk, tmp>> /\ Return(p, {"CaddyReload"})
     \/ Fails /\ UNCHANGED <<disk, tmp>> /\ Return(p, {"CaddyReload"})
  /\ OnlyFiles

(* caddy reload: Caddy refuses a Caddyfile it cannot load, and keeps the   *)
(* one it serves.                                                          *)
Reload(p) ==
  /\ At(p, "reload")
  /\ \/ Works /\ box = "running" /\ Accepts(disk) /\ live' = disk /\ Return(p, NoError)
     \/ Works /\ ~(box = "running" /\ Accepts(disk)) /\ UNCHANGED live /\ Return(p, {"CaddyReload"})
     \/ Fails /\ live' \in {live, IF box = "running" /\ Accepts(disk) THEN disk ELSE live}
              /\ Return(p, {"CaddyReload"})
  /\ UNCHANGED <<disk, tmp, routes, box, todo, snap, up>>

Publish(p) == \/ ListNames(p) \/ Load(p) \/ StubStat(p) \/ StubWrite(p) \/ Generate(p)
              \/ Validate(p) \/ Discard(p) \/ Rename(p) \/ Reload(p)
-----------------------------------------------------------------------------
(* decloud caddy up and caddy down (internal/caddy/manager.go). *)

UpGoto(step) == up' = step /\ exit' = Pending
UpReturn(err) == up' = "idle" /\ exit' = ExitCodeFor(err)
OnlyManager == UNCHANGED <<tmp, routes, publisherVars>>
NoBox == UNCHANGED <<box, live>>

(* Caddy starts on the Caddyfile there is; on one it cannot load it exits, *)
(* and docker starts it again and again.                                   *)
Boot == IF Accepts(disk) THEN box' = "running" /\ live' = disk
        ELSE box' = "restarting" /\ live' = Down

BeginUp(step) ==
  /\ up = "idle" /\ step \in {"up_stat", "down_stop"}
  /\ UpGoto(step) /\ Works
  /\ UNCHANGED disk /\ NoBox /\ OnlyManager

(* Mutant: a Caddyfile one may not look at is a mistake in the configuration. *)
UpStatAsConfig ==
  /\ up = "up_stat"
  /\ Fails /\ UpReturn({"PermissionMode", "CaddyUp"})
  /\ UNCHANGED disk /\ NoBox /\ OnlyManager

UpStat ==
  /\ up = "up_stat"
  /\ \/ Works /\ UpGoto(IF disk = NoConfig THEN "up_write" ELSE "up_inspect")
     \/ Fails /\ UpReturn({"CaddyUp"})
  /\ UNCHANGED disk /\ NoBox /\ OnlyManager

UpWrite ==
  /\ up = "up_write"
  /\ \/ Works /\ disk' = Stub /\ UpGoto("up_inspect")
     \/ Fails /\ UNCHANGED disk /\ UpReturn({"CaddyUp"})
  /\ NoBox /\ OnlyManager

(* Mutant: only an absent container is brought up. *)
UpInspectNoStart ==
  /\ up = "up_inspect" /\ Works
  /\ CASE box = "running" -> UpReturn(NoError)
       [] box = "absent"  -> UpGoto("up_run")
       [] OTHER           -> UpReturn({"CaddyUp"})
  /\ UNCHANGED disk /\ NoBox /\ OnlyManager

(* Mutant: a container there is will do. *)
UpInspectThere ==
  /\ up = "up_inspect" /\ Works
  /\ IF box = "absent" THEN UpGoto("up_run") ELSE UpReturn(NoError)
  /\ UNCHANGED disk /\ NoBox /\ OnlyManager

UpInspect ==
  /\ up = "up_inspect"
  /\ \/ /\ Works
        /\ CASE box = "running" -> UpReturn(NoError)
             [] box = "exited"  -> UpGoto("up_start")
             [] box = "absent"  -> UpGoto("up_run")
             [] OTHER           -> UpReturn({"CaddyUp"})
     \/ Fails /\ UpReturn({"CaddyUp"})
  /\ UNCHANGED disk /\ NoBox /\ OnlyManager

UpStart ==
  /\ up = "up_start"
  /\ \/ Works /\ Boot /\ UpReturn(NoError)
     \/ Fails /\ (NoBox \/ Boot) /\ UpReturn({"CaddyUp"})
  /\ UNCHANGED disk /\ OnlyManager

(* docker pull and docker run.  A run that fails because a port is taken   *)
(* leaves the container created, and its name taken.                       *)
UpRun ==
  /\ up = "up_run"
  /\ \/ Works /\ Boot /\ UpReturn(NoError)
     \/ /\ Fails /\ UpReturn({"CaddyUp"})
        /\ NoBox \/ Boot \/ (box' = "created" /\ UNCHANGED live)
  /\ UNCHANGED disk /\ OnlyManager

DownStop ==
  /\ up = "down_stop"
  /\ \/ Works /\ UpGoto("down_remove")
     \/ Fails /\ UpReturn({"CaddyDown"})
  /\ \/ /\ box' = IF box \in {"running", "restarting"} THEN "exited" ELSE box
        /\ live' = Down
     \/ faults' # faults /\ NoBox
  /\ UNCHANGED disk /\ OnlyManager

DownRemove ==
  /\ up = "down_remove"
  /\ \/ Works /\ box' = "absent" /\ UpReturn(NoError)
     \/ Fails /\ box' \in {box, "absent"} /\ UpReturn({"CaddyDown"})
  /\ UNCHANGED <<disk, live>> /\ OnlyManager

Manage == UpStat \/ UpWrite \/ UpInspect \/ UpStart \/ UpRun \/ DownStop \/ DownRemove
-----------------------------------------------------------------------------
(* The world: docker tries a crashing Caddy again; Caddy or the docker     *)
(* daemon is restarted; a command is killed.                               *)

Retry == box = "restarting" /\ Accepts(disk) /\ Boot /\ exit' = Pending
         /\ UNCHANGED <<disk, up, boundVars>> /\ OnlyManager

Bounce == box = "running" /\ Fails /\ Boot /\ exit' = Pending /\ UNCHANGED <<disk, up>> /\ OnlyManager

Crash(p) == /\ Busy(p) /\ Fails
            /\ pc' = [pc EXCEPT ![p] = "idle"] /\ exit' = Killed
            /\ snap' = [snap EXCEPT ![p] = {}] /\ todo' = [todo EXCEPT ![p] = {}]
            /\ UNCHANGED <<caddyVars, routes, box, up>>

UpCrash == /\ up # "idle" /\ Fails /\ up' = "idle" /\ exit' = Killed
           /\ UNCHANGED <<disk, box, live>> /\ OnlyManager

Next ==
  /\ \/ \E p \in Publishers : \/ Publish(p) \/ Crash(p)
                              \/ \E s \in Services, hosts \in SUBSET Hosts : Commit(p, s, hosts)
     \/ Manage \/ \E step \in {"up_stat", "down_stop"} : BeginUp(step)
     \/ Retry \/ Bounce \/ UpCrash
  /\ History

Spec == Init /\ [][Next]_vars

(* One command after another: a publication overlaps neither another one   *)
(* nor caddy up or down.  Calls still fail, and commands and Caddy die.    *)
OneAtATime == /\ \A p, q \in Publishers : Busy(p) /\ Busy(q) => p = q
              /\ up # "idle" => \A p \in Publishers : ~Busy(p)

SerialSpec == Init /\ [][Next /\ OneAtATime']_vars
-----------------------------------------------------------------------------
(* Properties *)

Ends(p, code) == Busy(p) /\ ~Busy(p)' /\ exit' = code

(* The registry as p has listed it: less the services whose read failed. *)
Listed(p) == {b \in Blocks(routes) : b[2] \notin passed[p]}

(* A command that nothing disturbs puts in place, in one step and only if  *)
(* Caddy accepts it, the Caddyfile the registry asks for, or the stub      *)
(* where there is none; and after its exit code 0 that is what Caddy       *)
(* serves, whatever earlier commands, dead or refused, have left behind.   *)
(* What it loses is exactly the services whose read has failed, and its    *)
(* exit code does not tell.                                                *)
SoloIsExact ==
  [][\A p \in alone :
       /\ pc'[p] # pc[p] /\ disk' # disk =>
            \/ disk = NoConfig /\ disk' = Stub
            \/ disk' = Listed(p) /\ Accepts(disk')
       /\ Ends(p, ExitOK) => live' = disk' /\ live' = Listed(p)]_vars

(* Commands that overlap may publish over each other, and a reload may     *)
(* serve what another command has renamed.  Still, after an exit code 0    *)
(* every service Caddy routes has or had that hostname since these         *)
(* commands began, and a service registered all the time is routed, unless *)
(* the read of it failed in one of them, or they also raced to write the   *)
(* first Caddyfile's stub.                                                 *)
OverlapIsBounded ==
  [][\A p \in Publishers : Ends(p, ExitOK) =>
       \/ bare /\ live' = Stub
       \/ \A s \in Services : {h \in Hosts : <<h, s>> \in live'} \in ever[s]]_vars

(* caddy up that exits 0 leaves Caddy running, or being restarted by       *)
(* docker over a Caddyfile it cannot load, which nothing tells; caddy down *)
(* that exits 0 leaves no container, so the next caddy up makes one.       *)
ManagerTellsTruth ==
  [][up # "idle" /\ up' = "idle" /\ exit' = ExitOK =>
       CASE up = "down_remove" -> box' = "absent"
         [] OTHER -> box' = "running" \/ ~Accepts(disk')]_vars

(* Commands one after another implement the abstract Publication, whatever *)
(* files and containers the failures and deaths of earlier ones have left: *)
(* what the registry asks for is what the command at work can read of it.  *)
Promise == INSTANCE Publication
             WITH want <- {b \in Blocks(routes) : \A p \in Publishers : b[2] \notin passed[p]}

Publishes == Promise!Spec

(* What the documentation says: caddy validate runs before the rename, so  *)
(* a syntactically broken Caddyfile cannot reach disk.                     *)
BrokenNeverOnDisk == disk # NoConfig => Accepts(disk)
-----------------------------------------------------------------------------
(* Fairness: some publisher takes its next step, and so does caddy up or   *)
(* down; docker goes on restarting; the operator repeats caddy reload,     *)
(* caddy up, and, when caddy up says that the container is created, caddy  *)
(* down.                                                                   *)
Fairness ==
  /\ WF_vars((\E p \in Publishers : Publish(p)) /\ History)
  /\ SF_vars((\E p \in Publishers, s \in Services : Commit(p, s, routes[s])) /\ History)
  /\ WF_vars(Manage /\ History) /\ WF_vars(Retry /\ History)
  /\ SF_vars(BeginUp("up_stat") /\ History)
  /\ SF_vars(box = "created" /\ BeginUp("down_stop") /\ History)

FairSpec == Spec /\ Fairness

(* However the container was left, half-made included, up and down bring   *)
(* Caddy back while the Caddyfile is one it can load.  Over one it cannot, *)
(* no command does: validate needs the container, which needs the file.    *)
UpConverges == <>[](disk = NoConfig \/ Accepts(disk)) => []<>(box = "running")

(* While Caddy runs and its hostnames do not clash, caddy reload, repeated, *)
(* gets the registry's routes served, whatever was left behind, once no    *)
(* two publications overlap.  Two that always do may discard each other's  *)
(* Caddyfile.tmp, and both fail, for ever.                                 *)
RoutesConverge ==
  <>[](/\ box = "running" /\ Accepts(Blocks(routes))
       /\ \A p, q \in Publishers : Busy(p) /\ Busy(q) => p = q)
    => []<>(live = Blocks(routes))
=============================================================================
