# A TLA+ development of decloud

decloud deploys services on one host: it builds a Docker image, replaces the
service's container, waits until it answers an HTTP probe, registers it in two
TOML files and publishes a Caddyfile to the `decloud-caddy` container. Every
command is a process of its own. There is no daemon, no lock and no journal:
what a command leaves in the Docker daemon, in the registry and in the Caddy
directory is all the next one knows.

This directory models that program (paths below are relative to `src/`), checks
it with TLC on small instances and proves its safety properties with TLAPS for
every size.

## 1. Inventory

| Component | State | Operations | Hard behaviour |
|---|---|---|---|
| Registry store, `internal/registry/store.go` | `services/<s>.toml`, `secrets/<s>/env.toml`, its directory, abandoned `.tmp-*` files | Save, Delete, DeleteOrphanConfig, Load, List, ListNames | two files that are not atomic together; a crash between any two calls; readers running beside writers |
| Mount and strategy validation, `internal/registry/mount.go`, `store.go` | none | ParseMountString, ValidateMount, ValidateMounts, FindDuplicateTarget, the strategy check of the loader | one grammar checked in two places with two exit codes; a path with a colon in it |
| Deployer, `internal/deploy/service.go` | its locals (request, previous registration) | Deploy, regenerateAndReload, restoreOldContainer | some twenty steps that change three outside systems, each of which can fail half-way, be interrupted, or be the last thing the process does; a rollback that runs on a context of its own; exit codes that promise something |
| Readiness probe, `internal/deploy/readiness.go` | deadline, last error | Wait, probeOnce | three kinds of time limit, and ctrl+c in any call |
| Lifecycle, `internal/deploy/lifecycle.go` | none | Unregister, Start, Stop, Restart, Status, StatusAll, Logs, CaddyReload | the same shared state, by other orders of steps; a listing that reads beside a writer |
| Docker driver, `internal/dockerdrv/` | containers and the `decloud` network, in the daemon | Build, Run, Stop, Start, Remove, Inspect, Logs, NetworkEnsure, ContainerIP, Exec, ImagePull, RunWithOptions | a child that dies may have done its work; a name in use |
| Ingress, `internal/caddy/generator.go`, `stub.go`, `reloader.go` | `Caddyfile`, `Caddyfile.tmp`, what Caddy serves | Generate, WriteStubIfMissing, Validate, Reload | validated before it is renamed, registered before it is validated; one temporary file for all commands; Caddy down |
| Caddy manager, `internal/caddy/manager.go` | the `decloud-caddy` container | Up, Down, IsRunning | starts on the Caddyfile as it is; a container that is neither up nor gone |
| Env capture, `internal/envcap/` | none | Capture, the diff against a bare bash | a script that stumbles half-way; a file that changes between the look and the sourcing; what the script prints |
| Exit codes, `internal/cli/exit_codes.go` | none | ExitCodeFor | an error that wraps several sentinels: the order of the cases decides |
| Command line, `cmd/decloud/main.go`, `internal/cli/` | none | one command each | what is checked before the deployer starts, and with which code |
| Ids and paths, logging, generated mocks | none read by other parts | | |

The deployer calls every other part and waits for the answer; it is called from
`cmd/decloud/main.go`, which cancels its context on SIGINT and SIGTERM. Parts
share state only through the disk and the Docker daemon. The probe calls the
driver in a loop. Nothing calls back.

What makes each part correct:

- **Store**: no secrets without a config that leads to them; a write that
  returned without error is there in full; a reader gets a service nobody is
  writing exactly as last saved; a redeploy never makes a service unloadable.
- **Deployer**: what is registered has passed its probe; a deploy that ends by
  itself is whole or gone, but for a docker run that ended half-way; exit 0 and
  exit 60 say the truth about the container, the registry and, as far as the
  registry could be read, the routing; a failed redeploy puts the previous
  container back, but for two windows; other people's containers are left alone;
  deploying again recovers.
- **Probe**: ends in bounded time, ends at once on ctrl+c, and tells a signal
  from a failed probe.
- **Lifecycle**: exit 0 of unregister, start and restart says the truth; restart
  takes nothing down for good; a listing prints only what was so at some moment;
  start and unregister, repeated, get where they are meant to.
- **Ingress**: a publication nobody disturbs is one step from the registry to
  what Caddy serves; publications that overlap still serve only what was
  registered while they ran.
- **Manager**: exit 0 of up and down says the truth about the container, and the
  two together get Caddy out of every state of it.
- **Intake** (command line, mounts, env capture): the mounts and the environment
  that were asked for are those registered and those the container runs with;
  the two checks of a mount agree; a script asked for by name gives the whole of
  its environment or none, and none only where bash could not open it.

`PROJECT.json` lists the hazards line by line with the properties that cover
each, and those that none covers, with the reason.

## 2. Modules

| Module | Models |
|---|---|
| `Deployments` | the names everything else refers to: `Services`, and `Versions`. A version is a deploy: it stands for the image, environment, hostnames and registration of that deploy. |
| `RegistryFiles` | the files of a registration, what Load makes of them, and one operator per file-system call |
| `Registry` | the store under concurrent processes: each action is one file-system call of one process; implements `SafeRegister` |
| `SafeRegister` | the abstract specification of the store: a register per service, and what a read of it may rely on |
| `Docker` | the daemon as the driver sees it, and the ways in which a call under a context can end |
| `Caddyfile` | the two files, what Caddy serves, what Caddy accepts |
| `Publication` | the abstract specification of the ingress: a Caddyfile goes from the registry into place in one step |
| `Deploy` | composes `Docker`, `RegistryFiles`, `Caddyfile`: one action per step of Deploy, its cleanup, and regenerateAndReload; implements `Publication` |
| `Readiness` | the probe's loop, with time |
| `ExitCodes` | ExitCodeFor over the sentinels an error wraps |
| `Lifecycle` | composes `Docker`, `RegistryFiles`, `ExitCodes`: the commands that do not deploy, and a `decloud status` beside them |
| `Ingress` | composes `Caddyfile`, `ExitCodes`: any number of publishers, and the manager; implements `Publication` when they come one after another |
| `EnvCapture` | the sourcing shell, what it prints, the diff |
| `Intake` | composes `EnvCapture`, `ExitCodes`: the data a deploy takes in, from the command line to docker's arguments, and a later start |
| `MCRegistry`, `MCDeploy`, `MCReadiness`, `MCLifecycle`, `MCIngress`, `MCIntake` | instances for TLC |
| `RegistryProofs`, `DeployProofs`, `RollbackProofs`, `ReadinessProofs`, `ExitCodesProofs`, `LifecycleProofs`, `IngressProofs`, `IntakeProofs` | theorems and proofs |

### RegistryFiles and Registry

`config[s]` and `secrets[s]` hold the version a file says, `NoFile`, or
`Broken`: everything Load rejects with an error other than ErrNotFound and
ErrSecretsMissing (syntax, unknown field, schema, mount, strategy, mode). The
program itself never writes such a file; it is there from the start, as the
operator's doing. `secDir[s]` is the secrets directory and `litter[s]` an
abandoned temporary file in it.

Save is `SaveConfig`, `SaveDir`, `SaveTemp`, `SaveRename`; Delete is
`DeleteSecrets`, `DeleteDir`, `DeleteConfig`; Load is `LoadConfig`, `LoadStat`,
`LoadRead`, and List is `ListNames`, `ListNext` and a Load for each name. The
write of a config is one action, since only its rename is visible to anyone and
its temporary is no `*.toml`; the write of the secrets is two, since its
temporary lies in a directory that Delete must find empty. Each action's failure
is `SaveFails`, `DeleteFails`, `DeleteRefused` or `ReadFails`; `Crash` ends a
process anywhere. A failing read is an error of Load's, and of List's only where
it is the ReadDir: List goes on after every error of a Load, so the service whose
read failed is missing from what it returns, and its caller is not told
(`unread`). A Save that fails half-way continues with the deployer's rollback,
`DeleteOrphanConfig`.

The decision records make decloud single-operator: `BeginSave` and
`BeginDelete` are not taken for a service another process is writing. Writers of
different services and any readers run together. `left`, `saved`, `steady` and
`unread` are history variables the properties need; no action's guard reads them.

### SafeRegister

What the store promises, without its files: a register per service, safe in
Lamport's sense. A read that no write of the service overlaps returns the one
value it holds, whatever happens to other services, or says nothing of a service
it has missed; one that a write overlaps may return anything, an old config with
new secrets included; and a write that broke off leaves the register unsettled
until another ends well. `Registry` maps the value to what was last saved where
nothing is being written or was broken off (`Holds`), the reads' promises to
`steady`, what they miss to `unread`, and their results to what Load and List
return (`Returned`). Neither regular nor atomic registers would be true of two
files that are renamed one after the other.

### Docker, Caddyfile and Deploy

`pc` is the step of the single command that runs; the steps have the names of
the audit log. A step's disjuncts are the ways its call can end:

- `Answered`: the call succeeds, or the daemon refuses it for a reason the state
  gives;
- `Refused`: the context is done, so `os/exec` starts nothing and returns the
  context's error, which `isCancellation` recognises;
- `CallFails`: the child fails or is killed by the signal. The daemon may have
  done its work all the same, so the container is left in either state (`docker
  run` has a third: created and not started). A child killed by a signal is an
  ExitError, which is not a cancellation; one that finished while the signal
  came is reported as the cancellation (`Classified`).

The cleanup steps run on a context no signal cancels; their failures are only
logged, and set the history variable `hurt`. Another, `halfRun`, is set when a
docker run has failed or was interrupted and left a container: no path of the
code removes that one before the next deploy, and where there was a previous
container the rollback's own docker run finds the name taken. `unlisted` has the
services List passed over when the Caddyfile was generated, because a read of
their files failed (`Generate`, `Listed`). `Crash` is kill -9 at any step.
`CaddyStops`, `CaddyUp`, `ByHand` and `Tamper` are the world: Caddy going down,
`caddy up`, an operator who replaces a container by hand or breaks a file. A
Caddyfile is its set of `<<hostname, service>>` blocks; `Accepts` refuses a
hostname Caddy cannot parse and one that two services claim. The hostnames of a
request are a set, so a request that names one twice is not distinguished.

A deploy id is fresh in the code; in the model an id is one nothing refers to
(`InUse`), so that four ids are enough for any number of deploys of one or two
services.

What is abstracted: the effect of a killed docker client happens at that moment or
not at all, not later; containers do not exit by themselves (they do in
`Lifecycle`, which is where `restarting` comes up); the 30 s of the cleanup
context are a failure that can come at any of its calls; the readiness wait is one
step whose outcomes are those `Readiness` derives (a failed wait can look like an
interrupted one, and an interrupted one like a failed one); Save is the two
renames of `Registry` and, since there is no unregister here, the temporary file
of a crash is left to `Registry`; `caddy up` is one step. A directory or file the
process cannot read at all counts as `Broken`.

### Publication

What the ingress promises, without its steps: `want` is what the registry asks
for, and the only changes of the Caddyfile and of what Caddy serves are a stub
where there is nothing, the publication of `want` in one step if Caddy accepts it,
a load of the file as it is, and Caddy's stop and start. `Deploy` maps `want` to
what List could read of it, `Listed(unlisted)`, and keeps `disk` and `live`;
`Caddyfile.tmp` and the order of generate, validate, rename and reload are what
the refinement hides. `Init` says that nothing is published, the stub, or what the
registry asks for, and that Caddy is down or serves it.

`Ingress` maps `want` to `Blocks(routes)` less the services the command at work
has passed over. With two publishers at once there is no such refinement:
`BrokenNeverOnDisk` fails. `SerialSpec` is `Ingress` with commands one after
another (`OneAtATime`), over any files and containers that failed and killed ones
have left, and it implements `Publication` again.

### Lifecycle

One command at a time, from whatever a deploy, a crash or the operator's own
docker commands have left of one service (`Init` enumerates it), beside others
that are registered and whose hostname Caddy may refuse (`Spoilt`), with the same
three ways for a call to end as in `Deploy`. Unregister is `Load`, `Stop`,
`Remove`, `DeleteSecrets`, `DeleteDir`, `DeleteConfig`, `Publish`; start is
`Load`, `Inspect`, then nothing, `DockerStart` or `DockerRun`; restart is `Stop`
and then start, in that order, as in the code: it does not look at the registry
before it stops. `Publish` has the outcomes of regenerateAndReload, whose steps
are in the other two modules: published, less what List could not read; refused
by Caddy, or Caddy down, and the old Caddyfile kept with 60; or a call failed.
Delete is file by file, because a listing reads between its steps: `WatchStarts`
to `WatchInspect` are StatusAll, one read each, Load's look at the secrets
(`WatchStat`) and its reading them (`WatchRead`) apart; Status of one service is
one round of it.

The world deploys (`Deployed`), exits a container or has docker restart it
(`Exits`, `Revives`), prunes (`Prune`, which also removes a network nobody is
on), stops Caddy, sends ctrl+c and kills the command. `trouble` notes that docker
failed on the way or somebody interfered; `was` and `seen` are what a property
compares the end with.

### Ingress

A command is here from the moment it has changed the registry (`Commit`; a
caddy reload changes nothing) to its exit code. Its steps are one file-system or
docker call each: `ListNames`, `Load` for each name in order, `StubStat` and
`StubWrite` (WriteStubIfMissing looks and then writes), `Generate`, `Validate`,
`Discard` or `Rename`, `Reload`. `tmp` is the one `Caddyfile.tmp` of all
commands, so a step may find there what another process has written, or nothing.
`up` is the step of `caddy up` or `caddy down`; `Boot` is what docker makes of a
container that starts: Caddy running on the Caddyfile, or exiting and being
restarted again and again when it cannot load it (`restarting`). The generator
writes a file of its own name before it renames it to `Caddyfile.tmp`, so
`Generate` is one step.

A `Load` that fails leaves its service out and the publisher goes on, as List does.

`alone` holds the publishers that nobody has overlapped, `passed` the services
each of them has left out so, `ever` the hostnames each service has had since all
was quiet (none, for a publisher that has left it out), `bare` whether there was a
Caddyfile then.

### ExitCodes, EnvCapture and Intake

An error is the set of sentinels `errors.Is` finds in its chain; `Cases` is the
switch of ExitCodeFor in its order. `Lifecycle`, `Ingress` and `Intake` compute
every exit code with it; `Deploy` has the codes written where the code wraps.

A script is a sequence of the statements that matter (assign, export, readonly,
`set +a`, `set -e`, a failing command, a syntax error, exit, print), folded over
a shell; `Records` is what comes back on stdout, and `DiffEnv` what is kept. bash
itself is not under `src/`: `Runs` is how captureScript relies on it.

A string of the mount grammar is the sequence of its parts between colons, so
that `FormatVolume` is concatenation and docker's reading of `-v` a split of the
same parts. `Intake` runs the whole way of the data: `RunDeployService` (the
flags, their checks and their codes, resolveEnvFile), `Stat`, `Source`,
`LoadPrev`, `DockerRun`, `Save`, and a later `Load` and `RunAgain` of `decloud
start`. Between any two of them the env script's path may change its kind and a
registration may be edited by hand.

### Readiness

Time counts half seconds, so a requested wait can lie between whole seconds.
The probe has a limit of its own (2 s), docker inspect has none in the code:
`MaxCall` bounds it, and `WaitBounded` shows what the wait's bound depends on.
`CutShort` is a call the signal ends, `NotStarted` a call under a done context.
The decision Deploy takes on the result (`isCancellation`, wrapping) is part of
`Fail`, since it is there that the two kinds of timeout meet.

## 3. What is checked

Every property is stated with a comment in its module. Every property of a
passing run has a mutant in `PROJECT.json`: a plausible bug in one definition,
written next to it and marked "Mutant", that makes TLC report the property.

| Run | Shows | Bounds |
|---|---|---|
| `Registry_safety` | NoOrphanSecrets, SettledIsExact, ReadersSeeSettled, LoadableUntilRemoved | 2 processes, 2 services, 2 versions, 1 failing call, of a reader or a writer, 1 crash; 2.5 million states up to symmetry and view |
| `Deploy_one` | OnlyProbedRegistered, ZeroMeansServed, SixtyMeansRegistered, WholeOrGone, RollbackRestores, OutageWindows, FreshDeploySparesForeign | 1 service deployed any number of times, 4 ids, 2 failures, signals or outside changes, 1 crash; 0.4 million states |
| `Deploy_two` | DiskAcceptable, Publishes (the refinement of `Publication`) | 2 services, a hostname that clashes and one that does not parse, 3 ids, 1 failure; 1.7 million states |
| `Deploy_retry` | RetryConverges, under fairness | 1 service, a hostname Caddy parses and one it does not, 4 ids, 1 failure, 1 crash; 0.3 million states |
| `Readiness` | WaitBounded, CtrlCEndsWait, SignalIsInterrupt, InterruptHasCause, WaitEnds | waits of 0 (meaning 60 s), 0.5, 1, 1.5, 3.5 s; intervals 0 (meaning 1 s), 1, 3 s; inspects up to 1.5 s |
| `Lifecycle` | RowsWereTrue, UnregisterRemoves, ZeroMeansRunning, RestartKeepsUp; StartConverges and UnregisterConverges under fairness | 1 service left in any of 7 states of its container by 4 of its files, another one registered, 2 versions of which Caddy refuses one's hostname, 1 failure; 0.35 million states |
| `Ingress_overlap` | SoloIsExact, OverlapIsBounded, ManagerTellsTruth | 2 publishers, 2 services, 1 hostname, 2 changes of the registry, 1 failure; 2.4 million states |
| `Ingress_converges` | UpConverges, RoutesConverge, under fairness | 2 publishers, 1 service, a hostname Caddy parses and one it does not, 1 change, no failures; 0.26 million states |
| `Intake` | ChecksAgree, MountsArrive, ExplicitScriptOrNothing, EnvIsExact | 15 mount lists, 13 scripts, 6 hand edits (`MCIntake`), 1 change behind a command's back; 0.8 million states |
| `Registry_rollback`, `Ingress_broken`, `Intake_sourcing` | a disagreement of the code with its documentation each (below) | |

Every module's TypeOK is checked too, in the first of its runs.

Why the bounds are enough to be interesting. Two processes are a writer and a
reader, or two writers; a second service shows that nothing leaks from one to
the other; two versions make a torn pair visible. In `Deploy` a single failure
reaches every error path, a second reaches a failure during the cleanup of the
first, and a crash combines with either; four ids cover a registration whose
two files are of different deploys, a container of a third, and a fresh one.
`Deploy_two` has three ids (a deploy begins only when one of them is in use
nowhere) and no crash, to stay within minutes; `Deploy_one` has four and a crash.
In `Lifecycle` what a second failure would add is in the initial states.
Commands touch one service at a time, so they are run for one only (`Bystanders`
names the other, which is registered throughout and takes part in what is
published and listed). A listing is followed only while Caddy is down and beside
unregister, deploys and what befalls containers (`ListingsApart`), since it reads
neither the ingress nor what the other commands change. The proofs have neither
bound. `Ingress_overlap` has two publishers, which is what it takes for one to
find the other's temporary file, and two changes, so that the registry differs
from what either has listed; `Ingress_converges` drops the failures because
fairness is what it is about, and starts with the container in any state a
manager's failure leaves it in.
`MCIntake`'s strings have one of each kind the grammar tells apart, and its
scripts one of each statement before and after those it interacts with.

`MaxFaults`, `MaxCrashes` and `MaxChanges` bound only the number of things that
go wrong or change in a behaviour. Commands are not bounded.

`Registry_safety` uses symmetry in services, versions and processes, and
`Ingress_overlap` and `Ingress_broken` symmetry in publishers: all their
properties are safety properties that treat them alike. `Registry_safety`'s VIEW
leaves out the service a process last worked on when the process is in none, a
value nothing reads. `Deploy` uses neither, because the choice of a fresh id is a
CHOOSE.

### Fairness

`Deploy_retry` assumes: the running command takes its next step (`WF` on
`Step`: calls return, by themselves or by their failure); an operator who has
not given up runs deploy again and again, and `caddy up` when Caddy is down
(`SF`, since faults disable and enable them); and an application that is probed
again and again passes sometimes (`SF` on `ReadinessPasses`). The last three are
assumptions about people and applications, not about decloud: without them no
deploy tool converges. The property itself assumes that the name is not taken by
somebody else's container for ever, that the files are not left broken, and that
the hostnames in the registry do not stay ones Caddy refuses, this service's or
another's: in all three cases the program's own answer is to refuse, in the third
with 60 for every deploy.

`WaitEnds` needs only that calls return (`WF` on `Step`); nobody has to press
ctrl+c.

`Lifecycle` assumes the same of the running command, and of an operator who
repeats start, unregister and caddy reload, and caddy up when Caddy is down
(`SF`: other commands and faults come in between). Nothing is assumed of docker's
restarts. StartConverges has premises that are facts about the code: `start`
calls docker run for a container that is `created` or `restarting`, and its name
is in use; and no lifecycle command makes the network. UnregisterConverges
excludes broken files, which Load refuses, an abandoned temporary file, which
keeps the secrets directory from being removed, and another service with a
hostname Caddy refuses, over which unregister and reload end in 60 each time and
the route stays.

`Ingress_converges` assumes that some publisher takes its next step, that `caddy
up` or `down` does, that docker goes on restarting a container that exits (`WF`),
and that the operator repeats caddy reload, caddy up and, when up finds the
container created, caddy down (`SF`). RoutesConverge asks that publications do
not overlap for ever: two that always do can discard each other's
`Caddyfile.tmp` and both end in 60 each time, a livelock the code allows.
UpConverges asks that the Caddyfile on disk be one Caddy accepts. If a broken one
gets there (which takes two publishers) and Caddy restarts, no command of
decloud's repairs it: validate runs inside the container, which does not run.

### Where the code and its documentation part

Three runs expect a violation: each states what the documentation says, and
TLC's trace shows what the code does.

| Run | The documentation says | The code |
|---|---|---|
| `Registry_rollback` | the rollback of a partial write is for a fresh deploy (`_ai/decisions/secrets-split.md:16`) | it deletes the config of a redeployed service too |
| `Ingress_broken` | a syntactically broken Caddyfile cannot reach disk (`_docs/usage.md:190`) | two commands at once rename one nobody has validated |
| `Intake_sourcing` | a readonly conflict or a syntax error ends in 20 (`_docs/usage.md:177`, `:199`) | captureScript goes on and registers the environment set by then |

The modules show more such behaviours, without a run of their own. Each is in a
definition or in the premise of a property:

- List passes over a service of which a read failed as it does over a broken one.
  A deploy, an unregister or a caddy reload that meets such a failure publishes a
  Caddyfile without the service, possibly the one just deployed, ends in 0 and
  logs nothing (`ReadFails`, `Generate`, `Load` of `Ingress`; excepted by name in
  ReadersSeeSettled, ZeroMeansServed, SoloIsExact, OverlapIsBounded,
  UnregisterRemoves).
- A docker run that fails or is interrupted after it has created the container
  leaves it there, labelled and unregistered; in a redeploy the rollback's docker
  run then fails on the name, and the service is down until the next deploy
  (`RunNew`, `halfRun`; excepted by name in WholeOrGone, RollbackRestores,
  OutageWindows).
- `decloud status` prints an "error" row for a service that is being unregistered
  when its secrets go between Stat and ReadFile (`WatchRead`, RowsWereTrue).
- A hostname that Caddy refuses, once registered, has every deploy, unregister and
  reload of every service end in 60 until it is changed (`Validate`, `Publish`).
- A crash between the two writes of a redeploy leaves the new config with the
  old secrets, which Load accepts (`SaveConfig`, `Crash`; what the next deploy
  makes of it is `RetryConverges`).
- An unregister fails on the temporary file of a Save that died (`DeleteDir`,
  `litter`).
- With Caddy down, `caddy up` after a deploy serves the older Caddyfile, since
  the generated one has been discarded; `caddy reload` is needed as well
  (`Validate`, `CaddyUp`).
- A redeploy removes whatever container has the service's name; only a first
  deploy looks at its label (`StopOld`, `RemoveOld`, against `OrphanCheck`).
- A probe that hangs past the deadline looks like ctrl+c and ends in 130
  (`InterruptHasCause`), and a `--readiness-timeout` below one second waits 60 s
  (`Timeout`, `WaitBounded`; `_docs/usage.md:68`).
- An interrupt in the network, env capture, build or Caddy step exits with that
  step's code and not with 130 (`_docs/usage.md:414`).
- An explicit env script that bash may not open is passed over like an empty one
  (`NotSourced`, ExplicitScriptOrNothing), though `internal/envcap/capture.go:18`
  names a denied open among the errors that end in 10.
- A script may not set the names decloud takes for bash's own (`Own`); one that
  prints loses the name of its first variable (`Records`); one that exits with 0
  gives an empty environment and no error.
- A path with a colon, which only a hand edit can register, is another mount by
  the time docker has read it (`MountsArrive` exempts it).
- `start` fails over a `created` or `restarting` container (`Made`, `AfterRun`).

## 4. What is proved

The proofs hold for any sets of services, versions, processes, publishers and
hostnames and any bounds on failures and crashes. The only assumptions are those
the modules state with ASSUME: the special values (`NoFile`, `Broken`, `None`,
`Foreign`, `Down`, `NoConfig`) are not versions, services or files and differ
where it matters; the bounds are naturals; `BadHosts` is a subset of `Hosts`,
`Spoilt` of the versions and `Bystanders` of the services; the times of
`Readiness` are integers and its `MaxCall` a natural; the hand edits of `Intake`
are sequences of mounts (`EditsAreMounts`) and its scripts sequences of statements
(`ScriptsAreStatements`); and HOME is one of the names decloud takes for bash's
own (`HomeIsOwn`), as `isBashInternal` says.

**Registry** (`RegistryProofs`). `NoOrphanSecrets` and `SettledIsExact` are not
inductive: while a write is under way nothing follows from how the last one
ended. `IInv` adds how far each writer has got and what the disk then looks like
(`SaveAt`, `DeleteAt`), that a service has one writer (`OneWriter`, which is
where the single-operator assumption enters), and that a process carries a real
version when it writes or has read one. `TypeCorrect`, `NoOrphans`,
`SettledExact` follow, and `StaysLoadable`: of all steps only the removal of the
secrets and the rollback can turn a loadable service into one that is not.
`ReadersExact` needs a second invariant on top, `RInv`: a service a reader is
steady about is being written by nobody (`SteadyQuiet`), so each value the
reader has picked up, and each verdict it has reached, is that of the files as
they still are (`Reads`), and a service that is missing without a verdict is one
a read has failed of.
`StoreIsSafeRegister` is the refinement of `SafeRegister`. The first step of a write
unsettles the register and the last one settles it; a read begins relying on a
service only if nothing is being written there (`AtRest`) and stops when a write
begins; what it then returns of the service is, by `ReadersExact`'s argument, the
register's value; every other step, between two files included, is a stutter.

**Deploy** (`DeployProofs`). `IInv` follows a deploy forward: the new container
runs from docker run to the end of Save (`NewRuns`), the id is probed when the
config is written, both files are of this id when publication begins
(`Registered`), and the Caddyfile on its way is `Listed(unlisted)` at each step,
the registry less what List could not read, and has been accepted before it is
renamed (`Published`). `Failure` says that the code kept during a cleanup is never 0, 60 or 137, which is why only the publication's
own steps end a command with 0 or 60 (lemma `EndsInIngress`). From these:
`OnlyProbed`, `CaddyfileAcceptable`, `SixtyIsTrue` and `ZeroIsTrue`. The last
needs that a Caddyfile generated from the registry is still that of the registry
when it is loaded; with one command at a time nothing changes the registry in
between. The same fact carries `Refinement`: Deploy implements `Publication`, for
the rename is the abstract Publish, reload is Load, and every other step leaves
Caddyfile and Caddy alone. `TypeCorrect` needs `HasId` beside the types: a deploy
on its way has an id, which is what it registers.

**How a deploy ends** (`RollbackProofs`, on top of `DeployProofs`). `Story` tells
what a deploy may rely on although it learnt it many steps ago: its id is nobody
else's until it writes it (`OwnId`), the registration it loaded is the one on
disk until it saves (`KnowsPrev`), and whose the container of the name is at each
step (`KnowsContainer`): its own and half-run in particular, from a docker run
that failed after create to the end of the rollback. With `EndsInStep` and
`Endings`, which list the steps a command can end in, `Whole`, `RolledBack`,
`TwoWindows` and `ForeignSpared` are a case for each.

**Readiness** (`ReadinessProofs`). Between two steps the clock is at most a round
past the deadline, by an amount that depends on where the loop is (`Clock`), and
a verdict comes only from a deadline that has passed or a context that is done
(`Verdicts`). `Bounded`, `SignalEndsWait`, `SignalReported` and
`InterruptsExplained` follow.

**Exit codes** (`ExitCodesProofs`). `CodesTellErrors`: 0 is the code of the nil
error alone, 130 of exactly the errors that wrap the interrupt, 70 of exactly
those no case knows. The lemmas the other proofs cite are that the first case that
knows an error decides (`FirstCase`), and that an error only one case knows gets
that case's code (`CodeOfCase`).

**Lifecycle** (`LifecycleProofs`). `CommandInv` says which command takes which
steps, what an unregister has removed by when (`Removed`), and what start and
restart know of registration and container unless docker failed (`Known`).
`ListInv` is the listing's: what it has read of a service was so at a moment
already written down in `seen`. The listing's reads are not atomic, and yet no row
is false, because Delete removes the config last: a config followed by missing
secrets was, at the second read, a registration without secrets or one that had
been so; and secrets that were there at the look and gone at the read had been
loadable and then missing, which is what the one false "error" row shows (`Found`,
`SecretsFirst`, `RowsTrue`). From these `Unregistered`, `StartedRuns`,
`RestartKeeps`.

**Ingress** (`IngressProofs`). `Solo` follows a publisher nobody disturbs: what it
has listed, with what it has still to load and what it could not read
(`PassingInv`), is the registry; then the temporary file is; then the Caddyfile.
`Listing` says when a publisher holds blocks at all, and `OverlapInv` bounds what
any number of publishers can leave behind: every file and every list is, service
by service, from a registry seen since all was quiet, or empty where a publisher
passed it over, or is the stub. `Solitary`, `Overlapping`, and, from what the
manager knows of its container (`ManagerAt`), `ManagerTruth`. `SerialRefinement`
shows that `SerialSpec` implements `Publication`: a publisher nobody disturbs
holds the registry's routes from `Solo`, so its rename is the abstract Publish; a
stub, a reload and a start of Caddy are the abstract steps of those names. From
`Publication` alone it follows that neither the Caddyfile nor what Caddy serves is
one Caddy would refuse (`PublicationKeepsAcceptable`), and so `BrokenNeedsTwo`:
what the run `Ingress_broken` refutes for two commands at once holds for commands
one after another, whatever fails.

**Intake** (`IntakeProofs`). `IInv` says what has been at the script's path when
the command gets past a check, and that the mounts on their way are those of the
command line (`HasMounts`); `MInv` that whatever is registered is well formed,
by the loader's checks or by the command line's. `RoundTrip` is the mount format:
what docker makes of `formatVolume` of a mount whose paths have one part is that
mount. `ScriptOrNothing` needs that the environment on its way is the whole of
what the script has given, or empty where it was not sourced (`SInv`: `Took`,
`NothingSourced`). It and `MountsAreThose` follow, and `MountRoundTrip`, which says
that it is that mount in no other case, and `MountAsTyped`, that an accepted
`--mount` reaches docker as it was typed.

`ChecksAreOne` needs `CInv` on top: past the command line's checks the arguments
have passed them (`Checked`), and a registration nobody has edited passes the
loader's (`Loadable`). The two take their checks in another order and name other
errors, but refuse the same mounts (`ParsedIsValid`).

`EnvExact` (on `EInv`) and `TypeCorrect` rest on what sourcing a script computes,
for scripts of any length: that `Sourced` is a function along the script at all,
that each prefix leaves a shell (`SourcedType`), and that a script of assignments,
exports and switches leaves exactly what it says (`ScriptLeavesWanted`). Each is
an induction along the script. The library's induction theorem takes a predicate
as an operator, which the provers cannot instantiate, so the induction is over
sets of naturals: a non-empty one has a least element (`Least`, from the library's
well-foundedness of finite sets under inclusion, by way of `1..n`), hence a set
that contains 0 and with each number below the length the next contains all of
them (`Along`).

Only model-checked: RetryConverges, WaitEnds, StartConverges,
UnregisterConverges, UpConverges and RoutesConverge. They are liveness under
fairness, which needs ENABLED and is beyond the prover. Every safety property a
passing run checks is proved. The other way round, `ReadsSafely` of `Registry` and
`Publishes` of `Ingress` are theorems without a run among those listed, since
the runs of their modules are about other specifications or already long; TLC
finds both to hold under the bounds of `Registry_safety` and `Ingress_overlap`
when they are added as a PROPERTY (the second under `SerialSpec`).

## 5. Not modelled, and why

- Two commands writing the same service: excluded by the single-operator
  decision (`_ai/decisions/`). Two commands of different services are in
  `Registry` and `Ingress`.
- Power failure: a crash here is the death of the process. `writeAtomic` does not
  fsync, so more can be lost when the host goes down.
- Containers that exit by themselves while a deploy runs; `Lifecycle` has them.
- Text: TOML, Caddyfile syntax, docker arguments other than `-v`, log records,
  status tables; Cobra's flag parsing and the wiring of the commands.
- Collisions of ids: two deploys in one second with the same 24 random bits.
- `IsRunning` of the manager, which nothing calls.
- Logging and the generated mocks: no other part reads what they do.

## 6. Where to go on

The plan of this development was the store, the deploy and the probe first; then
the commands beside them (`Lifecycle`), the shared ingress (`Ingress`), the data
(`Intake`), the abstract `Publication` and `SafeRegister`, and the proofs of every
safety property. What is left of it:

1. An abstract `Rollout` of a service (old version, nothing, new version;
   registered or not) that `Deploy` implements. WholeOrGone, RollbackRestores and
   OutageWindows state its parts.
2. Lifecycle commands and a deploy of another service at once, in one module: what
   they share is the registry (`Registry`) and the ingress (`Ingress`), each of
   which already has both.
