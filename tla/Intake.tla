-------------------------------- MODULE Intake --------------------------------
(***************************************************************************)
(* The data a deploy takes in: the command line (internal/cli), the mount  *)
(* grammar (internal/registry/mount.go) and the env script, up to what the *)
(* registry keeps and docker is told; and what decloud start makes of the  *)
(* registration later, when somebody may have edited it.  The steps that   *)
(* only move containers and routes are in Deploy and Lifecycle.            *)
(*                                                                         *)
(* A string is abstracted to its parts between the colons: a --mount value *)
(* and docker's -v argument are sequences of parts, and so are the two     *)
(* paths of a mount, which have one part unless a hand edit gave them      *)
(* more.                                                                   *)
(***************************************************************************)
EXTENDS EnvCapture, ExitCodes

CONSTANTS AbsPaths,     \* the parts that start with a slash
          VolumeNames,  \* those volumeNameRE matches
          CommandLines, \* [mounts, strategy, port, env] of a deploy
          Edits,        \* the mounts a hand edit can leave in the registry
          Scripts,
          Nothing,      \* not registered
          MaxChanges    \* changes to the files behind a command's back

ASSUME IntakeBounds == MaxChanges \in Nat

ASSUME ScriptsAreStatements == Scripts \subseteq Seq(Statements)

ASSUME EditsAreMounts == Edits \subseteq Seq([host : Seq(STRING), target : Seq(STRING), ro : BOOLEAN])

VARIABLES pc, args, script,
          file,         \* what is at the env script's path
          mounts, env,  \* the command's locals
          reg,          \* the registration: [mounts, strategy, env] or Nothing
          run,          \* what the service's container was run with, or Nothing
          exit, changes,
          edited,       \* history: somebody has edited the registration
          kinds         \* history: what has been at that path during this command

vars == <<pc, args, script, file, mounts, env, reg, run, exit, changes, edited, kinds>>

(* locked: bash may not open it; denied: not even stat tells. *)
Kinds == {"missing", "denied", "directory", "locked", "script"}

NoArgs == [mounts |-> <<>>, strategy |-> "", port |-> 0, env |-> "auto"]
-----------------------------------------------------------------------------
(* The mount grammar. *)

AMount(host, target, ro) == [host |-> host, target |-> target, ro |-> ro]

IsAbs(path) == Head(path) \in AbsPaths
IsVolumeName(path) == Len(path) = 1 /\ path[1] \in VolumeNames

ValidateMount(m) ==
  /\ m.host # <<"">> /\ (IsAbs(m.host) \/ IsVolumeName(m.host))
  /\ m.target # <<"">> /\ IsAbs(m.target)

Written(raw) == AMount(<<raw[1]>>, <<raw[2]>>, Len(raw) = 3)

ParsesMountString(raw) ==
  /\ Len(raw) \in {2, 3}
  /\ Len(raw) = 3 => raw[3] = "ro"
  /\ ValidateMount(Written(raw))

HasDuplicateTarget(ms) == \E i, j \in DOMAIN ms : i # j /\ ms[i].target = ms[j].target

(* The loader's check of a whole list. *)
ValidateMounts(ms) == (\A i \in DOMAIN ms : ValidateMount(ms[i])) /\ ~HasDuplicateTarget(ms)

(* Mutant: the flags are looked at one by one only. *)
ParsesEach(raws) == \A i \in DOMAIN raws : ParsesMountString(raws[i])

(* parseMountFlags: one by one, and then for duplicates. *)
ParsesMountFlags(raws) ==
  /\ \A i \in DOMAIN raws : ParsesMountString(raws[i])
  /\ ~HasDuplicateTarget([i \in DOMAIN raws |-> Written(raws[i])])

(* Mutant: the mode is not passed on. *)
WithoutMode(m) == m.host \o m.target

(* formatVolume, and what docker run makes of the argument. *)
FormatVolume(m) == m.host \o m.target \o (IF m.ro THEN <<"ro">> ELSE <<>>)

DockerTakes(arg) == /\ Len(arg) \in {2, 3}
                    /\ arg[1] \in AbsPaths \union VolumeNames /\ arg[2] \in AbsPaths
                    /\ Len(arg) = 3 => arg[3] \in {"ro", "rw"}
DockerMount(arg) == AMount(<<arg[1]>>, <<arg[2]>>, Len(arg) = 3 /\ arg[3] = "ro")

Takes(ms) == /\ \A i \in DOMAIN ms : DockerTakes(FormatVolume(ms[i]))
             /\ \A i, j \in DOMAIN ms : i # j => DockerMount(FormatVolume(ms[i])).target
                                                 # DockerMount(FormatVolume(ms[j])).target
Mounted(ms) == {DockerMount(FormatVolume(ms[i])) : i \in DOMAIN ms}

(* What errors.Is finds in the error of Load. *)
LoadError(r) == IF r = Nothing THEN {"NotFound"}
                ELSE IF ~ValidateMounts(r.mounts) THEN {"InvalidMount"}
                ELSE IF r.strategy \notin {"", "recreate"} THEN {"InvalidStrategy"}
                ELSE NoError
-----------------------------------------------------------------------------
RawLists == {c.mounts : c \in CommandLines}
MountLists == {[i \in DOMAIN raws |-> Written(raws[i])] :
                 raws \in {l \in RawLists : \A i \in DOMAIN l : Len(l[i]) > 1}} \union Edits
Env == SUBSET ((Names \union {Garbled, "HOME"}) \X Nat)

TypeOK ==
  /\ pc \in {"idle", "cli", "stat", "source", "load_prev", "docker_run", "save", "load", "run_again"}
  /\ args \in CommandLines \union {NoArgs} /\ script \in Scripts /\ file \in Kinds
  /\ mounts \in MountLists \union {<<>>} /\ env \in Env
  /\ reg # Nothing => /\ reg.mounts \in MountLists /\ reg.env \in Env
                      /\ reg.strategy \in {c.strategy : c \in CommandLines} \union {""}
                      /\ edited \/ reg.strategy = "recreate"
  /\ run # Nothing => run.env \in Env
  /\ exit \in {ExitOK, ExitUsageError, ExitConfigError, ExitEnvCaptureFail, ExitRunFail, Pending}
  /\ changes \in 0..MaxChanges /\ edited \in BOOLEAN /\ kinds \subseteq Kinds

Init ==
  /\ pc = "idle" /\ args = NoArgs /\ mounts = <<>> /\ env = {}
  /\ script \in Scripts /\ file \in Kinds
  /\ reg = Nothing /\ run = Nothing
  /\ exit = Pending /\ changes = 0 /\ edited = FALSE /\ kinds = {}

At(step) == pc = step
Goto(step) == pc' = step /\ exit' = Pending /\ UNCHANGED args
Return(err) == /\ pc' = "idle" /\ exit' = ExitCodeFor(err)
               /\ args' = NoArgs /\ mounts' = <<>> /\ env' = {} /\ kinds' = {}

World == UNCHANGED <<script, file, changes, edited>>
Kept == UNCHANGED <<reg, run>>

Begin(a) == /\ At("idle") /\ pc' = "cli" /\ args' = a /\ exit' = Pending /\ kinds' = {file}
            /\ UNCHANGED <<mounts, env>> /\ Kept /\ World

(* resolveEnvFile on an explicit path. *)
ResolveError(a) ==
  CASE a.env = "auto"   -> NoError
    [] file = "missing" -> {"EnvScriptMissing"}
    [] file = "denied"  -> {"EnvScriptUnreadable"}
    [] OTHER            -> NoError

(* runDeployService, up to Deploy.  A script next to the sources that stat *)
(* does not find is none, and so is one stat may not look at.              *)
RunDeployService ==
  /\ At("cli")
  /\ LET err == IF ~ParsesMountFlags(args.mounts) THEN {"Usage"}
                ELSE IF args.strategy # "recreate" THEN {"InvalidStrategy"}
                ELSE IF args.port = 0 THEN {"Usage"}
                ELSE ResolveError(args)
     IN  \/ err # NoError /\ Return(err)
         \/ /\ err = NoError
            /\ mounts' = [i \in DOMAIN args.mounts |-> Written(args.mounts[i])]
            /\ Goto(IF args.env = "auto" /\ file \in {"missing", "denied"} THEN "load_prev" ELSE "stat")
            /\ UNCHANGED <<env, kinds>>
  /\ Kept /\ World

(* Capture looks again. *)
Stat ==
  /\ At("stat")
  /\ CASE file = "missing" -> Return({"EnvCapture", "EnvScriptMissing"})
       [] file \in {"denied", "directory"} -> Return({"EnvCapture", "EnvScriptUnreadable"})
       [] OTHER -> Goto("source") /\ UNCHANGED <<mounts, env, kinds>>
  /\ Kept /\ World

(* The baseline bash, and the one that sources the script. *)
Source ==
  /\ At("source")
  /\ LET sh == IF file = "script" THEN Sourced(script) ELSE NotSourced
     IN  \/ sh.code # 0 /\ Return({"EnvCapture"})
         \/ /\ sh.code = 0 /\ env' = DiffEnv(Baseline, Records(sh))
            /\ Goto("load_prev") /\ UNCHANGED <<mounts, kinds>>
  /\ Kept /\ World

LoadPrev ==
  /\ At("load_prev")
  /\ LET err == LoadError(reg)
     IN  \/ err \in {NoError, {"NotFound"}} /\ Goto("docker_run") /\ UNCHANGED <<mounts, env, kinds>>
         \/ err \notin {NoError, {"NotFound"}} /\ Return(err)
  /\ Kept /\ World

RunWith(ms, e) == Takes(ms) /\ run' = [mounts |-> Mounted(ms), env |-> e]

DockerRun ==
  /\ At("docker_run")
  /\ \/ RunWith(mounts, env) /\ Goto("save") /\ UNCHANGED <<mounts, env, kinds>>
     \/ ~Takes(mounts) /\ Return({"Run"}) /\ UNCHANGED run
  /\ UNCHANGED reg /\ World

(* Mutant: the strategy is left for later. *)
SaveBare ==
  /\ At("save")
  /\ reg' = [mounts |-> mounts, strategy |-> "", env |-> env]
  /\ Return(NoError) /\ edited' = FALSE
  /\ UNCHANGED <<run, script, file, changes>>

Save ==
  /\ At("save")
  /\ reg' = [mounts |-> mounts, strategy |-> args.strategy, env |-> env]
  /\ Return(NoError) /\ edited' = FALSE
  /\ UNCHANGED <<run, script, file, changes>>

(* decloud start of a service whose container is gone. *)
BeginStart == /\ At("idle") /\ Goto("load") /\ UNCHANGED <<mounts, env, kinds>> /\ Kept /\ World

Load ==
  /\ At("load")
  /\ \/ LoadError(reg) # NoError /\ Return(LoadError(reg)) /\ Kept
     \/ /\ LoadError(reg) = NoError
        /\ mounts' = reg.mounts /\ env' = reg.env /\ Goto("run_again")
        /\ UNCHANGED kinds /\ Kept
  /\ World

RunAgain ==
  /\ At("run_again")
  /\ \/ RunWith(mounts, env) /\ Return(NoError)
     \/ ~Takes(mounts) /\ Return({"Run"}) /\ UNCHANGED run
  /\ UNCHANGED reg /\ World

(* Behind a command's back: the script changes its kind, the registration  *)
(* is edited by hand.                                                      *)
Changed == changes < MaxChanges /\ changes' = changes + 1 /\ exit' = Pending
           /\ UNCHANGED <<pc, args, script, mounts, env, run>>

FileChanges(k) == Changed /\ file' = k /\ kinds' = (IF At("idle") THEN {} ELSE kinds \union {k})
                  /\ UNCHANGED <<reg, edited>>

HandEdit(ms, st) == Changed /\ reg # Nothing /\ reg' = [reg EXCEPT !.mounts = ms, !.strategy = st]
                    /\ edited' = TRUE /\ UNCHANGED <<file, kinds>>

Next == \/ \E a \in CommandLines : Begin(a)
        \/ RunDeployService \/ Stat \/ Source \/ LoadPrev \/ DockerRun \/ Save
        \/ BeginStart \/ Load \/ RunAgain
        \/ \E k \in Kinds : FileChanges(k)
        \/ \E ms \in Edits, st \in {c.strategy : c \in CommandLines} : HandEdit(ms, st)

Spec == Init /\ [][Next]_vars
-----------------------------------------------------------------------------
(* Properties *)

Deploying == pc \in {"cli", "stat", "source", "load_prev", "docker_run", "save"}
Starting == pc \in {"load", "run_again"}
Ends(c) == ~At("idle") /\ pc' = "idle" /\ exit' = c

(* The mounts of the command line go through one set of checks, a          *)
(* registration through another, so that one ends in 2 and the other in    *)
(* 10; they refuse the same mounts, so what a deploy has registered, every *)
(* later command can load.                                                 *)
HasParts(raw) == Len(raw) = 2 \/ (Len(raw) = 3 /\ raw[3] = "ro")

ChecksAgree ==
  [][/\ Deploying /\ pc' = "idle" /\ (\A i \in DOMAIN args.mounts : HasParts(args.mounts[i])) =>
          exit' = ExitUsageError <=>
            \/ ~ValidateMounts([i \in DOMAIN args.mounts |-> Written(args.mounts[i])])
            \/ args.strategy = "recreate" /\ args.port = 0
     /\ Starting /\ Ends(ExitConfigError) => edited \/ reg = Nothing]_vars

(* A container runs with exactly the mounts that were asked for and are    *)
(* registered, after a deploy and after a start, unless a hand edit has    *)
(* put a colon into a path: the loader takes that, and docker takes it for *)
(* something else.                                                         *)
OnePart(m) == Len(m.host) = 1 /\ Len(m.target) = 1

MountsArrive ==
  [][/\ Ends(ExitOK) /\ (\A i \in DOMAIN reg'.mounts : OnePart(reg'.mounts[i]))
          /\ (Starting => mounts = reg.mounts)
        => run'.mounts = {reg'.mounts[i] : i \in DOMAIN reg'.mounts}
     /\ Deploying /\ Ends(ExitOK) => run'.mounts = {Written(args.mounts[i]) : i \in DOMAIN args.mounts}]_vars

(* A script asked for by name.  Where there is none all the time the       *)
(* deploy ends in 10, although the error is also one of the capture's, or  *)
(* for another reason in 2.  Exit code 0 registers the whole of what the   *)
(* script has given, or nothing at all, never a part of it, nor what an    *)
(* earlier deploy has left; and nothing only of a script that may be       *)
(* looked at and not opened, or that has changed its kind after the look.  *)
(* That one is passed over without a word: the source is one more command  *)
(* that fails, although capture.go:18 promises 10 where the OS has denied  *)
(* the open.                                                               *)
ExplicitScriptOrNothing ==
  [][Deploying /\ pc' = "idle" /\ args.env = "explicit" =>
       /\ kinds \subseteq {"missing", "denied", "directory"} => exit' \in {ExitConfigError, ExitUsageError}
       /\ exit' = ExitOK =>
            \/ "script" \in kinds /\ Sourced(script).code = 0
                 /\ reg'.env = DiffEnv(Baseline, Records(Sourced(script)))
            \/ kinds # {"script"} /\ kinds \intersect {"script", "locked"} # {} /\ reg'.env = {}]_vars

(* What a script that does nothing but assign and switch has asked for:    *)
(* every name assigned before set +a, or exported by name, with the last   *)
(* value it got.                                                           *)
Assigns(c, k) == c[1] \in {"set", "export"} /\ c[2] = k
Asked(scr, k) == \E i \in DOMAIN scr :
                   /\ Assigns(scr[i], k)
                   /\ scr[i][1] = "export" \/ \A j \in 1..i : scr[j][1] # "set +a"
LastOf(scr, k) == LET i == CHOOSE i \in DOMAIN scr : Assigns(scr[i], k)
                                     /\ \A j \in DOMAIN scr : Assigns(scr[j], k) => j <= i
                  IN  scr[i][3]
Wanted(scr) == {<<k, LastOf(scr, k)>> : k \in {n \in Names \ Own : Asked(scr, n)}}
Simple(scr) == \A i \in DOMAIN scr : scr[i][1] \in {"set", "export", "set +a", "set -e"}

(* A deploy that exits 0 registers exactly that environment; a service is  *)
(* run with the one registered, by the deploy and by decloud start.        *)
EnvIsExact ==
  [][Ends(ExitOK) =>
       /\ run'.env = reg'.env
       /\ Deploying /\ kinds = {"script"} /\ Simple(script) => reg'.env = Wanted(script)]_vars

(* What the documentation says: an env.sh that fails to source (readonly   *)
(* conflict, syntax error) ends the deploy in 20.                          *)
Conflict(scr) == \E i, j \in DOMAIN scr : i < j /\ scr[i][1] = "readonly" /\ Assigns(scr[j], scr[i][2])
SourcingFailureIs20 ==
  [][Deploying /\ Ends(ExitOK) /\ kinds = {"script"} =>
       ~Conflict(script) /\ \A i \in DOMAIN script : script[i][1] # "syntax"]_vars
=============================================================================
