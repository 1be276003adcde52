------------------------------- MODULE Registry -------------------------------
(***************************************************************************)
(* fsStore under concurrent processes.  Every decloud command is a process *)
(* of its own and the store takes no lock, so the file-system calls of two *)
(* commands interleave; a process can die between any two of them.         *)
(*                                                                         *)
(*   Save     the deployer persists a registration (config, then secrets)  *)
(*            and, when Save reports ErrPartialWrite, calls                *)
(*            DeleteOrphanConfig                                           *)
(*   Delete   unregister (secrets, then directory, then config)            *)
(*   Load     one service: start, status <name>, a deploy's look at prev   *)
(*   List     every service: the regeneration of the Caddyfile             *)
(*                                                                         *)
(* The project is single-operator: no two commands write the same service  *)
(* at the same time.  Writers of different services and any number of      *)
(* readers run together.                                                   *)
(***************************************************************************)
EXTENDS RegistryFiles, Naturals, FiniteSets

CONSTANTS Clients,     \* processes
          MaxFaults,   \* file-system calls that fail in a behaviour
          MaxCrashes   \* processes that die in a behaviour

ASSUME RegistryBounds == MaxFaults \in Nat /\ MaxCrashes \in Nat

VARIABLES pc,        \* pc[c]: the file-system call c makes next
          svc,       \* svc[c]: the service c is working on
          ver,       \* ver[c]: the version c saves, or the config a Load has read
          todo,      \* todo[c]: the names a List has yet to load
          out,       \* out[c]: what a Load or List returns: {<<service, config, secrets>>}
          faults, crashes,
          left,      \* history: how the last write of a service ended
          saved,     \* history: the version last saved or deleted in full
          steady,    \* history: services nobody has written since c began to read
          unread     \* history: services c's List has passed over because a read failed

callVars == <<pc, svc, ver, todo, out>>
readHist == <<steady, unread>>
histVars == <<left, saved, readHist>>
vars == <<fileVars, callVars, faults, crashes, histVars>>

SaveSteps   == {"save_config", "save_dir", "save_tmp", "save_rename", "rollback"}
DeleteSteps == {"del_secrets", "del_dir", "del_config"}
LoadSteps   == {"load_config", "load_stat", "load_read"}
ListSteps   == {"list_next", "list_config", "list_stat", "list_read"}
ReadSteps   == LoadSteps \union ListSteps \union {"returned"}
WriteSteps  == SaveSteps \union DeleteSteps

Writer(c, s) == pc[c] \in WriteSteps /\ svc[c] = s
Written(s)   == \E c \in Clients : Writer(c, s)

TypeOK ==
  /\ FilesTypeOK
  /\ pc \in [Clients -> WriteSteps \union ReadSteps \union {"idle", "list_names"}]
  /\ svc \in [Clients -> Services]
  /\ ver \in [Clients -> Versions \union {NoFile, Broken}]
  /\ todo \in [Clients -> SUBSET Services]
  /\ out \in [Clients -> SUBSET (Services \X Versions \X Versions)]
  /\ faults \in 0..MaxFaults
  /\ crashes \in 0..MaxCrashes
  /\ left \in [Services -> {"settled", "save_cut", "rolled_back", "delete_cut", "tampered"}]
  /\ saved \in [Services -> Versions \union {NoFile}]
  /\ steady \in [Clients -> SUBSET Services]
  /\ unread \in [Clients -> SUBSET Services]

(* A service starts unregistered, registered, or registered with a file    *)
(* the operator has edited or chmod-ed into something Load rejects.        *)
Init ==
  /\ saved \in [Services -> Versions \union {NoFile}]
  /\ \E badConfig, badSecrets \in SUBSET {s \in Services : saved[s] # NoFile} :
       /\ config  = [s \in Services |-> IF s \in badConfig THEN Broken ELSE saved[s]]
       /\ secrets = [s \in Services |-> IF s \in badSecrets THEN Broken ELSE saved[s]]
       /\ left = [s \in Services |->
                    IF s \in badConfig \union badSecrets THEN "tampered" ELSE "settled"]
  /\ secDir = [s \in Services |-> saved[s] # NoFile]
  /\ litter = [s \in Services |-> FALSE]
  /\ pc = [c \in Clients |-> "idle"]
  /\ svc \in {[c \in Clients |-> s] : s \in Services}
  /\ ver = [c \in Clients |-> NoFile]
  /\ todo = [c \in Clients |-> {}]
  /\ out = [c \in Clients |-> {}]
  /\ steady = [c \in Clients |-> {}]
  /\ unread = [c \in Clients |-> {}]
  /\ faults = 0 /\ crashes = 0
-----------------------------------------------------------------------------
Goto(c, step) == pc' = [pc EXCEPT ![c] = step]

(* The process has done what it was started for, and with it go its locals. *)
Exit(c) == /\ Goto(c, "idle")
           /\ ver' = [ver EXCEPT ![c] = NoFile]
           /\ todo' = [todo EXCEPT ![c] = {}]
           /\ out' = [out EXCEPT ![c] = {}]
           /\ UNCHANGED svc

(* The write ended as "how", and v is what the service now holds. *)
Ends(c, how, v) ==
  /\ Exit(c)
  /\ left' = [left EXCEPT ![svc[c]] = how]
  /\ saved' = [saved EXCEPT ![svc[c]] = v]

Fault == faults < MaxFaults /\ faults' = faults + 1

(* Save.  A deploy first loads the previous registration and gives up when *)
(* that is neither there nor missing but rejected.                         *)
BeginSave(c, s, v) ==
  /\ pc[c] = "idle"
  /\ ~Written(s)
  /\ LoadVerdict(s) # "Malformed"
  /\ Goto(c, "save_config")
  /\ svc' = [svc EXCEPT ![c] = s]
  /\ ver' = [ver EXCEPT ![c] = v]
  /\ steady' = [d \in Clients |-> steady[d] \ {s}]
  /\ UNCHANGED <<fileVars, todo, out, faults, crashes, left, saved, unread>>

SaveConfig(c) ==
  /\ pc[c] = "save_config"
  /\ WriteConfig(svc[c], ver[c])
  /\ Goto(c, "save_dir")
  /\ UNCHANGED <<svc, ver, todo, out, faults, crashes, histVars>>

SaveDir(c) ==
  /\ pc[c] = "save_dir"
  /\ MakeSecretsDir(svc[c])
  /\ Goto(c, "save_tmp")
  /\ UNCHANGED <<svc, ver, todo, out, faults, crashes, histVars>>

SaveTemp(c) ==
  /\ pc[c] = "save_tmp"
  /\ Goto(c, "save_rename")
  /\ UNCHANGED <<fileVars, svc, ver, todo, out, faults, crashes, histVars>>

SaveRename(c) ==
  /\ pc[c] = "save_rename"
  /\ WriteSecrets(svc[c], ver[c])
  /\ Ends(c, "settled", ver[c])
  /\ UNCHANGED <<faults, crashes, readHist>>

(* A failed config write changes nothing on disk; from then on a failure   *)
(* is ErrPartialWrite and the deployer turns to DeleteOrphanConfig.        *)
SaveFails(c) ==
  /\ pc[c] \in {"save_config", "save_dir", "save_tmp", "save_rename"}
  /\ Fault
  /\ IF pc[c] = "save_config" THEN Exit(c) ELSE Goto(c, "rollback") /\ UNCHANGED <<svc, ver, todo, out>>
  /\ UNCHANGED <<fileVars, crashes, histVars>>

DeleteOrphanConfig(c) ==
  /\ pc[c] = "rollback"
  /\ RemoveConfig(svc[c])
  /\ Ends(c, "rolled_back", NoFile)
  /\ UNCHANGED <<faults, crashes, readHist>>

(* What made the save fail can make the rollback fail as well. *)
DeleteOrphanConfigFails(c) ==
  /\ pc[c] = "rollback"
  /\ Ends(c, "save_cut", NoFile)
  /\ UNCHANGED <<fileVars, faults, crashes, readHist>>

(* Mutant: the config goes first. *)
DeleteConfigFirst(c) ==
  /\ pc[c] = "del_secrets"
  /\ RemoveConfig(svc[c])
  /\ Goto(c, "del_dir")
  /\ UNCHANGED <<svc, ver, todo, out, faults, crashes, histVars>>

(* Mutant: the directory stays. *)
DeleteDirSkipped(c) ==
  /\ pc[c] = "del_dir"
  /\ DirEmpty(svc[c])
  /\ Goto(c, "del_config")
  /\ UNCHANGED <<fileVars, svc, ver, todo, out, faults, crashes, histVars>>

(* Delete.  An unregister first loads the service and goes on when that    *)
(* succeeds or only the secrets are missing.                               *)
BeginDelete(c, s) ==
  /\ pc[c] = "idle"
  /\ ~Written(s)
  /\ LoadVerdict(s) \in {"ok", "SecretsMissing"}
  /\ Goto(c, "del_secrets")
  /\ svc' = [svc EXCEPT ![c] = s]
  /\ steady' = [d \in Clients |-> steady[d] \ {s}]
  /\ UNCHANGED <<fileVars, ver, todo, out, faults, crashes, left, saved, unread>>

DeleteSecrets(c) ==
  /\ pc[c] = "del_secrets"
  /\ RemoveSecrets(svc[c])
  /\ Goto(c, "del_dir")
  /\ UNCHANGED <<svc, ver, todo, out, faults, crashes, histVars>>

DeleteDir(c) ==
  /\ pc[c] = "del_dir"
  /\ DirEmpty(svc[c])
  /\ RemoveSecretsDir(svc[c])
  /\ Goto(c, "del_config")
  /\ UNCHANGED <<svc, ver, todo, out, faults, crashes, histVars>>

DeleteConfig(c) ==
  /\ pc[c] = "del_config"
  /\ RemoveConfig(svc[c])
  /\ Ends(c, "settled", NoFile)
  /\ UNCHANGED <<faults, crashes, readHist>>

(* Any of the three os.Remove can fail; that of the directory does, with   *)
(* ENOTEMPTY, whenever something is left in it.                            *)
DeleteFails(c) ==
  /\ pc[c] \in DeleteSteps
  /\ Fault
  /\ Ends(c, "delete_cut", NoFile)
  /\ UNCHANGED <<fileVars, crashes, readHist>>

DeleteRefused(c) ==
  /\ pc[c] = "del_dir"
  /\ secDir[svc[c]] /\ ~DirEmpty(svc[c])
  /\ Ends(c, "delete_cut", NoFile)
  /\ UNCHANGED <<fileVars, faults, crashes, readHist>>
-----------------------------------------------------------------------------
(* Load and List *)
Quiet == {s \in Services : left[s] = "settled" /\ ~Written(s)}

BeginLoad(c, s) ==
  /\ pc[c] = "idle"
  /\ Goto(c, "load_config")
  /\ svc' = [svc EXCEPT ![c] = s]
  /\ steady' = [steady EXCEPT ![c] = Quiet \intersect {s}]
  /\ UNCHANGED <<fileVars, ver, todo, out, faults, crashes, left, saved, unread>>

BeginList(c) ==
  /\ pc[c] = "idle"
  /\ Goto(c, "list_names")
  /\ steady' = [steady EXCEPT ![c] = Quiet]
  /\ UNCHANGED <<fileVars, svc, ver, todo, out, faults, crashes, left, saved, unread>>

ListNames(c) ==
  /\ pc[c] = "list_names"
  /\ todo' = [todo EXCEPT ![c] = ListedNames]
  /\ Goto(c, "list_next")
  /\ UNCHANGED <<fileVars, svc, ver, out, faults, crashes, histVars>>

ListNext(c) ==
  /\ pc[c] = "list_next"
  /\ \/ \E s \in todo[c] : /\ svc' = [svc EXCEPT ![c] = s]
                           /\ Goto(c, "list_config")
     \/ todo[c] = {} /\ Goto(c, "returned") /\ UNCHANGED svc
  /\ UNCHANGED <<fileVars, ver, todo, out, faults, crashes, histVars>>

(* Where Load returns to, and what List does about a service Load refuses: *)
(* it goes on to the next.                                                 *)
AfterLoad(c) == IF pc[c] \in LoadSteps THEN "returned" ELSE "list_next"
AfterRefusalStop(c) == "returned"   \* mutant: List gives up at the first service Load refuses
AfterRefusal(c) == AfterLoad(c)

LoadDone(c, next, found) ==
  /\ Goto(c, next)
  /\ ver' = [ver EXCEPT ![c] = NoFile]
  /\ todo' = [todo EXCEPT ![c] = @ \ {svc[c]}]
  /\ out' = [out EXCEPT ![c] = @ \union found]

LoadConfig(c) ==
  /\ pc[c] \in {"load_config", "list_config"}
  /\ IF ConfigVerdict(svc[c]) = "ok"
     THEN /\ ver' = [ver EXCEPT ![c] = config[svc[c]]]
          /\ Goto(c, IF pc[c] = "load_config" THEN "load_stat" ELSE "list_stat")
          /\ UNCHANGED <<todo, out>>
     ELSE LoadDone(c, AfterRefusal(c), {})
  /\ UNCHANGED <<fileVars, svc, faults, crashes, histVars>>

LoadStat(c) ==
  /\ pc[c] \in {"load_stat", "list_stat"}
  /\ IF secDir[svc[c]] /\ secrets[svc[c]] # NoFile
     THEN Goto(c, IF pc[c] = "load_stat" THEN "load_read" ELSE "list_read") /\ UNCHANGED <<ver, todo, out>>
     ELSE LoadDone(c, AfterRefusal(c), {})
  /\ UNCHANGED <<fileVars, svc, faults, crashes, histVars>>

(* The file can be gone again between Stat and ReadFile. *)
LoadRead(c) ==
  /\ pc[c] \in {"load_read", "list_read"}
  /\ IF SecretsVerdict(svc[c]) = "ok"
     THEN LoadDone(c, AfterLoad(c), {<<svc[c], ver[c], secrets[svc[c]]>>})
     ELSE LoadDone(c, AfterRefusal(c), {})
  /\ UNCHANGED <<fileVars, svc, faults, crashes, histVars>>

(* The reader forgets what it relied on and what it has missed. *)
ReadOver(c) == /\ steady' = [steady EXCEPT ![c] = {}]
               /\ unread' = [unread EXCEPT ![c] = {}]

(* A ReadFile, a Stat or the ReadDir fails for a reason of its own (EIO,   *)
(* EMFILE, EACCES).  Load reports it, and so does List of the ReadDir; but *)
(* a Load that fails inside List is skipped like one that is refused, and  *)
(* the List that returns is short of a service without an error.           *)
ReadFails(c) ==
  /\ Fault
  /\ \/ pc[c] \in LoadSteps \union {"list_names"} /\ Exit(c) /\ ReadOver(c)
     \/ /\ pc[c] \in {"list_config", "list_stat", "list_read"}
        /\ LoadDone(c, AfterRefusal(c), {})
        /\ unread' = [unread EXCEPT ![c] = @ \union {svc[c]}]
        /\ UNCHANGED <<svc, steady>>
  /\ UNCHANGED <<fileVars, crashes, left, saved>>

Return(c) ==
  /\ pc[c] = "returned"
  /\ Exit(c)
  /\ ReadOver(c)
  /\ UNCHANGED <<fileVars, faults, crashes, left, saved>>
-----------------------------------------------------------------------------
(* The process dies: kill -9, or ctrl+c during a command that ignores its  *)
(* context until the store is done and is then killed.                     *)
HowCut(c) == CASE pc[c] \in {"save_dir", "save_tmp", "save_rename", "rollback"} -> "save_cut"
               [] pc[c] \in DeleteSteps -> "delete_cut"
               [] OTHER -> left[svc[c]]

Crash(c) ==
  /\ pc[c] # "idle"
  /\ crashes < MaxCrashes
  /\ crashes' = crashes + 1
  /\ IF pc[c] = "save_rename" THEN AbandonTemp(svc[c]) ELSE UNCHANGED fileVars
  /\ Exit(c)
  /\ left' = [left EXCEPT ![svc[c]] = HowCut(c)]
  /\ ReadOver(c)
  /\ UNCHANGED <<faults, saved>>

Step(c) ==
  \/ SaveConfig(c) \/ SaveDir(c) \/ SaveTemp(c) \/ SaveRename(c) \/ SaveFails(c)
  \/ DeleteOrphanConfig(c) \/ DeleteOrphanConfigFails(c)
  \/ DeleteSecrets(c) \/ DeleteDir(c) \/ DeleteConfig(c) \/ DeleteFails(c) \/ DeleteRefused(c)
  \/ ListNames(c) \/ ListNext(c) \/ LoadConfig(c) \/ LoadStat(c) \/ LoadRead(c)
  \/ ReadFails(c) \/ Return(c)

Begin(c) ==
  \/ \E s \in Services, v \in Versions : BeginSave(c, s, v)
  \/ \E s \in Services : BeginDelete(c, s) \/ BeginLoad(c, s)
  \/ BeginList(c)

Next == \E c \in Clients : Begin(c) \/ Step(c) \/ Crash(c)

Spec == Init /\ [][Next]_vars
-----------------------------------------------------------------------------
(* Properties *)

(* No secrets outlive their registration: a secrets file or directory      *)
(* without a config, which neither List nor unregister would ever find,    *)
(* exists only where DeleteOrphanConfig has dropped the config.  This is   *)
(* what the order of Save (config first) and of Delete (config last) is    *)
(* for, across crashes and failures at any file-system call.               *)
NoOrphanSecrets ==
  \A s \in Services :
    (secrets[s] # NoFile \/ secDir[s]) /\ config[s] = NoFile => left[s] = "rolled_back"

(* A write that ended well left exactly what it said: the version saved in *)
(* both files, or nothing at all, not even the directory.  Writers of      *)
(* other services and readers running at the same time do not disturb it.  *)
SettledIsExact ==
  \A s \in Quiet : /\ config[s] = saved[s] /\ secrets[s] = saved[s]
                   /\ secDir[s] <=> saved[s] # NoFile

(* A List or a Load that returns, and that nobody's write of s overlapped, *)
(* returns s as it was last saved if it is registered, and nothing for s   *)
(* if it is not, whatever writes, failures and crashes of other services   *)
(* went on.  The one exception is List's silence: of a registered service  *)
(* of which a read failed it returns nothing, and no error either, but     *)
(* never a wrong or a torn value.                                          *)
ReadersSeeSettled ==
  \A c \in Clients : \A s \in steady[c] :
    pc[c] = "returned" =>
      {e \in out[c] : e[1] = s} =
        IF saved[s] = NoFile \/ s \in unread[c] THEN {} ELSE {<<s, saved[s], saved[s]>>}

(* Taken together: to its readers the store is a safe register per         *)
(* service, by files of which no two are written at once.                  *)
Holds == [s \in Services |-> IF s \in Quiet THEN saved[s] ELSE Broken]

Returned == [c \in Clients |-> IF pc[c] = "returned" THEN out[c] ELSE {}]

Promise == INSTANCE SafeRegister
             WITH Unsettled <- Broken, value <- Holds, relied <- steady, missed <- unread,
                  result <- Returned

ReadsSafely == Promise!Spec

(* A registered service stays loadable through every redeploy of it, a     *)
(* crash of the deploy included: only an unregister, or the rollback of a  *)
(* save that failed, makes it unloadable.                                  *)
LoadableUntilRemoved ==
  [][\A s \in Services : Loadable(s) /\ ~Loadable(s)' =>
       \E c \in Clients : svc[c] = s /\ pc[c] \in {"del_secrets", "rollback"}]_vars

(* What the documentation says and the code does not keep. *)

(* _ai/decisions/secrets-split.md:16 says the deployer deletes the config  *)
(* of a fresh deploy whose Save failed half-way and preserves what a prior *)
(* create left.  It deletes the config of a redeploy too, and the old      *)
(* secrets stay behind with no registration pointing at them.              *)
RollbackKeepsPriorRegistration ==
  [][\A s \in Services : Loadable(s) /\ config'[s] = NoFile =>
       \E c \in Clients : svc[c] = s /\ pc[c] \in DeleteSteps]_vars
=============================================================================
