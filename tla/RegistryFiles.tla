---------------------------- MODULE RegistryFiles ----------------------------
(***************************************************************************)
(* The files a registration is made of, and the file-system steps that    *)
(* fsStore (internal/registry/store.go) takes on them.                      *)
(*                                                                         *)
(* A service has a config file, a secrets directory and, inside it, a      *)
(* secrets file.  What a file says is abstracted to its version: the       *)
(* deploy whose data it holds.  Everything Load rejects with an error      *)
(* other than ErrNotFound and ErrSecretsMissing (a syntax error, an        *)
(* unknown field, a schema mismatch, a bad mount or strategy, a wrong      *)
(* permission mode) is the single content Broken.                          *)
(***************************************************************************)
EXTENDS Deployments

CONSTANTS NoFile,     \* the file does not exist
          Broken      \* the file exists and Load rejects it

ASSUME FileMarks == NoFile \notin Versions /\ Broken \notin Versions /\ NoFile # Broken

VARIABLES config,     \* config[s]: services/<s>.toml
          secrets,    \* secrets[s]: secrets/<s>/env.toml
          secDir,     \* secDir[s]: the directory secrets/<s> exists
          litter      \* litter[s]: an abandoned .tmp-* file lies in secrets/<s>

fileVars == <<config, secrets, secDir, litter>>

FilesTypeOK ==
  /\ config  \in [Services -> Versions \union {NoFile, Broken}]
  /\ secrets \in [Services -> Versions \union {NoFile, Broken}]
  /\ secDir  \in [Services -> BOOLEAN]
  /\ litter  \in [Services -> BOOLEAN]
-----------------------------------------------------------------------------
(* What Load makes of the two files. *)

ConfigVerdict(s) ==
  CASE config[s] = NoFile -> "NotFound"
    [] config[s] = Broken -> "Malformed"
    [] OTHER              -> "ok"

(* Mutant: what the secrets file says is not checked. *)
SecretsUnchecked(s) == IF ~secDir[s] \/ secrets[s] = NoFile THEN "SecretsMissing" ELSE "ok"

SecretsVerdict(s) ==
  CASE ~secDir[s] \/ secrets[s] = NoFile -> "SecretsMissing"
    [] secDir[s] /\ secrets[s] = Broken  -> "Malformed"
    [] OTHER                             -> "ok"

LoadVerdict(s) == IF ConfigVerdict(s) # "ok" THEN ConfigVerdict(s) ELSE SecretsVerdict(s)

Loadable(s) == LoadVerdict(s) = "ok"

(* ListNames: the names whose config file is there, readable or not. *)
ListedNames == {s \in Services : config[s] # NoFile}
-----------------------------------------------------------------------------
(* One file-system call each.  writeAtomic fills a temporary file and      *)
(* renames it over the old one, so a reader finds the old or the new       *)
(* content; the temporary of a config file is no *.toml and ListNames      *)
(* passes over it, the one of a secrets file keeps its directory from      *)
(* being removed.                                                          *)

(* Mutant: the file is truncated and written in place. *)
WriteConfigInPlace(s, v) == /\ config' = [config EXCEPT ![s] = IF @ = NoFile THEN v ELSE Broken]
                            /\ UNCHANGED <<secrets, secDir, litter>>

WriteConfig(s, v) == /\ config' = [config EXCEPT ![s] = v]
                     /\ UNCHANGED <<secrets, secDir, litter>>

MakeSecretsDir(s) == /\ secDir' = [secDir EXCEPT ![s] = TRUE]
                     /\ UNCHANGED <<config, secrets, litter>>

WriteSecrets(s, v) == /\ secrets' = [secrets EXCEPT ![s] = v]
                      /\ UNCHANGED <<config, secDir, litter>>

RemoveSecrets(s) == /\ secrets' = [secrets EXCEPT ![s] = NoFile]
                    /\ UNCHANGED <<config, secDir, litter>>

RemoveSecretsDir(s) == /\ secDir' = [secDir EXCEPT ![s] = FALSE]
                       /\ UNCHANGED <<config, secrets, litter>>

RemoveConfig(s) == /\ config' = [config EXCEPT ![s] = NoFile]
                   /\ UNCHANGED <<secrets, secDir, litter>>

(* A process that dies between CreateTemp and Rename leaves its file. *)
AbandonTemp(s) == /\ litter' = [litter EXCEPT ![s] = TRUE]
                  /\ UNCHANGED <<config, secrets, secDir>>

(* os.Remove of the directory is not recursive. *)
DirEmpty(s) == secrets[s] = NoFile /\ ~litter[s]
=============================================================================
