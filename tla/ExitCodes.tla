------------------------------ MODULE ExitCodes ------------------------------
(***************************************************************************)
(* The exit codes of every command (internal/cli/exit_codes.go).  An error *)
(* is the set of sentinels its chain wraps, which is what errors.Is sees;  *)
(* the nil error is NoError, and one that wraps no sentinel is Plain.      *)
(***************************************************************************)
EXTENDS Naturals, Sequences

ExitOK == 0
ExitUsageError == 2
ExitConfigError == 10
ExitEnvCaptureFail == 20
ExitBuildFail == 30
ExitRunFail == 40
ExitReadinessFail == 50
ExitCaddyReloadFail == 60
ExitInternal == 70
ExitInterrupted == 130
Killed == 137             \* what a shell reports of kill -9
Pending == 255            \* the command has not ended

NoError == {"nil"}
Plain == {}

ConfigErrors == {"InvalidMount", "InvalidStrategy", "SchemaMismatch", "UnknownField",
                 "PermissionMode", "SecretsMissing", "NotFound",
                 "EnvScriptMissing", "EnvScriptUnreadable"}

(* The cases of the switch, in its order. *)
Cases == << <<{"Interrupted"}, ExitInterrupted>>,
            <<{"Usage"},       ExitUsageError>>,
            <<ConfigErrors,    ExitConfigError>>,
            <<{"EnvCapture"},  ExitEnvCaptureFail>>,
            <<{"Build"},       ExitBuildFail>>,
            <<{"Run"},         ExitRunFail>>,
            <<{"Readiness"},   ExitReadinessFail>>,
            <<{"CaddyReload"}, ExitCaddyReloadFail>>,
            <<{"CaddyUp", "CaddyDown"}, ExitRunFail>>,
            <<{"Cobra"},       ExitUsageError>> >>

FirstOf(cases, err) ==
  LET hit == {i \in DOMAIN cases : cases[i][1] \intersect err # {}}
  IN  IF hit = {} THEN ExitInternal
      ELSE cases[CHOOSE i \in hit : \A j \in hit : i <= j][2]

(* Mutant: the step that failed is looked at before what it wraps. *)
StepFirst(err) ==
  IF err = NoError THEN ExitOK
  ELSE FirstOf(SubSeq(Cases, 4, 8) \o SubSeq(Cases, 1, 3), err)

ExitCodeFor(err) == IF err = NoError THEN ExitOK ELSE FirstOf(Cases, err)
=============================================================================
