------------------------------ MODULE EnvCapture ------------------------------
(***************************************************************************)
(* What Capturer.Capture makes of an env script (internal/envcap): bash    *)
(* sources it and prints the exported variables, and decloud keeps those a *)
(* bash without the script does not have and that are not bash's own.      *)
(*                                                                         *)
(* A script is a sequence of statements: <<"set", k, v>>, <<"export", k,   *)
(* v>>, <<"readonly", k>>, <<"set +a">>, <<"set -e">>, <<"fail">> (a       *)
(* command that fails), <<"syntax">> (an error bash finds when it gets     *)
(* there), <<"exit", n>> and <<"print">> (something on stdout).  An        *)
(* environment is a set of pairs <<name, value>>.                          *)
(***************************************************************************)
EXTENDS Naturals, SequencesExt

CONSTANTS Names,      \* what scripts can set
          Own,        \* the names of isBashInternal
          Early,      \* the names that sort before bash's own
          Garbled     \* the name of a record that starts with what the script printed

ASSUME HomeIsOwn == "HOME" \in Own

Statements == ({"set", "export"} \X Names \X Nat) \union ({"readonly"} \X Names) \union ({"exit"} \X Nat)
              \union {<<w>> : w \in {"set +a", "set -e", "fail", "syntax", "print"}}

(* Without a script: HOME, PATH, PWD, SHLVL. *)
Home == <<"HOME", 0>>
Baseline == {Home}

(* The shell captureScript runs the script in. *)
Shell == [vars |-> [k \in Names |-> 0], exported |-> {}, fixed |-> {},
          auto |-> TRUE, strict |-> FALSE, printed |-> FALSE,
          st |-> "sourcing", code |-> 0]

(* A command that fails is passed over, unless the script has said set -e. *)
Stumbles(sh) == IF sh.strict THEN [sh EXCEPT !.st = "gone", !.code = 1] ELSE sh

Assigned(sh, k, v, exports) ==
  IF k \in sh.fixed THEN Stumbles(sh)
  ELSE [sh EXCEPT !.vars[k] = v, !.exported = IF exports THEN @ \union {k} ELSE @]

Runs(sh, c) ==
  IF sh.st # "sourcing" THEN sh
  ELSE CASE c[1] = "set"      -> Assigned(sh, c[2], c[3], sh.auto)
         [] c[1] = "export"   -> Assigned(sh, c[2], c[3], TRUE)
         [] c[1] = "readonly" -> [sh EXCEPT !.fixed = @ \union {c[2]}]
         [] c[1] = "set +a"   -> [sh EXCEPT !.auto = FALSE]
         [] c[1] = "set -e"   -> [sh EXCEPT !.strict = TRUE]
         [] c[1] = "fail"     -> Stumbles(sh)
         [] c[1] = "syntax"   -> [Stumbles(sh) EXCEPT !.st = IF sh.strict THEN "gone" ELSE "sourced"]
         [] c[1] = "exit"     -> [sh EXCEPT !.st = "gone", !.code = c[2]]
         [] c[1] = "print"    -> [sh EXCEPT !.printed = TRUE]

(* bash reads the script from its top. *)
Sourced(script) ==
  LET after[n \in 0..Len(script)] == IF n = 0 THEN Shell ELSE Runs(after[n - 1], script[n])
  IN  after[Len(script)]

(* source of a file bash cannot open is one more command that fails. *)
NotSourced == Stumbles(Shell)

Exported(sh) == {<<k, sh.vars[k]>> : k \in sh.exported}

(* What comes back on stdout: the records in the order of their names, the *)
(* first behind what the script has printed itself; nothing from a script  *)
(* that exits.                                                             *)
Records(sh) ==
  LET env == (Baseline \ {b \in Baseline : b[1] \in sh.exported}) \union Exported(sh)
      first == CHOOSE b \in env : b[1] \in Early \/ \A c \in env : c[1] \notin Early
  IN  IF sh.st = "gone" THEN {}
      ELSE IF sh.printed THEN (env \ {first}) \union {<<Garbled, first[2]>>}
      ELSE env

(* Mutant: bash's own names are not left out. *)
DiffAll(baseline, full) == full \ baseline

DiffEnv(baseline, full) == {b \in full : b[1] \notin Own /\ b \notin baseline}
=============================================================================
