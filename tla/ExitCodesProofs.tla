--------------------------- MODULE ExitCodesProofs ---------------------------
(***************************************************************************)
(* What ExitCodeFor answers: what a code says of the error, and the lemmas *)
(* that the proofs about the commands cite.                                *)
(***************************************************************************)
EXTENDS ExitCodes, TLAPS

LEMMA CasesShape ==
  /\ DOMAIN Cases = 1..10
  /\ \A i \in 1..10 : Cases[i][2] \in {ExitInterrupted, ExitUsageError, ExitConfigError, ExitEnvCaptureFail,
                                       ExitBuildFail, ExitRunFail, ExitReadinessFail, ExitCaddyReloadFail}
BY DEF Cases

(* A set of case numbers has a least one. *)
LEMMA LeastCase ==
  ASSUME NEW hit \in SUBSET (1..10), hit # {}
  PROVE  \E i \in hit : \A j \in hit : i <= j
<1> DEFINE P(n) == (\E i \in hit : i <= n) => \E i \in hit : \A j \in hit : i <= j
<1>1. P(0)
  OBVIOUS
<1>2. ASSUME NEW n \in 0..9, P(n) PROVE P(n + 1)
  <2>1. CASE \E i \in hit : i <= n
    BY <1>2, <2>1
  <2>2. CASE ~\E i \in hit : i <= n
    <3> SUFFICES ASSUME NEW k \in hit, k <= n + 1
                 PROVE  \A j \in hit : k <= j
      OBVIOUS
    <3>1. \A j \in hit : j \in 1..10 /\ j > n
      BY <2>2
    <3> QED
      BY <3>1
  <2> QED
    BY <2>1, <2>2
<1>3. P(10) => \E i \in hit : \A j \in hit : i <= j
  <2>1. PICK i \in hit : i \in 1..10
    OBVIOUS
  <2>2. i <= 10
    BY <2>1
  <2> QED
    BY <2>1, <2>2
<1>4. \A n \in 0..9 : P(n) => P(n + 1)
  BY <1>2
<1> HIDE DEF P
<1>5. P(5)
  <2>1. P(1)
    BY <1>1, <1>4
  <2>2. P(2)
    BY <2>1, <1>4
  <2>3. P(3)
    BY <2>2, <1>4
  <2>4. P(4)
    BY <2>3, <1>4
  <2> QED
    BY <2>4, <1>4
<1>6. P(10)
  <2>1. P(6)
    BY <1>5, <1>4
  <2>2. P(7)
    BY <2>1, <1>4
  <2>3. P(8)
    BY <2>2, <1>4
  <2>4. P(9)
    BY <2>3, <1>4
  <2> QED
    BY <2>4, <1>4
<1> QED
  BY <1>3, <1>6

(* The nil error is the only one that exits with 0. *)
LEMMA OnlyNilIsZero ==
  ASSUME NEW err, err # NoError
  PROVE  /\ ExitCodeFor(err) # ExitOK
         /\ ExitCodeFor(err) \notin {Killed, Pending}
<1> DEFINE hit == {i \in DOMAIN Cases : Cases[i][1] \intersect err # {}}
<1>1. CASE hit = {}
  BY <1>1 DEF ExitCodeFor, FirstOf, ExitOK, ExitInternal, Killed, Pending
<1>2. CASE hit # {}
  <2>1. hit \in SUBSET (1..10)
    BY CasesShape
  <2>2. \E i \in hit : \A j \in hit : i <= j
    BY <1>2, <2>1, LeastCase
  <2>3. (CHOOSE i \in hit : \A j \in hit : i <= j) \in 1..10
    BY <2>1, <2>2
  <2>4. ExitCodeFor(err) = Cases[CHOOSE i \in hit : \A j \in hit : i <= j][2]
    BY <1>2 DEF ExitCodeFor, FirstOf
  <2> HIDE DEF hit
  <2>5. ExitCodeFor(err) \in {ExitInterrupted, ExitUsageError, ExitConfigError, ExitEnvCaptureFail,
                              ExitBuildFail, ExitRunFail, ExitReadinessFail, ExitCaddyReloadFail}
    BY <2>3, <2>4, CasesShape
  <2> QED
    BY <2>5
       DEF ExitOK, ExitInterrupted, ExitUsageError, ExitConfigError, ExitEnvCaptureFail,
           ExitBuildFail, ExitRunFail, ExitReadinessFail, ExitCaddyReloadFail, Killed, Pending
<1> QED
  BY <1>1, <1>2

(* An error that only case k knows gets the code of case k. *)
LEMMA CodeOfCase ==
  ASSUME NEW err, err # NoError, NEW k \in 1..10,
         \A i \in 1..10 : Cases[i][1] \intersect err # {} <=> i = k
  PROVE  ExitCodeFor(err) = Cases[k][2]
<1> DEFINE hit == {i \in DOMAIN Cases : Cases[i][1] \intersect err # {}}
<1>1. hit = {k}
  BY CasesShape
<1>2. (CHOOSE i \in hit : \A j \in hit : i <= j) = k
  BY <1>1
<1> QED
  BY <1>1, <1>2 DEF ExitCodeFor, FirstOf

(* Of several cases that know an error the first one decides. *)
LEMMA FirstCase ==
  ASSUME NEW err, err # NoError, NEW k \in 1..10, Cases[k][1] \intersect err # {},
         \A i \in 1..10 : i < k => Cases[i][1] \intersect err = {}
  PROVE  ExitCodeFor(err) = Cases[k][2]
<1> DEFINE hit == {i \in DOMAIN Cases : Cases[i][1] \intersect err # {}}
<1>1. k \in hit /\ \A j \in hit : k <= j
  BY CasesShape
<1>2. \A i \in hit : (\A j \in hit : i <= j) => i = k
  BY <1>1, CasesShape
<1>3. (CHOOSE i \in hit : \A j \in hit : i <= j) = k
  BY <1>1, <1>2
<1> QED
  BY <1>1, <1>3 DEF ExitCodeFor, FirstOf

(* What an exit code tells of the error, however it was wrapped: 0 is      *)
(* success alone, 130 an interrupt and nothing else, even when the step    *)
(* it interrupted has wrapped its own sentinel around it, and 70 an error  *)
(* that no case knows.                                                     *)
THEOREM CodesTellErrors ==
  ASSUME NEW err
  PROVE  /\ ExitCodeFor(err) = ExitOK <=> err = NoError
         /\ ExitCodeFor(err) = ExitInterrupted <=> "Interrupted" \in err
         /\ ExitCodeFor(err) = ExitInternal <=>
              err # NoError /\ \A i \in 1..10 : Cases[i][1] \intersect err = {}
<1> DEFINE hit == {i \in 1..10 : Cases[i][1] \intersect err # {}}
<1>1. CASE err = NoError
  <2>1. "Interrupted" \notin err
    BY <1>1 DEF NoError
  <2> QED
    BY <1>1, <2>1 DEF ExitCodeFor, ExitOK, ExitInterrupted, ExitInternal
<1>2. CASE err # NoError /\ hit = {}
  <2>1. ExitCodeFor(err) = ExitInternal
    BY <1>2, CasesShape DEF ExitCodeFor, FirstOf
  <2>2. Cases[1][1] \intersect err = {}
    BY <1>2
  <2>3. "Interrupted" \notin err
    BY <2>2 DEF Cases
  <2> QED
    BY <1>2, <2>1, <2>3 DEF ExitOK, ExitInterrupted, ExitInternal
<1>3. CASE err # NoError /\ hit # {}
  <2>1. PICK k \in hit : \A j \in hit : k <= j
    BY <1>3, LeastCase
  <2>2. \A i \in 1..10 : i < k => Cases[i][1] \intersect err = {}
    BY <2>1
  <2>3. ExitCodeFor(err) = Cases[k][2]
    BY <1>3, <2>1, <2>2, FirstCase
  <2>4. Cases[k][2] = ExitInterrupted <=> k = 1
    BY <2>1 DEF Cases, ExitInterrupted, ExitUsageError, ExitConfigError, ExitEnvCaptureFail, ExitBuildFail,
                ExitRunFail, ExitReadinessFail, ExitCaddyReloadFail
  <2>5. Cases[k][2] \notin {ExitOK, ExitInternal}
    BY <2>1, CasesShape DEF ExitInterrupted, ExitUsageError, ExitConfigError, ExitEnvCaptureFail, ExitBuildFail,
                ExitRunFail, ExitReadinessFail, ExitCaddyReloadFail, ExitOK, ExitInternal
  <2>6. k = 1 <=> "Interrupted" \in err
    <3>1. 1 \in hit <=> "Interrupted" \in err
      BY DEF Cases
    <3>2. 1 \in hit <=> k = 1
      BY <2>1
    <3> QED
      BY <3>1, <3>2
  <2> QED
    BY <1>3, <2>3, <2>4, <2>5, <2>6
<1> QED
  BY <1>1, <1>2, <1>3

(* The codes of the errors that publishing and caddy up and down end in. *)
LEMMA IngressCodes ==
  /\ ExitCodeFor(NoError) = ExitOK
  /\ ExitCodeFor(Plain) = ExitInternal
  /\ ExitCodeFor({"CaddyReload"}) = ExitCaddyReloadFail
  /\ ExitCodeFor({"CaddyUp"}) = ExitRunFail
  /\ ExitCodeFor({"CaddyDown"}) = ExitRunFail
<1>1. ExitCodeFor(NoError) = ExitOK
  BY DEF ExitCodeFor
<1>2. ExitCodeFor(Plain) = ExitInternal
  BY DEF ExitCodeFor, FirstOf, Plain, NoError
<1>3. ExitCodeFor({"CaddyReload"}) = ExitCaddyReloadFail
  <2>1. \A i \in 1..10 : Cases[i][1] \intersect {"CaddyReload"} # {} <=> i = 8
    BY DEF Cases, ConfigErrors
  <2>2. ExitCodeFor({"CaddyReload"}) = Cases[8][2]
    BY <2>1, CodeOfCase DEF NoError
  <2> QED
    BY <2>2 DEF Cases
<1>4. ExitCodeFor({"CaddyUp"}) = ExitRunFail
  <2>1. \A i \in 1..10 : Cases[i][1] \intersect {"CaddyUp"} # {} <=> i = 9
    BY DEF Cases, ConfigErrors
  <2>2. ExitCodeFor({"CaddyUp"}) = Cases[9][2]
    BY <2>1, CodeOfCase DEF NoError
  <2> QED
    BY <2>2 DEF Cases
<1>5. ExitCodeFor({"CaddyDown"}) = ExitRunFail
  <2>1. \A i \in 1..10 : Cases[i][1] \intersect {"CaddyDown"} # {} <=> i = 9
    BY DEF Cases, ConfigErrors
  <2>2. ExitCodeFor({"CaddyDown"}) = Cases[9][2]
    BY <2>1, CodeOfCase DEF NoError
  <2> QED
    BY <2>2 DEF Cases
<1> QED
  BY <1>1, <1>2, <1>3, <1>4, <1>5
=============================================================================
