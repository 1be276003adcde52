------------------------------ MODULE Readiness ------------------------------
(***************************************************************************)
(* httpProbe.Wait (internal/deploy/readiness.go) and what Deploy makes of  *)
(* its answer.  Time counts half seconds, so that a requested wait can lie *)
(* between two whole seconds.  A call takes any time up to its limit, and  *)
(* ctrl+c can cut it short at any moment.                                   *)
(***************************************************************************)
EXTENDS Integers

CONSTANTS Requests,   \* values of --readiness-timeout, in half seconds
          Intervals,  \* values of interval_secs, in seconds
          MaxCall     \* the longest a docker inspect takes; the code sets no limit

ASSUME ReadinessInputs == Requests \subseteq Int /\ Intervals \subseteq Int /\ MaxCall \in Nat

VARIABLES pc,          \* where Wait is
          requested, intervalSecs,
          now,
          lastErr,     \* Wait's local of that name
          verdict,     \* what Deploy makes of Wait's result
          cancelled,
          signalAt     \* history: when the signal came

vars == <<pc, requested, intervalSecs, now, lastErr, verdict, cancelled, signalAt>>
inputs == <<requested, intervalSecs>>

Second == 2
ProbeLimit == 2 * Second

(* Deploy hands the timeout over in whole seconds; none means 60.          *)
Timeout == LET whole == requested \div Second
           IN  IF whole <= 0 THEN 60 * Second ELSE whole * Second

IntervalRaw == intervalSecs * Second   \* mutant: no default
Interval == IF intervalSecs <= 0 THEN Second ELSE intervalSecs * Second

Deadline == Timeout      \* the clock starts at 0

CallErrors == {"not_found", "no_bridge_ip", "exec_failed"}
ProbeErrors == {"refused", "bad_status"}

TypeOK ==
  /\ pc \in {"container_ip", "probe", "check", "sleep", "returned"}
  /\ requested \in Requests /\ intervalSecs \in Intervals
  /\ now \in Nat
  /\ lastErr \in CallErrors \union ProbeErrors \union {"nil", "client_timeout", "ctx_done"}
  /\ verdict \in {"pending", "ready", "ErrReadiness", "ErrInterrupted"}
  /\ cancelled \in BOOLEAN
  /\ signalAt \in Nat

Init ==
  /\ pc = "container_ip"
  /\ requested \in Requests /\ intervalSecs \in Intervals
  /\ now = 0 /\ lastErr = "nil" /\ verdict = "pending"
  /\ cancelled = FALSE /\ signalAt = 0
-----------------------------------------------------------------------------
Completes(d) == ~cancelled /\ now' = now + d /\ UNCHANGED <<cancelled, signalAt>>
CutShort(d)  == ~cancelled /\ now' = now + d /\ cancelled' = TRUE /\ signalAt' = now + d
NotStarted   == cancelled /\ UNCHANGED <<now, cancelled, signalAt>>

(* isCancellation, and the wrapping that follows it. *)
IsCancellationOfTimeouts(err) == err = "client_timeout"   \* mutant: only the deadline counts
IsCancellationOfChildren(err) == err \in {"client_timeout", "ctx_done", "exec_failed"}   \* mutant
IsCancellation(err) == err \in {"client_timeout", "ctx_done"}

(* Mutant: the error is passed on as it is. *)
FailUnwrapped(err) == pc' = "returned" /\ verdict' = err

Fail(err) ==
  /\ pc' = "returned"
  /\ verdict' = IF IsCancellation(err) THEN "ErrInterrupted" ELSE "ErrReadiness"

(* docker inspect; a child the signal kills reports an exit status.        *)
ContainerIP ==
  /\ pc = "container_ip"
  /\ \/ \E d \in 0..MaxCall : Completes(d)
        /\ \/ pc' = "probe" /\ UNCHANGED lastErr
           \/ pc' = "check" /\ lastErr' \in CallErrors
     \/ \E d \in 0..MaxCall : CutShort(d) /\ lastErr' = "exec_failed" /\ pc' = "check"
     \/ NotStarted /\ lastErr' = "ctx_done" /\ pc' = "check"
  /\ UNCHANGED <<inputs, verdict>>

(* One GET under a limit of its own. *)
ProbeOnce ==
  /\ pc = "probe"
  /\ \/ \E d \in 0..(ProbeLimit - 1) : Completes(d)
        /\ \/ pc' = "returned" /\ verdict' = "ready" /\ UNCHANGED lastErr
           \/ pc' = "check" /\ lastErr' \in ProbeErrors /\ UNCHANGED verdict
     \/ Completes(ProbeLimit) /\ lastErr' = "client_timeout" /\ pc' = "check" /\ UNCHANGED verdict
     \/ /\ NotStarted \/ \E d \in 0..(ProbeLimit - 1) : CutShort(d)
        /\ lastErr' = "ctx_done" /\ pc' = "check" /\ UNCHANGED verdict
  /\ UNCHANGED inputs

GiveUpOnBadStatus == now > Deadline /\ lastErr # "client_timeout"  \* mutant: hangs are retried for ever
GiveUp == now > Deadline

Check ==
  /\ pc = "check"
  /\ IF GiveUp THEN Fail(lastErr) ELSE pc' = "sleep" /\ UNCHANGED verdict
  /\ UNCHANGED <<inputs, now, lastErr, cancelled, signalAt>>

(* Mutant: time.Sleep in place of the select. *)
SleepDeaf ==
  /\ pc = "sleep"
  /\ now' = now + Interval
  /\ \/ UNCHANGED <<cancelled, signalAt>>
     \/ \E d \in 0..Interval : ~cancelled /\ cancelled' = TRUE /\ signalAt' = now + d
  /\ pc' = "container_ip"
  /\ UNCHANGED <<inputs, lastErr, verdict>>

(* select: the context or the timer; when both are ready, either.          *)
Sleep ==
  /\ pc = "sleep"
  /\ \/ Completes(Interval) /\ pc' = "container_ip" /\ UNCHANGED verdict
     \/ CutShort(Interval) /\ pc' = "container_ip" /\ UNCHANGED verdict
     \/ (NotStarted \/ \E d \in 0..Interval : CutShort(d)) /\ Fail("ctx_done")
  /\ UNCHANGED <<inputs, lastErr>>

(* The signal comes between two calls. *)
CtrlC ==
  /\ pc # "returned"
  /\ CutShort(0)
  /\ UNCHANGED <<pc, inputs, lastErr, verdict>>

Step == ContainerIP \/ ProbeOnce \/ Check \/ Sleep

Next == Step \/ CtrlC

(* Every call returns and the loop goes on; nobody has to press ctrl+c.    *)
Spec == Init /\ [][Next]_vars /\ WF_vars(Step)
-----------------------------------------------------------------------------
(* Properties *)

(* The wait overruns what was asked for by at most one more round of the   *)
(* loop: an interval, a docker inspect and a probe.  A request of less     *)
(* than a second is cut to 0 and stands for 60 s, longer than the "total   *)
(* wait" that _docs/usage.md:68 promises.                                  *)
WaitBounded ==
  now <= (IF requested < Second THEN 60 * Second ELSE requested) + Interval + MaxCall + ProbeLimit

(* After ctrl+c no more time passes in the wait: every call it is in, or   *)
(* would start, ends at once.                                              *)
CtrlCEndsWait == cancelled => now = signalAt

(* A ctrl+c within the timeout is never taken for a failed probe, whatever *)
(* the last probe said and whichever call it hit.                          *)
SignalIsInterrupt == cancelled /\ verdict = "ErrReadiness" => signalAt > Deadline

(* The wait ends, one way or the other. *)
WaitEnds == <>(pc = "returned")

(* Exit 130 without a ctrl+c has one cause: the last probe, the one past    *)
(* the deadline, was accepted and not answered within its own 2 s, whose   *)
(* error is taken for a cancellation too.  So an application that hangs in *)
(* its health check looks cancelled, and one that refuses, answers badly   *)
(* or has lost its container never does.                                   *)
InterruptHasCause ==
  verdict = "ErrInterrupted" => cancelled \/ (lastErr = "client_timeout" /\ now > Deadline)
=============================================================================
