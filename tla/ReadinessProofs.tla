---------------------------- MODULE ReadinessProofs ----------------------------
(***************************************************************************)
(* Proofs about Readiness, for any requested waits, intervals and bound on *)
(* docker inspect: how long the wait lasts and what its result can mean.   *)
(***************************************************************************)
EXTENDS Readiness, TLAPS

Round == MaxCall + ProbeLimit

(* How late it can be at each point of the loop. *)
Clock ==
  /\ pc = "sleep" => now <= Deadline
  /\ pc = "container_ip" => now <= Deadline + Interval
  /\ pc = "probe" => now <= Deadline + Interval + MaxCall
  /\ now <= Deadline + Interval + Round

(* A verdict is given at the end, and a bad one late or cancelled; what    *)
(* the context reports, it has been told.                                  *)
Verdicts ==
  /\ verdict = "pending" <=> pc # "returned"
  /\ verdict = "ErrReadiness" => now > Deadline
  /\ lastErr = "ctx_done" => cancelled

IInv == TypeOK /\ Clock /\ Verdicts /\ CtrlCEndsWait /\ InterruptHasCause
-----------------------------------------------------------------------------
(* The wait handed over is a positive number of seconds, at most the one   *)
(* asked for if that is a second or more.                                  *)
LEMMA Waits ==
  ASSUME requested \in Int, intervalSecs \in Int
  PROVE  /\ Interval \in Nat /\ Interval > 0
         /\ Deadline \in Nat /\ Deadline > 0
         /\ Deadline <= IF requested < Second THEN 60 * Second ELSE requested
BY DEF Interval, Deadline, Timeout, Second

LEMMA Inputs == TypeOK => requested \in Int /\ intervalSecs \in Int /\ MaxCall \in Nat /\ now \in Nat
BY ReadinessInputs DEF ReadinessInputs, TypeOK

LEMMA InputsFrame == UNCHANGED inputs => Interval' = Interval /\ Deadline' = Deadline
BY DEF inputs, Interval, Deadline, Timeout

LEMMA InvInit == Init => IInv
<1> SUFFICES ASSUME Init PROVE IInv
  OBVIOUS
<1>1. TypeOK
  BY DEF Init, TypeOK
<1>2. Clock
  BY <1>1, Inputs, Waits DEF Init, Clock, Round, ProbeLimit, Second
<1>3. Verdicts /\ CtrlCEndsWait /\ InterruptHasCause
  BY DEF Init, Verdicts, CtrlCEndsWait, InterruptHasCause
<1> QED
  BY <1>1, <1>2, <1>3 DEF IInv

(* Every step of the loop, and the signal, keeps the invariant. *)
LEMMA InvNext == IInv /\ [Next]_vars => IInv'
<1> SUFFICES ASSUME IInv, [Next]_vars PROVE IInv'
  OBVIOUS
<1>1. /\ Interval \in Nat /\ Deadline \in Nat
      /\ requested \in Int /\ intervalSecs \in Int /\ MaxCall \in Nat /\ now \in Nat
  BY Inputs, Waits DEF IInv
<1> USE <1>1 DEF IInv, TypeOK, Verdicts, CtrlCEndsWait, InterruptHasCause,
                 Round, ProbeLimit, Second, CallErrors, ProbeErrors,
                 Completes, CutShort, NotStarted, Fail, IsCancellation
<1>2. CASE ContainerIP
  <2>1. Interval' = Interval /\ Deadline' = Deadline /\ now' \in Nat
    BY <1>2, InputsFrame DEF ContainerIP
  <2>2. Clock'
    BY <1>2, <2>1 DEF ContainerIP, Clock
  <2>3. TypeOK'
    BY <1>2, <2>1 DEF ContainerIP, inputs
  <2> QED
    BY <1>2, <2>1, <2>2, <2>3 DEF ContainerIP
<1>3. CASE ProbeOnce
  <2>1. Interval' = Interval /\ Deadline' = Deadline /\ now' \in Nat
    BY <1>3, InputsFrame DEF ProbeOnce
  <2>2. Clock'
    BY <1>3, <2>1 DEF ProbeOnce, Clock
  <2>3. TypeOK'
    BY <1>3, <2>1 DEF ProbeOnce, inputs
  <2> QED
    BY <1>3, <2>1, <2>2, <2>3 DEF ProbeOnce
<1>4. CASE Check
  <2>1. Interval' = Interval /\ Deadline' = Deadline /\ now' = now
    BY <1>4, InputsFrame DEF Check
  <2>2. Clock'
    BY <1>4, <2>1 DEF Check, Clock, GiveUp
  <2>3. TypeOK'
    BY <1>4, <2>1 DEF Check, inputs
  <2> QED
    BY <1>4, <2>1, <2>2, <2>3 DEF Check, GiveUp
<1>5. CASE Sleep
  <2>1. Interval' = Interval /\ Deadline' = Deadline /\ now' \in Nat
    BY <1>5, InputsFrame DEF Sleep
  <2>2. Clock'
    BY <1>5, <2>1 DEF Sleep, Clock
  <2>3. TypeOK'
    BY <1>5, <2>1 DEF Sleep, inputs
  <2> QED
    BY <1>5, <2>1, <2>2, <2>3 DEF Sleep
<1>6. CASE CtrlC
  <2>1. Interval' = Interval /\ Deadline' = Deadline /\ now' = now
    BY <1>6, InputsFrame DEF CtrlC
  <2>2. Clock'
    BY <1>6, <2>1 DEF CtrlC, Clock
  <2> QED
    BY <1>6, <2>1, <2>2 DEF CtrlC, inputs
<1>7. CASE UNCHANGED vars
  <2>1. Interval' = Interval /\ Deadline' = Deadline
    BY <1>7, InputsFrame DEF vars, inputs
  <2> QED
    BY <1>7, <2>1 DEF vars, Clock
<1> QED
  BY <1>2, <1>3, <1>4, <1>5, <1>6, <1>7 DEF Next, Step

LEMMA Invariance == Spec => []IInv
<1> QED
  BY InvInit, InvNext, PTL DEF Spec
-----------------------------------------------------------------------------
(* Every variable keeps its type, whatever the calls and the signal do. *)
THEOREM TypeCorrect == Spec => []TypeOK
<1>1. IInv => TypeOK
  BY DEF IInv
<1> QED
  BY <1>1, Invariance, PTL

(* The wait overruns the time asked for by one round at most, and a        *)
(* request below a second the default of 60 s.                             *)
THEOREM Bounded == Spec => []WaitBounded
<1>1. IInv => WaitBounded
  BY Inputs, Waits DEF IInv, Clock, WaitBounded, Round, ProbeLimit, Second
<1> QED
  BY <1>1, Invariance, PTL

(* After ctrl+c no more time passes. *)
THEOREM SignalEndsWait == Spec => []CtrlCEndsWait
<1>1. IInv => CtrlCEndsWait
  BY DEF IInv
<1> QED
  BY <1>1, Invariance, PTL

(* A ctrl+c within the timeout is never reported as a failed probe. *)
THEOREM SignalReported == Spec => []SignalIsInterrupt
<1>1. IInv => SignalIsInterrupt
  BY DEF IInv, Verdicts, CtrlCEndsWait, SignalIsInterrupt
<1> QED
  BY <1>1, Invariance, PTL

(* Exit 130 comes from a signal or from a probe that hung past the deadline. *)
THEOREM InterruptsExplained == Spec => []InterruptHasCause
<1>1. IInv => InterruptHasCause
  BY DEF IInv
<1> QED
  BY <1>1, Invariance, PTL
=============================================================================
