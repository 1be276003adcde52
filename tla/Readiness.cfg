\* Waits of 0 (the default of 60 s), 0.5, 1, 1.5 and 3.5 seconds; ctrl+c at every moment.
SPECIFICATION Spec
CONSTANTS
  Requests <- MCRequests
  Intervals <- MCIntervals
  MaxCall = 3
\* Wait returns and the model stops there; WaitEnds checks that nothing else stops it.
CHECK_DEADLOCK FALSE
INVARIANTS
  TypeOK
  WaitBounded
  CtrlCEndsWait
  SignalIsInterrupt
  InterruptHasCause
PROPERTY WaitEnds
