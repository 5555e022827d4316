\* The bounds on the time and on what is forgiven stop the instance.
CHECK_DEADLOCK FALSE
CONSTANTS
  c1 = c1
  c2 = c2
  Callers = {c1, c2}
  Keys = {k1}
  Offset <- SkewedClocks
  Capacity = 2
  Unit = 2
  Gain = 3
  Second = 1
  Faults = {"reply_lost", "evicted"}
  MaxClock = 5
  MaxForgiven = 1
SPECIFICATION Spec
INVARIANTS TypeOK BudgetIsKept BurstIsGranted
PROPERTIES PromptCallsForgiveNothing
