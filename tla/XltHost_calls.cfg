SPECIFICATION Spec
CONSTANTS
  t1 = t1
  t2 = t2
  t3 = t3
  Timers = {t1, t2, t3}
  NoTimer = NoTimer
  MaxConns = 2
  MaxData = 2
  MaxBytes = 4
  MaxDepth = 2
SYMMETRY TimerSymmetry
INVARIANTS NothingCarriedOver NothingStalls OnePacer
CHECK_DEADLOCK FALSE
