SPECIFICATION FairSpec
CONSTANTS
  NUMBER_TIMERS = 4
  TIME_WRAP = 5
  CC_PER_INSTR = 2
  WordSize = 8
  Delay = {1, 4, 6}
  Callback = {"device"}
  Counter = {0}
  Divisor = {1, 2, 5}
CHECK_DEADLOCK FALSE
INVARIANTS
  WrapKeepsDelays
  NoneOverdue
  TiesFireInStartOrder
  PoolConserved
  IrqIsExpAndIen
  CounterKeepsPeriod
PROPERTY
  TickTerminates
