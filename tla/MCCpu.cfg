\* Interrupts, exceptions and returns, nested arbitrarily.
SPECIFICATION CpuSpec
CONSTANTS
  Irq = {1, 14}
  Exc = {20, 21}
  Addr = {"a", "b"}
  Vector <- Vectors
  NewPsw <- Psws
  LinkDiscipline = TRUE
INVARIANTS
  StackHoldsInterruptedModes
  NothingEnabledWaits
  LinkIsUnbroken
PROPERTIES
  UserModeIsConfined
