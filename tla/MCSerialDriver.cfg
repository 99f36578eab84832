\* The driver polls line 0, arbitrary software uses line 1; two characters may be
\* typed and two sent.
SPECIFICATION PSpec
CONSTANTS
  Dev = {0, 1}
  Char = {"a", "b"}
  MAX_TIMERS = 2
  line = 0
  MAX_CHARS = 2
INVARIANTS
  IrqIsRdyAndIen
  BusyIsScheduled
  OutputIsWhatWasSent
  InputInOrder
PROPERTY
  CallsReturn
