\* Two window threads and the CPU thread at a ring buffer of 5 slots.
SPECIFICATION ISpec
CONSTANTS
  Window = {"graph1", "graph2"}
  CPU = "cpu"
  Event <- Keys
  Command = {"RESET"}
  Answer <- OneAnswer
  ResetAnswer <- JustMake
  ResetCommand = {"RESET"}
  NoByte = "none"
  BUF_MAX = 5
  BUF_MIN_FREE = 2
  MAX_TIMERS = 1
  XmtrIen = {FALSE}
  RacingResets = FALSE
INVARIANT
  IrqIfWanted
PROPERTY
  ImplementsInputQueue
