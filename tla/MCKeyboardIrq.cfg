\* Software enables both interrupts of the shared line.
SPECIFICATION ISpec
CONSTANTS
  Window = {"graph"}
  CPU = "cpu"
  Event <- Keys
  Command = {"RESET"}
  Answer <- OneAnswer
  ResetAnswer <- JustMake
  ResetCommand = {"RESET"}
  NoByte = "none"
  BUF_MAX = 4
  BUF_MIN_FREE = 2
  MAX_TIMERS = 1
  XmtrIen = {TRUE, FALSE}
  RacingResets = TRUE
INVARIANT
  ReceiverInterrupts
