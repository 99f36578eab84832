\* One window thread; the buffer may be reset at any moment.
SPECIFICATION FairISpec
CONSTANTS
  Window = {"graph"}
  CPU = "cpu"
  Event <- Keys
  Command = {"RESET"}
  Answer <- OneAnswer
  ResetAnswer <- JustMake
  ResetCommand = {"RESET"}
  NoByte = "none"
  BUF_MAX = 4
  BUF_MIN_FREE = 2
  MAX_TIMERS = 2
  XmtrIen = {TRUE, FALSE}
  RacingResets = TRUE
INVARIANTS
  NoSpuriousIrq
PROPERTY
  CommandsFinish
