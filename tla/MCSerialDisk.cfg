\* Two attempts to connect; a line that keeps three messages for a server that
\* is started later; the system never stops for good.
SPECIFICATION SDSpec
CONSTANTS
  TOTAL = 2
  Data = {d1, d2}
  Location = {0, 1}
  Request <- Requests
  TRIES = 2
  LINE_SIZE = 3
  MAX_KILLS = 1
INVARIANTS
  GivesUpOnlyIfLate
  KillLosesOneSector
PROPERTIES
  ImplementsBlockDevice
  DriverReturns
