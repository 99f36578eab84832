\* The card is ready after three commands ACMD41; eight bytes are given to each
\* answer and to each data block; the system never stops for good.
SPECIFICATION SDSpec
CONSTANTS
  Block = {b1, b2}
  TOTAL = 3
  UNIT = 2
  CSIZES = 4
  PRM_INIT_COUNT = 3
  SEC_INIT_COUNT = 2
  CSD_DELAY_COUNT = 2
  RD_DELAY_COUNT = 3
  WR_BUSY_COUNT = 3
  Location = {0, 1}
  Request <- Requests
  ANSWER_POLLS = 8
  TOKEN_POLLS = 8
  TRIES = 4
INVARIANTS
  InStep
  FoundIsActive
PROPERTIES
  ImplementsBlockDevice
  DriverReturns
