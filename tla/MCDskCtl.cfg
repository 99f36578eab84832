\* The sector buffer holds two sectors, of which the driver uses one.
SPECIFICATION KSpec
CONSTANTS
  TOTAL = 2
  BUF_SCTS = 2
  Data = {"a", "b"}
  Cnt = {0, 1}
  Sct = {0, 1, 2, 3}
  MAX_OPS = 2
  Location = {0, 1}
  Request <- Requests
  RETRIES = 2
INVARIANTS
  NeverDisturbed
PROPERTIES
  ImplementsBlockDevice
  DriverReturns
