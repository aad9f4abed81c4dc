SPECIFICATION Spec
CONSTANTS
  a = a
  b = b
  None = None
  Clients = {a, b}
  Mortal = {a}
  Speaks <- MCSpeaks
  CURRENT_PROTOCOL_VERSION = 5
  MaxSends = 1
  MaxCalls = 3
  MaxLoop = 2
PROPERTY KeysSelect
CHECK_DEADLOCK FALSE
