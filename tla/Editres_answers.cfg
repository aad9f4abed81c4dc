SPECIFICATION Spec
CONSTANTS
  a = a
  b = b
  None = None
  Clients = {a, b}
  Mortal = {a}
  Speaks <- MCSpeaks
  CURRENT_PROTOCOL_VERSION = 5
  MaxSends = 3
  MaxCalls = 3
  MaxLoop = 2
INVARIANT TimersTrue 
PROPERTY AnswerMatches NegotiationDescends NoSilentWait
CHECK_DEADLOCK FALSE
