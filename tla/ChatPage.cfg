SPECIFICATION Spec
CONSTANTS
  MaxListed = 1
  MaxConvs = 2
  MaxSessions = 4
  MaxTexts = 1
  MaxSends = 1
  MaxCalls = 2
  MaxFailures = 1

  
PROPERTIES
  SessionKept ListSettles PageStarts
CHECK_DEADLOCK FALSE
