SPECIFICATION Spec
CONSTANTS
  Employee = {e1, e2}
  Contract = {c1, c2}
  Period = {p1}
  Sum = {10, 14}
  NumLayers = 2
  None = None
  MaxCalls = 5
  MaxRuns = 2
  MaxScopes = 2
  MaxEdits = 2
SYMMETRY Registered
INVARIANTS
  ReferencesHold StandIn
PROPERTIES
  ImplementsBook PlansRepeat RefusalsAreCurrent
CHECK_DEADLOCK FALSE
