SPECIFICATION Spec
CONSTANTS
  Session = {s1, s2}
  Conv = {c1}
  Turn = {t1, t2}
  Nobody = Nobody
  MaxMessages = 3
  Faults = {"claude", "store", "log"}
  MaxRounds = 2
  MaxQueries = 2
  MaxCrashes = 1
SYMMETRY Symmetry
INVARIANTS
  RequestsValid ContextPreservedInTurn TurnsBelong
  AnswersAudited SummariesTell
CHECK_DEADLOCK FALSE
