SPECIFICATION Spec
CONSTANTS
  Conversation = {v1, v2}
  Change = {c1, c2}
  cardio = cardio  neuro = neuro
  Code = {cardio, neuro}
  Blank = Blank
  Absent = Absent
  Specialties0 <- MCSpecialties
  Doctors0 <- MCDoctors
  LastChave = 2
  StrayTargets = {1}
  Faults = {"read", "statement", "commit", "log"}
  MaxCrashes = 2
SYMMETRY Symmetry
INVARIANTS ConfirmedWrites AuditReplays ReferencesExist KeysNameOneRecord
CHECK_DEADLOCK FALSE
