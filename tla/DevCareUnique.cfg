SPECIFICATION Spec
CONSTANTS
  Conversation = {v1, v2}
  Change = {c1, c2, c3}
  cardio = cardio  neuro = neuro
  Code = {cardio, neuro}
  Blank = Blank
  Absent = Absent
  Specialties0 <- MCSpecialties
  Doctors0 <- MCDoctors
  LastChave = 2
  StrayTargets = {}
  Faults = {}
  MaxCrashes = 0
SYMMETRY Symmetry
INVARIANT UniqueAmongActive
CHECK_DEADLOCK FALSE
