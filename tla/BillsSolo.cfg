SPECIFICATION Spec
CONSTANTS
  Pid = {p1, p2}
  Flow = {f1}
  acme = acme  acmeLda = acmeLda  bolts = bolts  nuts = nuts
  n1 = n1  n2 = n2  bad = bad  r1 = r1  none = none
  Text = {acme, acmeLda, bolts, nuts}
  Like <- MCLike
  Nif = {n1, n2, bad}
  BadNif = {bad}
  NoNif = none
  Ref = {r1}
  Extracted <- SoloExtracted
  Typed <- SoloTyped
  Entidades0 <- SoloEntidades
  Artigos0 <- SoloArtigos
  LastChave = 9
  Absent = Absent
  Faults = {"read", "statement"}
  MaxClicks = 3
  MaxCrashes = 0
INVARIANTS
  PlansAreWritable CreatedAsAgreed OneSupplierPerNif
  MirrorRetracts
CHECK_DEADLOCK FALSE
