SPECIFICATION FairSpec
CONSTANTS
  Pid = {p1, p2}
  Flow = {f1, f2}
  acme = acme  acmeLda = acmeLda  bolts = bolts  nuts = nuts
  n1 = n1  n2 = n2  bad = bad  r1 = r1  none = none
  Text = {acme, acmeLda, bolts, nuts}
  Like <- MCLike
  Nif = {n1, n2, bad}
  BadNif = {bad}
  NoNif = none
  Ref = {r1}
  Extracted <- TwoExtracted
  Typed <- TwoExtracted
  Entidades0 <- TwoEntidades
  Artigos0 <- DuoArtigos
  LastChave = 9
  Absent = Absent
  Faults = {"statement"}
  MaxClicks = 2
  MaxCrashes = 0
INVARIANTS
  HeadersSerialise NoWaitCycle
PROPERTY CommitAnswered
CHECK_DEADLOCK FALSE
