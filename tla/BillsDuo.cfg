SPECIFICATION Spec
CONSTANTS
  Pid = {p1, p2}
  Flow = {f1, f2}
  acme = acme  acmeLda = acmeLda  bolts = bolts  nuts = nuts
  n1 = n1  n2 = n2  bad = bad  r1 = r1  none = none
  Text = {acme, acmeLda, bolts, nuts}
  Like <- MCLike
  Nif = {n1, n2, bad}
  BadNif = {bad}
  NoNif = none
  Ref = {r1}
  Extracted <- OneExtracted
  Typed <- OneExtracted
  Entidades0 <- NoEntidades
  Artigos0 <- DuoArtigos
  LastChave = 9
  Absent = Absent
  Faults = {"read", "statement", "commit", "note", "mirror"}
  MaxClicks = 2
  MaxCrashes = 1
INVARIANTS
  AuditedOnce OneDocumentPerApproval OnlyLatestStageCommits
PROPERTY
  ImplementsLedger
CHECK_DEADLOCK FALSE
