SPECIFICATION Spec
CONSTANTS
  t1 = t1  t2 = t2  t3 = t3
  Query = {q1, q2, q3}
  Text <- MCText
  Table = {t1, t2, t3}
  Known = {t1, t3}
  Workers = 1
  Threads = 2
  RowCap = 2
  EnrichMax = 2
INVARIANTS NothingLost TruncationTold HintsTrue
PROPERTY QueryAnswered
CHECK_DEADLOCK FALSE
