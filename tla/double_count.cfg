SPECIFICATION Spec
CONSTANTS
  Client = {c1, c2}
  Task = {t1}
  Malformed = malformed
  Overlap = TRUE
  MaxVisits = 1
  MaxScores = 2
  MaxEntries = 1
INVARIANT OneScorePerTask
