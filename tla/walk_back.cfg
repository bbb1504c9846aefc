SPECIFICATION Spec
CONSTANTS
  Client = {c1, c2}
  Task = {t1}
  Malformed = malformed
  Overlap = TRUE
  MaxVisits = 2
  MaxScores = 0
  MaxEntries = 0
PROPERTY CheckOutKeepsCompleted
