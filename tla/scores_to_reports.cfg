SPECIFICATION ScoresSpec
CONSTANTS
  Client = {c1, c2}
  Task = {t1}
  Malformed = malformed
  Overlap = FALSE
  MaxVisits = 2
  MaxScores = 2
  MaxEntries = 2
  Patrol = {p1, p2, p3}
  Timed = {timer}
  Optional = {pass}
  Plain = {score, text}
  Divided = {}
  Loose = {text}
  Disqualify = {disq}
  Nobody = nobody
  Report = {r1, r2}
  Instance = {i1, i2}
  Deleter = {d1}
  Bucket = TRUE
  Reliable = FALSE
SYMMETRY Symmetry
CONSTRAINT NoneForeign
INVARIANTS ForeignAnswersNeedHaste SentIsSettled ReportsTypeOK ReadyHasFile ReadyIsDownloadable OrphanNeedsExcuse
PROPERTIES AttemptContract DeletedStaysDeleted
CHECK_DEADLOCK FALSE
