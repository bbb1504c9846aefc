SPECIFICATION FairPageSpec
CONSTANTS
  Report = {r1}
  Elsewhere = {}
  Instance = {i1}
  Deleter = {d1, d2}
  Mine = {d1}
  Load = {k1, k2}
  Post = post
  Bucket = TRUE
  Reliable = TRUE
INVARIANTS StillBeingGenerated ListIsOfEvent
PROPERTIES GenerationEnds ShownEnds
CHECK_DEADLOCK FALSE
