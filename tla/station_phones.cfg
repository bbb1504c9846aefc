SPECIFICATION PhonesSpec
CONSTANTS
  MaxVisits = 2
  Signed = {s}
  Public = {p}
  MaxLists = 1
INVARIANTS TypeOK OnlyLatestOpen ScoredStaysNewest
PROPERTIES CompletedUntilReset
