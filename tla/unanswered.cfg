SPECIFICATION ScoringSpec
CONSTANTS
  Patrol = {p1}
  Timed = {timer}
  Optional = {pass}
  Plain = {score, text}
  Divided = {}
  Loose = {text}
  Disqualify = {disq}
  Nobody = nobody
INVARIANT OnlyOptionalUnanswered
