SPECIFICATION FinalizerSpec
CHECK_DEADLOCK FALSE
CONSTANTS
  Saver = {c1, c2}
  Organizer = c1
  Line = {l1, l2, f1}
  Own = {l1, l2}
  Sheet = {s1, s2}
  MaxSaves = 2
  MaxLoads = 2
SYMMETRY Symmetry
INVARIANT AnsweredIsWhole
INVARIANT StaleNeedsOverlap
INVARIANT WholeUnlessTrouble
INVARIANT ReportOfScreen
