SPECIFICATION RosterPagesSpec
CONSTANTS
  c1 = c1
  c2 = c2
  n1 = n1
  n2 = n2
  Operator = {c1, c2}
  Clerk = {c2}
  Name = {n1, n2}
  Similar <- OneLetterApart
  Status = {"coming", "here"}
  NewStatus = "coming"
  MaxPeople = 2
  MaxPatched = 1
  SheetRows <- Rows
  Guest = {w}
  Expected = {}
  MaxRows = 2
  MaxMarks = 1
  MaxReads = 2
SYMMETRY Symmetry
INVARIANT ReapplyUpdates
