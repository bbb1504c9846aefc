SPECIFICATION OfficeSpec
CONSTANTS
  Editor = {e1, e2}
  Patrol = {a, b}
  Youth = {y}
  Typed = {y}
  MaxNumber = 2
  NoPatrol = nopatrol
  Stored = {t1, t2}
  New = {n1}
  Foreign = {f1}
  MaxLength = 2
  MaxScored = 1
  NoPanel = nopanel
  User = {u, ad}
  Admins = {ad}
  Event = {x, z}
  RoleSets = {{x}, {x, z}}
  MaxRuns = 3
  None = none
  Manager = {m1, m2}
  Account = {v, w1}
  Role = {r1, r2}
  DefaultRole = r1
  MaxPresses = 2
  Nothing = nothing
  Keeper = {k1, k2}
  Type = {g}
  Preset = {p}
  MaxWrites = 1
  MaxErrands = 1
  Unfiled = unfiled
  Absent = absent
  Outing = {o1, o2}
  MaxSaves = 2
  MaxPicks = 2
  NoOuting = noouting
CHECK_DEADLOCK FALSE
INVARIANTS OfficeTypeOK NumbersDiffer TaskLostBySlip PickStands StatusStands OneRoleEach NoPresetTaken OwnDetails OrganizersKept
PROPERTIES LossHasCause SavedAsSent
SYMMETRY OfficeSymmetry
