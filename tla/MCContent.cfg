\* Up to three items of one family; two requests at once, or one at a time.
SPECIFICATION PacedSpec
CONSTANTS
  i1 = i1
  i2 = i2
  i3 = i3
  a1 = a1
  a2 = a2
  p1 = p1
  p2 = p2
  sourced = sourced
  unsourced = unsourced
  None = None
  Items = {i1, i2, i3}
  Admins = {a1, a2}
  Payloads = {p1, p2}
  Rests = {sourced, unsourced}
  Approvable <- WithSources
  MaxWrites = 7
SYMMETRY ContentSymmetry
INVARIANTS
  VersionsUnique
  ApprovedUnlessLate
PROPERTIES
  EditsDraftsOnly
  WorkflowUnlessLate
