\* Four local dates, two overlapping calls, three items, one too long.
SPECIFICATION Spec
CONSTANTS
  i1 = i1
  i2 = i2
  i3 = i3
  c1 = c1
  c2 = c2
  None = None
  Items = {i1, i2, i3}
  Type <- MixedType
  Age <- ByAge
  Types <- VerseThenHadith
  Oversize = {i2}
  Strategies = {"LEAST_RECENTLY_SENT", "RANDOM_WITHOUT_REPLACEMENT", "ALTERNATE_BY_TYPE"}
  Callers = {c1, c2}
  LastDate = 4
  MaxChanges = 1
SYMMETRY CallerSymmetry
INVARIANTS
  OneItemPerDate
PROPERTIES
  NoEarlyRepeat
  TypesAlternate
