SPECIFICATION Spec
CONSTANTS
  Data <- MCData
  Key <- MCKey
  get_key <- MCget_key
  Half = 8
INVARIANTS
  WellFormed
  IsSortedSet
PROPERTIES
  RemovesOnlyOne
