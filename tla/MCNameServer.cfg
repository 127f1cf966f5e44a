SPECIFICATION Spec
CONSTANTS
  root = root
  inner = inner
  none = none
  Server <- MCServer
  NoServer <- none
  Up <- MCUp
  Binds <- MCBinds
  Lookups <- MCLookups
  MaxEntries = 3
INVARIANTS
  LookupsRight
PROPERTIES
  RequestsEnd
  LoopsFind
