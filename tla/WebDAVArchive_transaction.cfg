CONSTANTS
  Retains = TRUE
  MaxLate = 1
SPECIFICATION Spec
INVARIANTS
  VisibleIsPlayable
PROPERTIES
  ImplementsRemotePair
