SPECIFICATION Spec
CONSTANTS
  Writers = {w1, w2}
  Certs = {c1, c2, c3}
  MaxSeverity = 1
  MaxEntries = 1
  MapSize = 3
  MaxTotal = 2
  MaxRetries = 2
SYMMETRY Symmetry
INVARIANT CapsHeld
PROPERTY RefusalsFounded
