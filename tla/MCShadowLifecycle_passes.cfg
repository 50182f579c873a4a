SPECIFICATION FairSpec
CONSTANTS
  Certs = {c1}
  MaxDays = 3
  MaxFailures = 1
  MaxStores = 2
  Levels = {3}
INVARIANTS OneTierPerDay CriticalAlerted ReplacedHasSuccessor
PROPERTY RegisteredIsResolved
