SPECIFICATION Spec
CONSTANTS
  Certs = {c1}
  ExpiryDays = 1
  RetentionDays = 2
  RenewDays = 2
  CriticalDays = 1
  MaxDays = 4
  MaxDirectives = 2
  MaxFailures = 0
INVARIANT OldAreDeletable
