SPECIFICATION Spec
CONSTANTS
  Certs = {c1}
  ExpiryDays = 1
  RetentionDays = 1
  RenewDays = 2
  CriticalDays = 1
  MaxDays = 3
  MaxDirectives = 3
  MaxFailures = 1
INVARIANTS CertificatesKept FailureAlerted
PROPERTY ExpiredWasUnseen
