SPECIFICATION DetectionSpec
CONSTANTS
  MaxCertData = 40
  MaxRecord = 200
  MaxCertLength = 60
  FpLength = 32
  MaxChain = 3
  MaxLength = 185
  CPUs = {p1, p2}
  Fingerprints = {c1, c2}
  MaxPackets = 3
  MaxSeen = 1
  RingSize = 1
  MaxData = 4
  MaxSni = 4
  MaxSans = 1
  Trusted = {"ca", "a"}
  Times = {0, 3, 5, 63, 64, 65}
  Tasks = {t1, t2, t3}
  Outcomes = {"ok", "error", "timeout"}
  MaxEvals = 5
  Handshakes <- MCHandshakes
  Packets <- MCPackets
  Events <- MCEvents
  Certs <- MCCerts
  Histories <- MCHistories
  Labels <- MCLabels
  Starts = {0, 60}
  Horizon = 67
  MaxPause = 2
  NearExpiryDays = 30
  MaxValidityDays = 398
  MinRsa = 2048
  MinEcdsa = 256
INVARIANTS ConnectionsCounted NewOncePerCpu EventsAccounted EnforcerReadsTheSame ReportsWhatIsThere RulesAgree KeySizeIsClose ExpiryFlagged
PROPERTIES RiskOnlyRises FallbackHolds
CHECK_DEADLOCK FALSE
