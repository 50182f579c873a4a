----------------------------- MODULE Classifier -----------------------------
(***************************************************************************)
(* The ShadowClassifier (shadow.rs), which judges certificates that are    *)
(* not in the inventory.  It has its own copy of the detector's rules and  *)
(* reads what the collector extracted without asking what is present.      *)
(***************************************************************************)
EXTENDS Extraction, Rules

CONSTANTS
  Trusted,   \* trusted_issuers
  Times      \* readings of the clock

VARIABLES
  verdict,   \* the latest classification
  judgedAt   \* the clock of it

classifierVars == <<event, metadata, verdict, judgedAt>>

NoVerdict == [class |-> "none"]

-----------------------------------------------------------------------------
(* determine_risk_level *)

IsSelfSigned(m) == m.subject = m.issuer

HasWeakKey(m) ==
  \/ m.key_algorithm = "RSA" /\ m.key_size < MinRsa
  \/ m.key_algorithm \in {"ECDSA", "EC"} /\ m.key_size < MinEcdsa

\* Without a list every issuer but the certificate itself is trusted.
HasUntrustedIssuer(m) == Trusted # {} /\ m.issuer \notin Trusted

HasLongValidity(m) == Days(m.not_after - m.not_before) > MaxValidityDays

\* Mutant: a certificate that has expired is near its end as well.
HasNearExpiry_OrPast(m, time) == Days(m.not_after - time) < NearExpiryDays

HasNearExpiry(m, time) ==
  m.not_after > time /\ Days(m.not_after - time) < NearExpiryDays

RiskLevel(m, time) ==
  IF IsSelfSigned(m) \/ HasWeakKey(m) THEN Critical
  ELSE IF HasUntrustedIssuer(m) \/ HasLongValidity(m) THEN High
  ELSE IF HasNearExpiry(m, time) THEN Medium
  ELSE Low

\* classify: deferred while the inventory cannot be asked.  The directive of
\* generate_directive has the severity of the risk.
Classified(m, available, known, time) ==
  IF ~available THEN [class |-> "deferred"]
  ELSE IF known THEN [class |-> "known"]
  ELSE [class |-> "shadow", risk |-> RiskLevel(m, time)]

-----------------------------------------------------------------------------

ClassifierInit ==
  /\ event \in Events /\ metadata = NoMetadata
  /\ verdict = NoVerdict /\ judgedAt = 0

Receive ==
  /\ metadata = NoMetadata
  /\ Process
  /\ UNCHANGED <<event, verdict, judgedAt>>

Classify == \E available, known \in BOOLEAN, time \in Times :
  /\ metadata \notin {NoMetadata, Malformed}
  /\ verdict' = Classified(metadata, available, known, time)
  /\ judgedAt' = time
  /\ UNCHANGED <<event, metadata>>

ClassifierNext == Receive \/ Classify

ClassifierSpec == ClassifierInit /\ [][ClassifierNext]_classifierVars

-----------------------------------------------------------------------------
(* Correctness *)

\* shadow.rs repeats the rules of anomaly.rs.  What the detector reports of a shadow
\* certificate is reflected in its risk, and a risk has a reason the detector reports,
\* unless it comes from the issuer or from a key whose size could not be told.
RulesAgree ==
  verdict.class = "shadow" =>
    LET found == Detect(metadata, judgedAt, judgedAt)
    IN  /\ "weak" \in found => verdict.risk = Critical
        /\ "policy" \in found => verdict.risk >= High
        /\ "near" \in found => verdict.risk >= Medium
        /\ verdict.risk = Critical =>
             \/ "weak" \in found \/ "key_size" \notin metadata.present
             \/ IsSelfSigned(metadata)
        /\ verdict.risk = High => "policy" \in found \/ HasUntrustedIssuer(metadata)
        /\ verdict.risk = Medium => "near" \in found
=============================================================================
