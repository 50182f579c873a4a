------------------------------- MODULE Rules -------------------------------
(***************************************************************************)
(* The rules by which the AnomalyDetector (anomaly.rs) judges a            *)
(* certificate, and the matching of host names (sni_match.rs): pure        *)
(* functions of the certificate and of the clock.                          *)
(*                                                                         *)
(* Time is counted in half-days, and num_days is Days, which truncates.  A *)
(* host name is its sequence of labels, in lower case.                     *)
(***************************************************************************)
EXTENDS Integers, Sequences

CONSTANTS
  NearExpiryDays,   \* near_expiry_threshold_days
  MaxValidityDays,  \* max_validity_days
  MinRsa, MinEcdsa  \* min_rsa_key_size, min_ecdsa_key_size

ASSUME RulesAssumption ==
  /\ NearExpiryDays \in Nat /\ MaxValidityDays \in Nat
  /\ MinRsa \in Nat /\ MinEcdsa \in Nat

\* The bits of completeness_flags the rules ask for.
Fields == {"not_before", "not_after", "key_algorithm", "key_size", "sans"}

\* Severity and RiskLevel.
Low == 0
Medium == 1
High == 2
Critical == 3

\* num_days of a duration, which truncates towards zero.
Days(time) == IF time >= 0 THEN time \div 2 ELSE -((-time) \div 2)

-----------------------------------------------------------------------------
(* The detector, which reads the clock twice *)

Has(c, fields) == fields \subseteq c.present

PolicyViolation(c) ==
  /\ Has(c, {"not_before", "not_after"})
  /\ Days(c.not_after - c.not_before) > MaxValidityDays

WeakCryptography(c) ==
  /\ Has(c, {"key_algorithm", "key_size"})
  /\ \/ c.key_algorithm = "RSA" /\ c.key_size < MinRsa
     \/ c.key_algorithm \in {"ECDSA", "EC"} /\ c.key_size < MinEcdsa

\* sni_matches_san: the same name, or "*." and a base domain for which the SNI
\* has exactly one more label.
Matches(sni, san) ==
  \/ sni = san
  \/ /\ Len(san) > 1 /\ Head(san) = "*" /\ Tail(san) # <<"">>
     /\ Len(sni) = Len(san) /\ Tail(sni) = Tail(san) /\ Head(sni) # ""

\* An SNI that is absent or empty is the empty sequence.
SniMismatch(c) ==
  /\ Has(c, {"sans"}) /\ c.sans # {} /\ c.sni # <<>>
  /\ \A san \in c.sans : ~Matches(c.sni, san)

Expired(c, time) == Has(c, {"not_after"}) /\ c.not_after < time

\* Mutant: the last day counts as expired, as it does for the predictor.
NearExpiry_WholeDays(c, time) ==
  /\ Has(c, {"not_after"})
  /\ Days(c.not_after - time) > 0
  /\ Days(c.not_after - time) < NearExpiryDays

NearExpiry(c, time) ==
  /\ Has(c, {"not_after"})
  /\ c.not_after > time
  /\ Days(c.not_after - time) < NearExpiryDays

\* detect, which reads the clock for each of the last two rules.
Detect(c, first, last) ==
  {a \in {"policy", "weak", "sni", "expired", "near"} :
     \/ a = "policy" /\ PolicyViolation(c)
     \/ a = "weak" /\ WeakCryptography(c)
     \/ a = "sni" /\ SniMismatch(c)
     \/ a = "expired" /\ Expired(c, first)
     \/ a = "near" /\ NearExpiry(c, last)}
=============================================================================
