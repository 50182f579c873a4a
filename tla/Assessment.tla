----------------------------- MODULE Assessment -----------------------------
(***************************************************************************)
(* What the Analyzer makes of one certificate as time goes by: the         *)
(* RenewalPredictor (renewal.rs), and the rules of the AnomalyDetector.    *)
(*                                                                         *)
(* A probability is in thousandths: every float the predictor can compute  *)
(* is a sum of the same decimals, and compares with 0.7 as the integer     *)
(* with 700.  An average is rounded up, for it is only compared with whole *)
(* days.                                                                   *)
(***************************************************************************)
EXTENDS Rules

CONSTANTS
  Certs,            \* the certificates, histories and clock readings that
  Histories,        \* a behaviour may start from
  Starts,
  Horizon,          \* the clock stops there
  MaxPause,         \* half-days between two readings of the clock in one scan
  Labels            \* labels of host names, "" and "*" among them

Certificates ==
  [present : SUBSET Fields, not_before : Int, not_after : Int,
   key_algorithm : {"RSA", "ECDSA", "EC", "other"}, key_size : Nat,
   sans : SUBSET Seq(Labels), sni : Seq(Labels)]

\* RenewalHistory: the average of previous_renewal_days, 0 when there are none,
\* past_failures and issuer_avg_response_days.
NoHistory == [typical |-> 0, failures |-> 0, response |-> 0, known |-> FALSE]
History == [typical : Int, failures : Nat, response : Nat, known : {TRUE}]

ASSUME AssessmentAssumption ==
  /\ Certs \subseteq Certificates /\ Histories \subseteq History \cup {NoHistory}
  /\ Starts \subseteq Nat /\ Horizon \in Nat /\ MaxPause \in Nat

VARIABLES
  cert,       \* the certificate
  history,    \* what is known of its renewals
  now,        \* the clock
  prediction  \* the latest prediction

vars == <<cert, history, now, prediction>>

-----------------------------------------------------------------------------
(* The predictor *)

\* What a directive asks for, in the order of urgency.
Nothing == 0
Renew == 1
Alert == 2

AtMost(m, x) == IF x <= m THEN x ELSE m
Clamped(days) == IF days < 0 THEN 0 ELSE AtMost(30, days)

\* has_renewal_activity: a renewal is taken to be under way if it should be.
HasActivity(h, days) ==
  h.known /\ 0 < days /\ days < h.typical /\ h.failures = 0

\* Mutant: no penalty once the certificate has expired.
IssuerFactor_NoneExpired(h, days) ==
  IF days > 0 /\ h.response > days THEN 300 ELSE 0

IssuerFactor(h, days) ==
  IF days <= 0 THEN 400 ELSE IF h.response > days THEN 300 ELSE 0

\* calculate_probability
Probability(h, days) ==
  IF ~h.known THEN 500 + (30 - Clamped(days)) * 15
  ELSE AtMost(1000, (IF HasActivity(h, days) THEN 200 ELSE 400)
                      + AtMost(300, h.failures * 100) + IssuerFactor(h, days)
                      + (30 - Clamped(days)) * 8)

\* determine_severity
SeverityOf(h, days) ==
  CASE days <= 0 -> Critical
    [] 0 < days /\ days < 14 -> IF HasActivity(h, days) THEN High ELSE Critical
    [] OTHER -> Medium

\* generate_directive
Advice(h, days) ==
  IF days <= 0 THEN Alert
  ELSE IF Probability(h, days) >= 700 THEN Renew ELSE Nothing

\* predict: nothing is said more than 30 days ahead.
NoPrediction == [made |-> FALSE, days |-> 0, activity |-> FALSE,
                 probability |-> 0, severity |-> Low, advice |-> Nothing]

Predicted(h, days) ==
  IF days > 30 THEN NoPrediction
  ELSE [made |-> TRUE, days |-> days, activity |-> HasActivity(h, days),
        probability |-> Probability(h, days), severity |-> SeverityOf(h, days),
        advice |-> Advice(h, days)]

Predict ==
  /\ prediction' = Predicted(history, Days(cert.not_after - now))
  /\ UNCHANGED <<cert, history, now>>

Tick ==
  /\ now < Horizon /\ now' = now + 1
  /\ UNCHANGED <<cert, history, prediction>>

Init ==
  /\ cert \in Certs /\ history \in Histories /\ now \in Starts
  /\ prediction = NoPrediction

Next == Predict \/ Tick

Spec == Init /\ [][Next]_vars

-----------------------------------------------------------------------------
(* Properties *)

\* A prediction has a probability and a severity that belongs to it: never Low,
\* and an alert only at the critical one.
Predictions ==
  [made : {TRUE}, days : Int, activity : BOOLEAN, probability : 0 .. 1000,
   severity : Medium .. Critical, advice : Nothing .. Alert]

TypeOK ==
  /\ cert \in Certs /\ history \in Histories /\ now \in Nat
  /\ prediction \in Predictions \cup {NoPrediction}

\* While the clock runs and no renewal is taken to have begun, no new prediction
\* takes the old one back or is milder in probability, severity or advice: the
\* factors of the sum and the three thresholds move together.
Begins(old, new) == new.activity /\ ~old.activity

Rises(old, new) ==
  old.made =>
    /\ new.made
    /\ Begins(old, new) \/ /\ new.probability >= old.probability
                           /\ new.severity >= old.severity
                           /\ new.advice >= old.advice

RiskOnlyRises == [][Rises(prediction, prediction')]_prediction

\* requirements.md:91: the rules look at nothing that was not extracted.  Two
\* certificates that agree on what is present have the same anomalies.
Agree(c, d) ==
  /\ c.present = d.present /\ c.sni = d.sni
  /\ \A f \in c.present : c[f] = d[f]

AbsentFieldsIgnored ==
  \A d \in Certs, pause \in 0 .. MaxPause :
    Agree(cert, d) => Detect(cert, now, now + pause) = Detect(d, now, now + pause)

\* The clock is read twice in a scan.  A certificate is never reported both as
\* expired and as about to expire, and one that is due is reported as one of the
\* two unless it expires between the two readings or on one of them.
ExpiryFlagged ==
  \A pause \in 0 .. MaxPause :
    LET found == Detect(cert, now, now + pause)
        left == cert.not_after - now
    IN  /\ ~({"expired", "near"} \subseteq found)
        /\ Has(cert, {"not_after"}) /\ Days(left) < NearExpiryDays
             => "expired" \in found \/ "near" \in found \/ left \in 0 .. pause
=============================================================================
