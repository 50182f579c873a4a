-------------------------- MODULE DetectionProofs --------------------------
(***************************************************************************)
(* What holds on the way from a packet to an assessment, for any number of *)
(* CPUs, tasks and evaluations, any packet, certificate, history and       *)
(* threshold.                                                              *)
(*                                                                         *)
(* Assessment: RiskOnlyRises compares two predictions made at different    *)
(* times.  The invariant Foreseen says where the older one came from: the  *)
(* same history and no fewer days left.  The rest is the monotony of       *)
(* Predicted in the days (Milder), whose parts are lemmas about its        *)
(* factors.                                                                *)
(*                                                                         *)
(* Classifier: the invariant ties the metadata to the event and the        *)
(* verdict to the metadata; the agreement of the two copies of the rules   *)
(* and the closeness of the key sizes follow.                              *)
(*                                                                         *)
(* Analyzer: the invariant says of every evaluation what it may carry at   *)
(* the place where it stands.                                              *)
(*                                                                         *)
(* Segment: the two walks over the headers are compared check by check.    *)
(* The walk over the list is a recursion: it ends at the first stop, by    *)
(* the smallest counterexample (FirstStop), and as positions only grow,    *)
(* what is there are the entries before it.                                *)
(*                                                                         *)
(* Capture: as long as the certificates shown fit, SEEN_CERTS never loses  *)
(* one (SeenInv); a CPU that is about to call one new has not done so      *)
(* before, and every entry is owed to a CPU that has or is about to.       *)
(* A CPU that is about to start a count has none of its own (CountInv),    *)
(* and every step moves one connection or event from one term of a sum to  *)
(* another (EventInv).                                                     *)
(***************************************************************************)
EXTENDS Assessment, Classifier, Analyzer, Segment, Capture,
        FiniteSetTheorems, WellFoundedInduction, TLAPS

-----------------------------------------------------------------------------
(* Days and factors *)

LEMMA DaysType == \A t \in Int : Days(t) \in Int
BY DEF Days

\* A shorter time has no more whole days, and none less than a day has one.
LEMMA DaysMonotone ==
  ASSUME NEW s \in Int, NEW t \in Int, s <= t
  PROVE  Days(s) <= Days(t)
<1>1. CASE 0 <= s
  BY <1>1 DEF Days
<1>2. CASE s < 0 /\ 0 <= t
  <2>1. Days(t) >= 0 /\ Days(t) \in Int
    BY <1>2 DEF Days
  <2>2. Days(s) <= 0 /\ Days(s) \in Int
    BY <1>2 DEF Days
  <2> QED
    BY <2>1, <2>2
<1>3. CASE t < 0
  <2>1. (-t) \div 2 <= (-s) \div 2 /\ (-t) \div 2 \in Int /\ (-s) \div 2 \in Int
    BY <1>3
  <2>2. Days(s) = -((-s) \div 2) /\ Days(t) = -((-t) \div 2)
    BY <1>3 DEF Days
  <2> QED
    BY <2>1, <2>2
<1> QED
  BY <1>1, <1>2, <1>3

LEMMA HistoryFields ==
  ASSUME NEW h \in History \cup {NoHistory}
  PROVE  h.typical \in Int /\ h.failures \in Nat /\ h.response \in Nat /\ h.known \in BOOLEAN
<1>1. CASE h \in History
  <2>1. h.known \in {TRUE}
    BY <1>1 DEF History
  <2> QED
    BY <1>1, <2>1 DEF History
<1>2. CASE h = NoHistory
  BY <1>2 DEF NoHistory
<1> QED
  BY <1>1, <1>2

LEMMA ProbabilityType ==
  ASSUME NEW h \in History \cup {NoHistory}, NEW days \in Int
  PROVE  Probability(h, days) \in 0 .. 1000
<1> DEFINE Sum == (IF HasActivity(h, days) THEN 200 ELSE 400)
                    + AtMost(300, h.failures * 100) + IssuerFactor(h, days)
                    + (30 - Clamped(days)) * 8
<1>1. Clamped(days) \in 0 .. 30
  BY DEF Clamped, AtMost
<1>2. AtMost(300, h.failures * 100) \in 0 .. 300 /\ IssuerFactor(h, days) \in 0 .. 400
  BY HistoryFields DEF AtMost, IssuerFactor
<1>3. Sum \in Int /\ Sum >= 0
  <2> DEFINE a == IF HasActivity(h, days) THEN 200 ELSE 400
             b == AtMost(300, h.failures * 100)
             i == IssuerFactor(h, days)
             c == Clamped(days)
  <2>1. a \in Nat /\ b \in Nat /\ i \in Nat /\ c \in 0 .. 30
    BY <1>1, <1>2
  <2>2. Sum = a + b + i + (30 - c) * 8
    OBVIOUS
  <2> HIDE DEF Sum, a, b, i, c
  <2> QED
    BY <2>1, <2>2
<1>4. AtMost(1000, Sum) \in 0 .. 1000
  <2> HIDE DEF Sum
  <2> QED BY <1>3 DEF AtMost
<1>5. Probability(h, days)
        = IF ~h.known THEN 500 + (30 - Clamped(days)) * 15 ELSE AtMost(1000, Sum)
  BY DEF Probability
<1> HIDE DEF Sum
<1> QED
  BY <1>1, <1>4, <1>5

LEMMA PredictedType ==
  ASSUME NEW h \in History \cup {NoHistory}, NEW days \in Int
  PROVE  Predicted(h, days) \in Predictions \cup {NoPrediction}
<1>1. SeverityOf(h, days) \in Medium .. Critical
  BY HistoryFields DEF SeverityOf, HasActivity, Medium, High, Critical
<1>2. Advice(h, days) \in Nothing .. Alert
  BY ProbabilityType DEF Advice, Nothing, Renew, Alert
<1>3. HasActivity(h, days) \in BOOLEAN
  BY HistoryFields DEF HasActivity
<1>4. Probability(h, days) \in 0 .. 1000
  BY ProbabilityType, SMTT(30)
<1>5. [made |-> TRUE, days |-> days, activity |-> HasActivity(h, days),
       probability |-> Probability(h, days), severity |-> SeverityOf(h, days),
       advice |-> Advice(h, days)] \in Predictions
  BY <1>1, <1>2, <1>3, <1>4, ZenonT(60) DEF Predictions
<1> QED
  BY <1>5 DEF Predicted

\* The requirement for certificates without a history (requirements.md:100), and
\* the number of days from which the scheduler asks for their renewal.
THEOREM Baseline ==
  ASSUME NEW days \in Int
  PROVE  /\ Probability(NoHistory, days) >= 500
         /\ Probability(NoHistory, days) >= 700 <=> days <= 16
BY DEF Probability, NoHistory, Clamped, AtMost

\* With no renewal under way the sum grows as the days run out ...
LEMMA ProbabilityRises ==
  ASSUME NEW h \in History \cup {NoHistory}, NEW few \in Int, NEW many \in Int,
         few <= many, HasActivity(h, few) => HasActivity(h, many)
  PROVE  Probability(h, few) >= Probability(h, many)
<1> DEFINE Base(d) == IF HasActivity(h, d) THEN 200 ELSE 400
<1>1. h.response \in Nat /\ AtMost(300, h.failures * 100) \in 0 .. 300
  BY HistoryFields DEF AtMost
<1>2. /\ Clamped(few) \in 0 .. 30 /\ Clamped(many) \in 0 .. 30
      /\ Clamped(few) <= Clamped(many)
  BY DEF Clamped, AtMost
<1>3. /\ IssuerFactor(h, few) \in 0 .. 400 /\ IssuerFactor(h, many) \in 0 .. 400
      /\ IssuerFactor(h, few) >= IssuerFactor(h, many)
  BY <1>1 DEF IssuerFactor
<1>4. Base(few) \in 200 .. 400 /\ Base(many) \in 200 .. 400 /\ Base(few) >= Base(many)
  OBVIOUS
<1> HIDE DEF Base
<1> DEFINE Sum(d) == Base(d) + AtMost(300, h.failures * 100)
                       + IssuerFactor(h, d) + (30 - Clamped(d)) * 8
<1>6. Sum(few) \in Int /\ Sum(many) \in Int /\ Sum(few) >= Sum(many)
  <2> DEFINE b == AtMost(300, h.failures * 100)
             i == IssuerFactor(h, few)
             c == Clamped(few)
             j == IssuerFactor(h, many)
             d == Clamped(many)
  <2>1. /\ b \in Int /\ i \in Int /\ c \in 0 .. 30 /\ j \in Int /\ d \in 0 .. 30
        /\ Base(few) \in Int /\ Base(many) \in Int
        /\ Base(few) >= Base(many) /\ i >= j /\ c <= d
    BY <1>1, <1>2, <1>3, <1>4, SMTT(30)
  <2>2. /\ Sum(few) = Base(few) + b + i + (30 - c) * 8
        /\ Sum(many) = Base(many) + b + j + (30 - d) * 8
    OBVIOUS
  <2> HIDE DEF Sum, b, i, c, j, d
  <2> QED
    BY <2>1, <2>2
<1>7. AtMost(1000, Sum(few)) >= AtMost(1000, Sum(many))
  <2> HIDE DEF Sum
  <2> QED BY <1>6 DEF AtMost
<1>8. \A d \in {few, many} :
        Probability(h, d) = IF ~h.known THEN 500 + (30 - Clamped(d)) * 15
                                        ELSE AtMost(1000, Sum(d))
  BY DEF Probability, Base
<1> HIDE DEF Sum
<1>9. CASE h.known
  BY <1>7, <1>8, <1>9
<1>10. CASE ~h.known
  BY <1>2, <1>8, <1>10
<1> QED
  BY <1>9, <1>10

LEMMA AdviceRises ==
  ASSUME NEW h \in History \cup {NoHistory}, NEW few \in Int, NEW many \in Int,
         few <= many, HasActivity(h, few) => HasActivity(h, many)
  PROVE  Advice(h, few) >= Advice(h, many)
<1> DEFINE p == Probability(h, few)
           q == Probability(h, many)
<1>1. p \in 0 .. 1000
  BY ProbabilityType, SMTT(30)
<1>2. q \in 0 .. 1000
  BY ProbabilityType, SMTT(30)
<1>3. /\ Advice(h, few) = IF few <= 0 THEN 2 ELSE IF p >= 700 THEN 1 ELSE 0
      /\ Advice(h, many) = IF many <= 0 THEN 2 ELSE IF q >= 700 THEN 1 ELSE 0
  BY DEF Advice, Nothing, Renew, Alert
<1>4. p >= q
  BY ProbabilityRises
<1> HIDE DEF p, q
<1> QED
  BY <1>1, <1>2, <1>3, <1>4

\* ... and so does the whole prediction.
LEMMA Milder ==
  ASSUME NEW h \in History \cup {NoHistory}, NEW few \in Int, NEW many \in Int,
         few <= many
  PROVE  Rises(Predicted(h, many), Predicted(h, few))
<1> SUFFICES ASSUME Predicted(h, many).made
             PROVE  /\ Predicted(h, few).made
                    /\ Begins(Predicted(h, many), Predicted(h, few))
                         \/ /\ Predicted(h, few).probability >= Predicted(h, many).probability
                            /\ Predicted(h, few).severity >= Predicted(h, many).severity
                            /\ Predicted(h, few).advice >= Predicted(h, many).advice
  BY DEF Rises
<1>1. many <= 30 /\ few <= 30
  BY DEF Predicted, NoPrediction
<1>2. \A d \in {few, many} :
        /\ Predicted(h, d).made /\ Predicted(h, d).activity = HasActivity(h, d)
        /\ Predicted(h, d).probability = Probability(h, d)
        /\ Predicted(h, d).severity = SeverityOf(h, d)
        /\ Predicted(h, d).advice = Advice(h, d)
  BY <1>1 DEF Predicted
<1>3. ASSUME HasActivity(h, few) => HasActivity(h, many)
      PROVE  /\ Probability(h, few) >= Probability(h, many)
             /\ SeverityOf(h, few) >= SeverityOf(h, many)
             /\ Advice(h, few) >= Advice(h, many)
  <2>1. Probability(h, few) >= Probability(h, many)
    BY <1>3, ProbabilityRises
  <2>2. SeverityOf(h, few) >= SeverityOf(h, many)
    BY <1>3, HistoryFields DEF SeverityOf, HasActivity, Medium, High, Critical
  <2>3. Advice(h, few) >= Advice(h, many)
    BY <1>3, AdviceRises
  <2> QED
    BY <2>1, <2>2, <2>3
<1> QED
  BY <1>2, <1>3 DEF Begins

-----------------------------------------------------------------------------
(* The state *)

LEMMA Parts ==
  ASSUME TypeOK
  PROVE  /\ cert.not_after \in Int /\ history \in History \cup {NoHistory}
         /\ now \in Nat /\ Days(cert.not_after - now) \in Int
<1>1. cert \in Certificates
  BY AssessmentAssumption DEF TypeOK
<1>2. cert.not_after \in Int
  BY <1>1 DEF Certificates
<1> QED
  BY <1>2, AssessmentAssumption, DaysType DEF TypeOK

\* The prediction was made from this history, when no less time was left.
Foreseen ==
  prediction = NoPrediction
    \/ \E days \in Int : /\ days >= Days(cert.not_after - now)
                         /\ prediction = Predicted(history, days)

LEMMA InitHolds == Init => TypeOK /\ Foreseen
BY AssessmentAssumption DEF Init, TypeOK, Foreseen

LEMMA NextHolds == TypeOK /\ Foreseen /\ [Next]_vars => TypeOK' /\ Foreseen'
<1> SUFFICES ASSUME TypeOK, Foreseen, [Next]_vars
             PROVE  TypeOK' /\ Foreseen'
  OBVIOUS
<1>1. CASE Predict
  <2>1. prediction' \in Predictions \cup {NoPrediction}
    BY <1>1, Parts, PredictedType DEF Predict
  <2> QED
    BY <1>1, <2>1, Parts DEF Predict, TypeOK, Foreseen
<1>2. CASE Tick
  <2>1. cert.not_after - now' <= cert.not_after - now /\ now' \in Nat
    BY <1>2, Parts DEF Tick
  <2>2. Days(cert.not_after - now') <= Days(cert.not_after - now)
    BY <2>1, Parts, DaysMonotone
  <2>3. Days(cert.not_after - now') \in Int
    BY <2>1, Parts, DaysType
  <2> QED
    BY <1>2, <2>1, <2>2, <2>3, Parts DEF Tick, TypeOK, Foreseen
<1>3. CASE UNCHANGED vars
  BY <1>3 DEF vars, TypeOK, Foreseen
<1> QED
  BY <1>1, <1>2, <1>3 DEF Next

LEMMA Invariant == Spec => [](TypeOK /\ Foreseen)
BY InitHolds, NextHolds, PTL DEF Spec

\* Type correctness; in particular a probability is one.
THEOREM TypeCorrect == Spec => []TypeOK
BY Invariant, PTL

\* No later prediction is milder than an earlier one, unless a renewal begins.
THEOREM PredictionsOnlyRise == Spec => RiskOnlyRises
<1>1. TypeOK /\ Foreseen /\ [Next]_vars => [Rises(prediction, prediction')]_prediction
  <2> SUFFICES ASSUME TypeOK, Foreseen, Predict
               PROVE  Rises(prediction, prediction')
    BY DEF Next, Tick, vars
  <2>1. CASE prediction = NoPrediction
    BY <2>1 DEF Rises, NoPrediction
  <2>2. CASE \E days \in Int : /\ days >= Days(cert.not_after - now)
                               /\ prediction = Predicted(history, days)
    BY <2>2, Parts, Milder DEF Predict
  <2> QED
    BY <2>1, <2>2 DEF Foreseen
<1> QED
  BY <1>1, Invariant, PTL DEF Spec, RiskOnlyRises

-----------------------------------------------------------------------------
(* The detector *)

\* The rules look only at the fields that are present.
THEOREM DetectorKeepsToPresent == Spec => []AbsentFieldsIgnored
<1>1. TypeOK => AbsentFieldsIgnored
  <2> SUFFICES ASSUME NEW d \in Certs, NEW pause \in 0 .. MaxPause, Agree(cert, d)
               PROVE  Detect(cert, now, now + pause) = Detect(d, now, now + pause)
    BY DEF AbsentFieldsIgnored
  <2>1. \A fields : Has(cert, fields) <=> Has(d, fields)
    BY DEF Has, Agree
  <2>2. /\ "not_before" \in cert.present => cert.not_before = d.not_before
        /\ "not_after" \in cert.present => cert.not_after = d.not_after
        /\ "key_algorithm" \in cert.present => cert.key_algorithm = d.key_algorithm
        /\ "key_size" \in cert.present => cert.key_size = d.key_size
        /\ "sans" \in cert.present => cert.sans = d.sans
    BY DEF Agree
  <2>3. PolicyViolation(cert) <=> PolicyViolation(d)
    BY <2>1, <2>2 DEF PolicyViolation, Has
  <2>4. WeakCryptography(cert) <=> WeakCryptography(d)
    BY <2>1, <2>2 DEF WeakCryptography, Has
  <2>5. SniMismatch(cert) <=> SniMismatch(d)
    BY <2>1, <2>2 DEF SniMismatch, Has, Agree
  <2>6. Expired(cert, now) <=> Expired(d, now)
    BY <2>1, <2>2 DEF Expired, Has
  <2>7. NearExpiry(cert, now + pause) <=> NearExpiry(d, now + pause)
    BY <2>1, <2>2 DEF NearExpiry, Has
  <2> QED
    BY <2>3, <2>4, <2>5, <2>6, <2>7 DEF Detect
<1> QED
  BY <1>1, TypeCorrect, PTL

\* A due certificate is reported as expired or as about to, and never as both.
THEOREM DueIsReported == Spec => []ExpiryFlagged
<1>1. TypeOK => ExpiryFlagged
  <2> SUFFICES ASSUME TypeOK, NEW pause \in 0 .. MaxPause
               PROVE  /\ ~(Expired(cert, now) /\ NearExpiry(cert, now + pause))
                      /\ Has(cert, {"not_after"})
                           /\ Days(cert.not_after - now) < NearExpiryDays
                           => \/ Expired(cert, now) \/ NearExpiry(cert, now + pause)
                              \/ cert.not_after - now \in 0 .. pause
    BY DEF ExpiryFlagged, Detect
  <2>1. pause \in Nat /\ NearExpiryDays \in Nat
    BY AssessmentAssumption, RulesAssumption
  <2>2. Days(cert.not_after - (now + pause)) <= Days(cert.not_after - now)
    BY <2>1, Parts, DaysMonotone
  <2>3. /\ Days(cert.not_after - (now + pause)) \in Int
        /\ Days(cert.not_after - now) \in Int
    BY <2>1, Parts, DaysType
  <2> QED
    BY <2>1, <2>2, <2>3, Parts DEF Expired, NearExpiry
<1> QED
  BY <1>1, TypeCorrect, PTL

-----------------------------------------------------------------------------
(* Classifier *)

\* Metadata are those of the event, and a verdict is the one of the metadata.
ClassifierInv ==
  /\ event \in Events
  /\ metadata = NoMetadata \/ metadata = Processed(event)
  /\ verdict.class = "shadow" =>
       /\ metadata \in {Extracted(event), Partial(event)}
       /\ verdict.risk = RiskLevel(metadata, judgedAt)

-----------------------------------------------------------------------------
(* What is extracted *)

LEMMA ExtractedPresent ==
  ASSUME NEW e
  PROVE  /\ {"not_before", "not_after", "key_algorithm"} \subseteq Extracted(e).present
         /\ "key_size" \in Extracted(e).present <=> Extracted(e).key_size > 0
         /\ Extracted(e).key_size = KeySize(e.cert.key)
  BY DEF Extracted

LEMMA PartialPresent ==
  ASSUME NEW e
  PROVE  /\ Partial(e).present = {"chain_depth"}
         /\ Partial(e).subject = Partial(e).issuer
  BY DEF Partial

LEMMA NothingYet ==
  ASSUME NEW e
  PROVE  NoMetadata \notin {Extracted(e), Partial(e)}
<1>1. NoMetadata.present = {}
  BY DEF NoMetadata
<1> QED
  BY <1>1, ExtractedPresent, PartialPresent

LEMMA ProcessedCases ==
  ASSUME NEW e
  PROVE  Processed(e) \in {Malformed, Extracted(e), Partial(e)}
  BY DEF Processed

-----------------------------------------------------------------------------

LEMMA ClassifierInitially == ClassifierInit => ClassifierInv
<1> SUFFICES ASSUME ClassifierInit PROVE ClassifierInv
  OBVIOUS
<1>1. verdict.class = "none"
  BY DEF ClassifierInit, NoVerdict
<1> QED
  BY <1>1 DEF ClassifierInit, ClassifierInv

LEMMA ClassifierInductive == ClassifierInv /\ [ClassifierNext]_classifierVars => ClassifierInv'
<1> SUFFICES ASSUME ClassifierInv, [ClassifierNext]_classifierVars PROVE ClassifierInv'
  OBVIOUS
<1>1. CASE UNCHANGED classifierVars
  BY <1>1 DEF ClassifierInv, classifierVars
<1>2. CASE Receive
  <2>1. verdict.class # "shadow"
    BY <1>2, NothingYet DEF Receive, ClassifierInv
  <2> QED
    BY <1>2, <2>1 DEF Receive, Process, ClassifierInv
<1>3. CASE Classify
  <2>1. PICK available \in BOOLEAN, known \in BOOLEAN, time \in Times :
          /\ metadata \notin {NoMetadata, Malformed}
          /\ verdict' = Classified(metadata, available, known, time)
          /\ judgedAt' = time /\ event' = event /\ metadata' = metadata
    BY <1>3 DEF Classify
  <2>2. metadata \in {Extracted(event), Partial(event)}
    BY <2>1, ProcessedCases DEF ClassifierInv
  <2>3. verdict'.class = "shadow" => verdict'.risk = RiskLevel(metadata, time)
    BY <2>1 DEF Classified
  <2> QED
    BY <2>1, <2>2, <2>3 DEF ClassifierInv
<1> QED
  BY <1>1, <1>2, <1>3 DEF ClassifierNext

-----------------------------------------------------------------------------
(* The two copies of the rules *)

\* What the detector finds.
LEMMA Found ==
  ASSUME NEW m, NEW time
  PROVE  LET found == Detect(m, time, time)
         IN  /\ "weak" \in found <=> WeakCryptography(m)
             /\ "policy" \in found <=> PolicyViolation(m)
             /\ "near" \in found <=> NearExpiry(m, time)
  BY DEF Detect

\* What a level of risk stands for.
LEMMA Levels ==
  ASSUME NEW m, NEW time
  PROVE  /\ RiskLevel(m, time) \in {Low, Medium, High, Critical}
         /\ RiskLevel(m, time) = Critical <=> IsSelfSigned(m) \/ HasWeakKey(m)
         /\ RiskLevel(m, time) >= High <=>
              \/ RiskLevel(m, time) = Critical
              \/ HasUntrustedIssuer(m) \/ HasLongValidity(m)
         /\ RiskLevel(m, time) >= Medium <=>
              RiskLevel(m, time) >= High \/ HasNearExpiry(m, time)
  BY DEF RiskLevel, Low, Medium, High, Critical

LEMMA Agreement == ClassifierInv => RulesAgree
<1> SUFFICES ASSUME ClassifierInv, verdict.class = "shadow" PROVE RulesAgree
  BY DEF RulesAgree
<1> DEFINE m == metadata
           time == judgedAt
           found == Detect(m, time, time)
<1>1. verdict.risk = RiskLevel(m, time) /\ m \in {Extracted(event), Partial(event)}
  BY DEF ClassifierInv
<1>2. WeakCryptography(m) => HasWeakKey(m)
  BY DEF WeakCryptography, HasWeakKey
<1>3. PolicyViolation(m) => HasLongValidity(m)
  BY DEF PolicyViolation, HasLongValidity
<1>4. NearExpiry(m, time) => HasNearExpiry(m, time)
  BY DEF NearExpiry, HasNearExpiry
<1>5. CASE m = Extracted(event)
  <2>1. {"not_before", "not_after", "key_algorithm"} \subseteq m.present
    BY <1>5, ExtractedPresent
  <2>2. HasWeakKey(m) => WeakCryptography(m) \/ "key_size" \notin m.present
    BY <2>1 DEF WeakCryptography, HasWeakKey, Has
  <2>3. HasLongValidity(m) => PolicyViolation(m)
    BY <2>1 DEF PolicyViolation, HasLongValidity, Has
  <2>4. HasNearExpiry(m, time) => NearExpiry(m, time)
    BY <2>1 DEF NearExpiry, HasNearExpiry, Has
  <2> QED
    BY <1>1, <1>2, <1>3, <1>4, <2>2, <2>3, <2>4, Found, Levels
      DEF RulesAgree, Low, Medium, High, Critical
<1>6. CASE m = Partial(event)
  <2>1. IsSelfSigned(m)
    BY <1>6, PartialPresent DEF IsSelfSigned
  <2> QED
    BY <1>1, <2>1, Levels DEF RulesAgree, Low, Medium, High, Critical
<1> QED
  BY <1>1, <1>5, <1>6

\* shadow.rs and anomaly.rs: the risk of a shadow certificate agrees with what the
\* detector reports of it, for every event, policy and clock.
THEOREM RiskMatchesRules == ClassifierSpec => []RulesAgree
<1>1. ClassifierInit => ClassifierInv
  BY ClassifierInitially
<1>2. ClassifierInv /\ [ClassifierNext]_classifierVars => ClassifierInv'
  BY ClassifierInductive
<1>3. ClassifierInv => RulesAgree
  BY Agreement
<1> QED
  BY <1>1, <1>2, <1>3, PTL DEF ClassifierSpec

-----------------------------------------------------------------------------
(* Sizes of keys *)

\* The length of an RSA key by the number of bytes of its modulus.
LEMMA LengthOfRsa ==
  ASSUME NEW bits \in Nat
  PROVE  LET n == bits \div 8
         IN  /\ n \in Nat /\ 8 * n <= bits /\ bits < 8 * n + 8
             /\ n <= 119 => RsaLength(bits) = n + 10
             /\ n \in 120 .. 126 => RsaLength(bits) = n + 11
             /\ n \in 127 .. 246 => RsaLength(bits) = n + 12
             /\ n \in 247 .. 254 => RsaLength(bits) = n + 13
             /\ n >= 255 => RsaLength(bits) = n + 14
  BY DEF RsaLength, Encoded, Header

LEMMA EstimateIsClose ==
  ASSUME NEW bits \in Nat
  PROVE  LET size == EstimateRsa(RsaLength(bits))
         IN  /\ \A s \in StandardSizes : bits >= s => size >= s
             /\ size <= bits + 112
<1> DEFINE n == bits \div 8
           length == RsaLength(bits)
<1>1. /\ n \in Nat /\ 8 * n <= bits /\ bits < 8 * n + 8
      /\ n <= 119 => length = n + 10
      /\ n \in 120 .. 126 => length = n + 11
      /\ n \in 127 .. 246 => length = n + 12
      /\ n \in 247 .. 254 => length = n + 13
      /\ n >= 255 => length = n + 14
  BY LengthOfRsa
<1> HIDE DEF n, length
<1>2. length \in Nat
  BY <1>1
<1>3. /\ length >= 512 => EstimateRsa(length) = 4096
      /\ length \in 384 .. 511 => EstimateRsa(length) = 3072
      /\ length \in 256 .. 383 => EstimateRsa(length) = 2048
      /\ length \in 128 .. 255 => EstimateRsa(length) = 1024
      /\ length < 128 => EstimateRsa(length) = length * 8
  BY <1>2 DEF EstimateRsa
<1>4. ASSUME NEW s \in StandardSizes, bits >= s PROVE EstimateRsa(length) >= s
  BY <1>1, <1>2, <1>3, <1>4 DEF StandardSizes
<1>5. EstimateRsa(length) <= bits + 112
  BY <1>1, <1>2, <1>3
<1> QED
  BY <1>4, <1>5 DEF length

\* estimate_rsa_key_size (event_processor.rs): no RSA key, whatever its size, is rated
\* below a standard size it has, or more than 112 bits above its own.
THEOREM KeySizesAreClose == ClassifierSpec => []KeySizeIsClose
<1>1. ClassifierInv => KeySizeIsClose
  <2> SUFFICES ASSUME ClassifierInv, event.cert.key.algorithm = "RSA",
                      metadata.present \notin {{}, {"malformed"}, {"chain_depth"}}
               PROVE  LET bits == event.cert.key.bits
                      IN  /\ \A s \in StandardSizes : bits >= s => metadata.key_size >= s
                          /\ metadata.key_size <= bits + 112
    BY DEF KeySizeIsClose
  <2>1. event.cert.key.bits \in Nat
    BY ExtractionAssumption DEF ClassifierInv
  <2>2. metadata \notin {NoMetadata, Malformed, Partial(event)}
    BY PartialPresent DEF NoMetadata, Malformed
  <2>3. metadata = Extracted(event)
    BY <2>2, ProcessedCases DEF ClassifierInv
  <2>4. metadata.key_size = EstimateRsa(RsaLength(event.cert.key.bits))
    BY <2>3, ExtractedPresent DEF KeySize
  <2> QED
    BY <2>1, <2>4, EstimateIsClose
<1> QED
  BY <1>1, ClassifierInitially, ClassifierInductive, PTL DEF ClassifierSpec

-----------------------------------------------------------------------------
(* Analyzer *)

Places == {"idle", "mode", "infer", "enter", "done"}

Errors == {"", "in fallback", "no session", "error", "timeout"}
Answers == [rules : BOOLEAN, ai : BOOLEAN, error : Errors]
Evaluations == [pc : Places, answer : Answers]

TaskType == task \in [Tasks -> Evaluations]

\* What an evaluation has in hand at its place.
InHand(t) ==
  LET pc == task[t].pc
      answer == task[t].answer
  IN  /\ pc # "idle" => answer.rules
      /\ pc \in {"mode", "infer"} => ~answer.ai /\ answer.error = ""
      /\ pc = "enter" => ~answer.ai /\ answer.error # ""
      /\ pc = "done" /\ answer.error # "" => InFallback
      /\ t \in late /\ pc # "idle" =>
           InFallback /\ ~answer.ai /\ pc \in {"mode", "done"}

AnalyzerInv == TaskType /\ \A t \in Tasks : InHand(t)

-----------------------------------------------------------------------------

LEMMA IdleType == Idle \in Evaluations /\ NoAnswer \in Answers
<1>1. NoAnswer \in Answers
  BY DEF NoAnswer, Answers, Errors
<1> QED
  BY <1>1 DEF Idle, Evaluations, Places

LEMMA AnalyzerInitially == AnalyzerInit => AnalyzerInv
<1> SUFFICES ASSUME AnalyzerInit PROVE AnalyzerInv
  OBVIOUS
<1>1. TaskType
  BY IdleType DEF AnalyzerInit, TaskType
<1>2. ASSUME NEW t \in Tasks PROVE InHand(t)
  <2>1. task[t].pc = "idle"
    BY DEF AnalyzerInit, Idle
  <2> QED
    BY <2>1 DEF InHand
<1> QED
  BY <1>1, <1>2 DEF AnalyzerInv

\* A new record for one evaluation.
LEMMA OneChanges ==
  ASSUME TaskType, NEW t \in Tasks, NEW e \in Evaluations,
         task' = [task EXCEPT ![t] = e]
  PROVE  TaskType' /\ task'[t] = e /\ \A u \in Tasks : u # t => task'[u] = task[u]
  BY DEF TaskType

LEMMA GotoChanges ==
  ASSUME TaskType, NEW t \in Tasks, NEW pc \in Places, Goto(t, pc)
  PROVE  /\ TaskType' /\ task'[t].pc = pc /\ task'[t].answer = task[t].answer
         /\ \A u \in Tasks : u # t => task'[u] = task[u]
<1> DEFINE e == [task[t] EXCEPT !.pc = pc]
<1>1. task[t] \in Evaluations
  BY DEF TaskType
<1>2. e \in Evaluations /\ e.pc = pc /\ e.answer = task[t].answer
  BY <1>1 DEF Evaluations
<1>3. task' = [task EXCEPT ![t] = e]
  BY DEF Goto, TaskType
<1> QED
  BY <1>2, <1>3, OneChanges

LEMMA FailsChanges ==
  ASSUME TaskType, NEW t \in Tasks, NEW pc \in Places, NEW error \in Errors,
         Fails(t, pc, error)
  PROVE  /\ TaskType' /\ task'[t].pc = pc
         /\ task'[t].answer = [task[t].answer EXCEPT !.error = error]
         /\ \A u \in Tasks : u # t => task'[u] = task[u]
<1> DEFINE a == [task[t].answer EXCEPT !.error = error]
           e == [task[t] EXCEPT !.pc = pc, !.answer = a]
<1>1. task[t] \in Evaluations /\ task[t].answer \in Answers
  BY DEF TaskType, Evaluations
<1>2. a \in Answers
  BY <1>1 DEF Answers
<1>3. e \in Evaluations /\ e.pc = pc /\ e.answer = a
  BY <1>1, <1>2 DEF Evaluations
<1>4. task' = [task EXCEPT ![t] = e]
  BY DEF Fails, TaskType
<1> QED
  BY <1>3, <1>4, OneChanges

\* No step leaves fallback or changes its reason.
LEMMA ReasonStays ==
  ASSUME TaskType, InFallback, [AnalyzerNext]_analyzerVars
  PROVE  reason' = reason
  BY DEF InFallback, AnalyzerNext, analyzerVars, Evaluate, ReadMode, Infer, EnterFallback, Answer

\* The invariant of the evaluations that a step of another one leaves alone.
LEMMA OthersKeep ==
  ASSUME NEW t \in Tasks, \A u \in Tasks : InHand(u), InHand(t)',
         \A u \in Tasks : u # t => task'[u] = task[u] /\ (u \in late' => u \in late),
         InFallback => InFallback'
  PROVE  \A u \in Tasks : InHand(u)'
<1>1. ASSUME NEW u \in Tasks, u # t
      PROVE  InHand(u)'
  <2>1. InHand(u) /\ task'[u] = task[u] /\ (u \in late' => u \in late)
    BY <1>1
  <2> QED
    BY <2>1 DEF InHand
<1> QED
  BY <1>1

LEMMA AnalyzerInductive ==
  ASSUME AnalyzerInv, [AnalyzerNext]_analyzerVars
  PROVE  AnalyzerInv'
<1> USE DEF AnalyzerInv
<1>1. CASE UNCHANGED analyzerVars
  BY <1>1 DEF analyzerVars, TaskType, InHand, InFallback
<1>2. ASSUME NEW t \in Tasks, Evaluate(t)
      PROVE  AnalyzerInv'
  <2> DEFINE e == [pc |-> "mode", answer |-> [NoAnswer EXCEPT !.rules = TRUE]]
  <2>1. /\ e \in Evaluations /\ e.pc = "mode"
        /\ e.answer.rules /\ ~e.answer.ai /\ e.answer.error = ""
    BY DEF NoAnswer, Evaluations, Answers, Errors, Places
  <2>2. task' = [task EXCEPT ![t] = e] /\ reason' = reason
        /\ late' = IF InFallback THEN late \cup {t} ELSE late \ {t}
    BY <1>2 DEF Evaluate
  <2> HIDE DEF e
  <2>3. TaskType' /\ task'[t] = e /\ \A u \in Tasks : u # t => task'[u] = task[u]
    BY <2>1, <2>2, OneChanges
  <2>4. InHand(t)'
    BY <2>1, <2>2, <2>3 DEF InHand, InFallback
  <2> QED
    BY <2>2, <2>3, <2>4, OthersKeep DEF InFallback
<1>3. ASSUME NEW t \in Tasks, ReadMode(t)
      PROVE  AnalyzerInv'
  <2>1. /\ task[t].pc = "mode" /\ reason' = reason /\ late' = late /\ InHand(t)
        /\ task[t].answer \in Answers
    BY <1>3 DEF ReadMode, TaskType, Evaluations
  <2>2. CASE InFallback
    <3>1. Fails(t, "done", "in fallback")
      BY <1>3, <2>2 DEF ReadMode
    <3>2. /\ TaskType' /\ task'[t].pc = "done"
          /\ task'[t].answer = [task[t].answer EXCEPT !.error = "in fallback"]
          /\ \A u \in Tasks : u # t => task'[u] = task[u]
      BY <3>1, FailsChanges DEF Places, Errors
    <3>3. InHand(t)'
      BY <2>1, <2>2, <3>2 DEF InHand, InFallback, Answers
    <3> QED
      BY <2>1, <3>2, <3>3, OthersKeep DEF InFallback
  <2>3. CASE ~InFallback /\ ~session
    <3>1. Fails(t, "enter", "no session")
      BY <1>3, <2>3 DEF ReadMode
    <3>2. /\ TaskType' /\ task'[t].pc = "enter"
          /\ task'[t].answer = [task[t].answer EXCEPT !.error = "no session"]
          /\ \A u \in Tasks : u # t => task'[u] = task[u]
      BY <3>1, FailsChanges DEF Places, Errors
    <3>3. InHand(t)'
      BY <2>1, <2>3, <3>2 DEF InHand, InFallback, Answers
    <3> QED
      BY <2>1, <3>2, <3>3, OthersKeep DEF InFallback
  <2>4. CASE ~InFallback /\ session
    <3>1. Goto(t, "infer")
      BY <1>3, <2>4 DEF ReadMode
    <3>2. /\ TaskType' /\ task'[t].pc = "infer" /\ task'[t].answer = task[t].answer
          /\ \A u \in Tasks : u # t => task'[u] = task[u]
      BY <3>1, GotoChanges DEF Places
    <3>3. task[t].answer.rules /\ ~task[t].answer.ai /\ task[t].answer.error = ""
          /\ t \notin late
      BY <2>1, <2>4 DEF InHand
    <3>4. InHand(t)'
      BY <2>1, <3>2, <3>3 DEF InHand
    <3> QED
      BY <2>1, <3>2, <3>4, OthersKeep DEF InFallback
  <2> QED
    BY <2>2, <2>3, <2>4
<1>4. ASSUME NEW t \in Tasks, Infer(t)
      PROVE  AnalyzerInv'
  <2>1. /\ task[t].pc = "infer" /\ reason' = reason /\ late' = late /\ InHand(t)
        /\ task[t] \in Evaluations /\ task[t].answer \in Answers
    BY <1>4 DEF Infer, TaskType, Evaluations
  <2>2. PICK outcome \in Outcomes :
          IF outcome = "ok"
          THEN task' = [task EXCEPT ![t].pc = "done", ![t].answer.ai = TRUE]
          ELSE Fails(t, "enter", outcome)
    BY <1>4 DEF Infer
  <2>3. CASE outcome = "ok"
    <3> DEFINE a == [task[t].answer EXCEPT !.ai = TRUE]
               e == [task[t] EXCEPT !.pc = "done", !.answer = a]
    <3>1. a \in Answers /\ a.rules = task[t].answer.rules /\ a.error = task[t].answer.error
      BY <2>1 DEF Answers
    <3>2. e \in Evaluations /\ e.pc = "done" /\ e.answer = a
      BY <2>1, <3>1 DEF Evaluations, Places
    <3>3. task' = [task EXCEPT ![t] = e]
      <4>1. task' = [task EXCEPT ![t].pc = "done", ![t].answer.ai = TRUE]
        BY <2>2, <2>3
      <4>2. task \in [Tasks -> Evaluations] /\ t \in Tasks
        BY DEF TaskType
      <4> QED
        BY <4>1, <4>2, Zenon
    <3>4. TaskType' /\ task'[t] = e /\ \A u \in Tasks : u # t => task'[u] = task[u]
      BY <3>2, <3>3, OneChanges
    <3>5. task[t].answer.rules /\ task[t].answer.error = "" /\ t \notin late
      BY <2>1 DEF InHand
    <3> HIDE DEF a, e
    <3>6. InHand(t)'
      BY <2>1, <3>1, <3>2, <3>4, <3>5 DEF InHand
    <3> QED
      BY <2>1, <3>4, <3>6, OthersKeep DEF InFallback
  <2>4. CASE outcome # "ok"
    <3>1. Fails(t, "enter", outcome) /\ outcome \in Errors /\ outcome # ""
      BY <2>2, <2>4, AnalyzerAssumption DEF Errors
    <3>2. /\ TaskType' /\ task'[t].pc = "enter"
          /\ task'[t].answer = [task[t].answer EXCEPT !.error = outcome]
          /\ \A u \in Tasks : u # t => task'[u] = task[u]
      BY <3>1, FailsChanges DEF Places
    <3>3. InHand(t)'
      BY <2>1, <3>1, <3>2 DEF InHand, Answers
    <3> QED
      BY <2>1, <3>2, <3>3, OthersKeep DEF InFallback
  <2> QED
    BY <2>3, <2>4
<1>5. ASSUME NEW t \in Tasks, EnterFallback(t)
      PROVE  AnalyzerInv'
  <2>1. task[t].pc = "enter" /\ Goto(t, "done") /\ late' = late /\ InHand(t)
    BY <1>5 DEF EnterFallback
  <2>2. InFallback'
    BY <1>5, <2>1 DEF EnterFallback, InHand, InFallback
  <2>3. /\ TaskType' /\ task'[t].pc = "done" /\ task'[t].answer = task[t].answer
        /\ \A u \in Tasks : u # t => task'[u] = task[u]
    BY <2>1, GotoChanges DEF Places
  <2>4. InHand(t)'
    BY <2>1, <2>2, <2>3 DEF InHand
  <2> QED
    BY <2>1, <2>2, <2>3, <2>4, OthersKeep
<1>6. ASSUME NEW t \in Tasks, Answer(t)
      PROVE  AnalyzerInv'
  <2>1. task' = [task EXCEPT ![t] = Idle] /\ reason' = reason /\ late' = late
    BY <1>6 DEF Answer
  <2>2. TaskType' /\ task'[t] = Idle /\ \A u \in Tasks : u # t => task'[u] = task[u]
    BY <2>1, IdleType, OneChanges
  <2>3. task'[t].pc = "idle"
    BY <2>2 DEF Idle
  <2>4. InHand(t)'
    BY <2>3 DEF InHand
  <2> QED
    BY <2>1, <2>2, <2>4, OthersKeep DEF InFallback
<1> QED
  BY <1>1, <1>2, <1>3, <1>4, <1>5, <1>6 DEF AnalyzerNext

\* What FallbackHolds asks of a step.
Holds ==
  /\ InFallback => reason' = reason
  /\ \A t \in Tasks :
       task'[t].pc = "done" => /\ task'[t].answer.rules
                               /\ task'[t].answer.ai => t \notin late'
                               /\ task'[t].answer.error # "" => reason' # ""

LEMMA StepHolds ==
  ASSUME AnalyzerInv, AnalyzerInv', [AnalyzerNext]_analyzerVars
  PROVE  Holds
  BY ReasonStays DEF AnalyzerInv, InHand, InFallback, Holds

\* AiBackend (ai_backend.rs): fallback is never left and keeps the first reason, an
\* evaluation begun in it gets nothing from the model, and every answer has the
\* anomalies of the rules; for any number of tasks.
THEOREM FallbackStays == AnalyzerSpec => FallbackHolds
<1>1. AnalyzerInit => AnalyzerInv
  BY AnalyzerInitially
<1>2. AnalyzerInv /\ [AnalyzerNext]_analyzerVars => AnalyzerInv'
  BY AnalyzerInductive
<1>3. AnalyzerInv /\ AnalyzerInv' /\ [AnalyzerNext]_analyzerVars => [Holds]_analyzerVars
  BY StepHolds
<1>4. AnalyzerSpec => [][Holds]_analyzerVars
  BY <1>1, <1>2, <1>3, PTL DEF AnalyzerSpec
<1> QED
  BY <1>4 DEF FallbackHolds, Holds

-----------------------------------------------------------------------------
(* Sums over finite sets *)

\* Induction over data goes by the smallest counterexample: every nonempty set of
\* numbers has a least one, and every nonempty set of subsets of a finite set has a
\* smallest.
LEMMA LeastNat ==
  ASSUME NEW T \in SUBSET Nat, T # {}
  PROVE  \E n \in T : \A m \in T : n <= m
<1> DEFINE R == OpToRel(<, Nat)
<1>1. R = {ss \in Nat \X Nat : ss[1] < ss[2]}
  BY Zenon DEF OpToRel
<1>2. IsWellFoundedOn(R, Nat)
  BY NatLessThanWellFounded, Zenon
<1> HIDE DEF R
<1>3. \A m, n \in Nat : m < n => <<m, n>> \in R
  BY <1>1
<1>4. \E n \in T : \A m \in T : ~ (<<m, n>> \in R)
  BY <1>2, WFMin, Zenon
<1>5. PICK n \in T : \A m \in T : ~ (<<m, n>> \in R)
  BY <1>4, Zenon
<1>6. ASSUME NEW m \in T PROVE n <= m
  <2>1. m \in Nat /\ n \in Nat
    OBVIOUS
  <2>2. ~(m < n)
    BY <1>3, <1>5, <2>1, Zenon
  <2> QED
    BY <2>1, <2>2
<1> QED
  BY <1>6, Zenon

LEMMA SmallestSet ==
  ASSUME NEW S, IsFiniteSet(S), NEW T \in SUBSET SUBSET S, T # {}
  PROVE  \E s \in T : \A t \in T : t \subseteq s => t = s
<1> DEFINE R == StrictSubsetOrdering(S)
<1>1. IsWellFoundedOn(R, SUBSET S)
  BY FS_StrictSubsetOrderingWellFounded, FS_FiniteSubsetsOfFinite, Zenon
<1> HIDE DEF R
<1>2. \E s \in T : \A t \in T : ~ (<<t, s>> \in R)
  BY <1>1, WFMin, Zenon
<1> QED
  BY <1>2 DEF R, StrictSubsetOrdering

\* The element with which the fold of SumFunctionOnSet begins.
Pick(s) == CHOOSE x \in s : TRUE

\* What that fold chooses: it gives every subset of S its sum.
Adds(it, f, S) ==
  it = [s \in SUBSET S |-> IF s = {} THEN 0 ELSE f[Pick(s)] + it[s \ {Pick(s)}]]

LEMMA PickIsIn ==
  ASSUME NEW s, s # {}
  PROVE  Pick(s) \in s
BY Zenon DEF Pick

LEMMA SumIsChosen ==
  ASSUME NEW f, NEW S
  PROVE  SumFunctionOnSet(f, S) = (CHOOSE it : Adds(it, f, S))[S]
BY Zenon DEF SumFunctionOnSet, FoldFunctionOnSet, MapThenFoldSet, Adds, Pick

\* There is such a function, built up by the size of the sets.
LEMMA SumExists ==
  ASSUME NEW S, IsFiniteSet(S), NEW f, \A x \in S : f[x] \in Int
  PROVE  \E it : Adds(it, f, S)
<1> DEFINE Rest(s) == s \ {Pick(s)}
           Step(it, s) == IF s = {} THEN 0 ELSE f[Pick(s)] + it[Rest(s)]
           UpTo(n) == \E it \in [SUBSET S -> Int] :
                        \A s \in SUBSET S : Cardinality(s) <= n => it[s] = Step(it, s)
           Bad == {n \in Nat : ~UpTo(n)}
<1>1. \A s \in SUBSET S :
        /\ IsFiniteSet(s) /\ Cardinality(s) \in Nat /\ Cardinality(s) <= Cardinality(S)
        /\ s # {} => /\ Pick(s) \in S /\ Rest(s) \in SUBSET S
                     /\ Cardinality(Rest(s)) = Cardinality(s) - 1
  <2> TAKE s \in SUBSET S
  <2>1. IsFiniteSet(s) /\ Cardinality(s) \in Nat /\ Cardinality(s) <= Cardinality(S)
    BY FS_Subset, FS_CardinalityType, Zenon
  <2>2. ASSUME s # {}
        PROVE /\ Pick(s) \in S /\ Rest(s) \in SUBSET S
              /\ Cardinality(Rest(s)) = Cardinality(s) - 1
    <3>1. Pick(s) \in s
      BY <2>2, PickIsIn
    <3> QED
      BY <2>1, <3>1, FS_RemoveElement
  <2> QED
    BY <2>1, <2>2
<1>2. UpTo(0)
  <2> DEFINE it == [s \in SUBSET S |-> 0]
  <2>1. ASSUME NEW s \in SUBSET S, Cardinality(s) <= 0
        PROVE  s = {}
    <3> HIDE DEF Rest
    <3>1. Cardinality(s) \in Nat
      BY <1>1, Zenon
    <3>2. Cardinality(s) = 0
      BY <2>1, <3>1
    <3> QED
      BY <1>1, <3>2, FS_EmptySet, Zenon
  <2>2. it \in [SUBSET S -> Int]
    OBVIOUS
  <2>3. \A s \in SUBSET S : Cardinality(s) <= 0 => it[s] = Step(it, s)
    BY <2>1
  <2> QED
    BY <2>2, <2>3
<1>3. ASSUME NEW n \in Nat, UpTo(n)
      PROVE  UpTo(n + 1)
  <2>1. PICK it \in [SUBSET S -> Int] :
          \A s \in SUBSET S : Cardinality(s) <= n => it[s] = Step(it, s)
    BY <1>3, Zenon
  <2> DEFINE more == [s \in SUBSET S |-> Step(it, s)]
  <2>2. more \in [SUBSET S -> Int]
    <3> SUFFICES ASSUME NEW s \in SUBSET S PROVE Step(it, s) \in Int
      OBVIOUS
    <3> QED
      BY <1>1, SMTT(30)
  <2>3. \A s \in SUBSET S : Cardinality(s) <= n => more[s] = it[s]
    BY <2>1
  <2>4. ASSUME NEW s \in SUBSET S, Cardinality(s) <= n + 1
        PROVE  more[s] = Step(more, s)
    <3>1. CASE s = {}
      BY <3>1
    <3>2. CASE s # {}
      <4>1. Rest(s) \in SUBSET S /\ Cardinality(Rest(s)) <= n
        BY <1>1, <2>4, <3>2
      <4>2. more[Rest(s)] = it[Rest(s)]
        BY <2>3, <4>1
      <4> QED
        BY <4>2
    <3> QED
      BY <3>1, <3>2
  <2> QED
    BY <2>2, <2>4
<1>4. \A n \in Nat : UpTo(n)
  <2> HIDE DEF UpTo
  <2>1. SUFFICES ASSUME Bad # {} PROVE FALSE
    OBVIOUS
  <2>2. PICK n \in Bad : \A m \in Bad : n <= m
    <3>1. Bad \in SUBSET Nat
      OBVIOUS
    <3> HIDE DEF Bad
    <3> QED
      BY <2>1, <3>1, LeastNat
  <2>3. n \in Nat /\ n # 0
    BY <1>2
  <2>4. n - 1 \in Nat /\ n - 1 \notin Bad
    BY <2>2, <2>3
  <2>5. UpTo((n - 1) + 1)
    BY <1>3, <2>4
  <2> QED
    BY <2>3, <2>5
<1>5. PICK it \in [SUBSET S -> Int] :
        \A s \in SUBSET S : Cardinality(s) <= Cardinality(S) => it[s] = Step(it, s)
  BY <1>4, FS_CardinalityType, Zenon
<1>6. \A s \in SUBSET S : it[s] = Step(it, s)
  BY <1>1, <1>5
<1>7. it = [s \in SUBSET S |-> Step(it, s)]
  BY <1>6
<1> QED
  BY <1>7, Zenon DEF Adds

\* Sums of numbers: what Adds says, with the types.
Sums(it, f, S) ==
  /\ it \in [SUBSET S -> Int] /\ it[{}] = 0
  /\ \A s \in SUBSET S : s # {} => it[s] = f[Pick(s)] + it[s \ {Pick(s)}]

\* So the sum is the value of a function that has the equation of the recursion.
LEMMA SumUnfolds ==
  ASSUME NEW S, IsFiniteSet(S), NEW f, \A x \in S : f[x] \in Int
  PROVE  \E it : Sums(it, f, S) /\ SumFunctionOnSet(f, S) = it[S]
<1> DEFINE it == CHOOSE g : Adds(g, f, S)
<1>1. Adds(it, f, S)
  BY SumExists, Zenon
<1>2. SumFunctionOnSet(f, S) = it[S]
  BY SumIsChosen, Zenon
<1> HIDE DEF it
<1>3. /\ it = [s \in SUBSET S |-> it[s]]
      /\ it[{}] = 0
      /\ \A s \in SUBSET S : s # {} => it[s] = f[Pick(s)] + it[s \ {Pick(s)}]
  BY <1>1 DEF Adds
<1>4. \A s \in SUBSET S : it[s] \in Int
  <2> DEFINE Bad == {s \in SUBSET S : it[s] \notin Int}
  <2>1. SUFFICES ASSUME Bad # {} PROVE FALSE
    OBVIOUS
  <2>2. Bad \in SUBSET SUBSET S
    OBVIOUS
  <2> HIDE DEF Bad
  <2>3. \E s \in Bad : \A t \in Bad : t \subseteq s => t = s
    BY <2>1, <2>2, SmallestSet
  <2>4. PICK s \in Bad : \A t \in Bad : t \subseteq s => t = s
    BY <2>3, Zenon
  <2>5. s \in SUBSET S /\ it[s] \notin Int
    BY DEF Bad
  <2>6. s # {}
    <3>1. it[{}] \in Int
      BY <1>3
    <3> QED
      BY <2>5, <3>1, Zenon
  <2>7. Pick(s) \in s
    BY <2>6, PickIsIn, Zenon
  <2>8. s \ {Pick(s)} \notin Bad /\ s \ {Pick(s)} \in SUBSET S
    BY <2>4, <2>5, <2>7
  <2>9. it[s \ {Pick(s)}] \in Int
    BY <2>8 DEF Bad
  <2>10. it[s] = f[Pick(s)] + it[s \ {Pick(s)}] /\ f[Pick(s)] \in Int
    BY <1>3, <2>5, <2>6, <2>7
  <2> QED
    BY <2>5, <2>9, <2>10
<1>5. it \in [SUBSET S -> Int]
  BY <1>3, <1>4
<1>6. Sums(it, f, S)
  BY <1>3, <1>5, Zenon DEF Sums
<1> QED
  BY <1>2, <1>6, Zenon

\* The sum depends on nothing but the values in the set.
LEMMA SumsAgree ==
  ASSUME NEW S, IsFiniteSet(S), NEW T, S \subseteq T, NEW f, NEW g,
         \A x \in S : f[x] = g[x],
         NEW it, Sums(it, f, S), NEW jt, Sums(jt, g, T)
  PROVE  it[S] = jt[S]
<1> DEFINE Bad == {s \in SUBSET S : it[s] # jt[s]}
<1>1. SUFFICES ASSUME Bad # {} PROVE FALSE
  OBVIOUS
<1>2. Bad \in SUBSET SUBSET S
  OBVIOUS
<1> HIDE DEF Bad
<1>3. \E s \in Bad : \A t \in Bad : t \subseteq s => t = s
  BY <1>1, <1>2, SmallestSet
<1>4. PICK s \in Bad : \A t \in Bad : t \subseteq s => t = s
  BY <1>3, Zenon
<1>5. s \in SUBSET S /\ s \in SUBSET T /\ it[s] # jt[s]
  BY DEF Bad
<1>6. s # {}
  <2>1. it[{}] = jt[{}]
    BY Zenon DEF Sums
  <2> QED
    BY <1>5, <2>1, Zenon
<1>7. Pick(s) \in s
  BY <1>6, PickIsIn, Zenon
<1>8. s \ {Pick(s)} \notin Bad /\ s \ {Pick(s)} \in SUBSET S
  BY <1>4, <1>5, <1>7
<1>9. it[s \ {Pick(s)}] = jt[s \ {Pick(s)}]
  BY <1>8, Zenon DEF Bad
<1>10. /\ it[s] = f[Pick(s)] + it[s \ {Pick(s)}]
       /\ jt[s] = g[Pick(s)] + jt[s \ {Pick(s)}]
  BY <1>5, <1>6, Zenon DEF Sums
<1>11. f[Pick(s)] = g[Pick(s)]
  BY <1>5, <1>7
<1> QED
  BY <1>5, <1>9, <1>10, <1>11, Zenon

\* The sum of numbers is a number.
LEMMA SumType ==
  ASSUME NEW S, IsFiniteSet(S), NEW f, \A x \in S : f[x] \in Int
  PROVE  SumFunctionOnSet(f, S) \in Int
<1>1. PICK it : Sums(it, f, S) /\ SumFunctionOnSet(f, S) = it[S]
  BY SumUnfolds, Zenon
<1> QED
  BY <1>1 DEF Sums

\* Functions that agree have the same sum.
LEMMA SameSum ==
  ASSUME NEW S, IsFiniteSet(S), NEW f, NEW g, \A x \in S : f[x] \in Int /\ f[x] = g[x]
  PROVE  SumFunctionOnSet(f, S) = SumFunctionOnSet(g, S)
<1>1. \A x \in S : g[x] \in Int
  OBVIOUS
<1>2. PICK it : Sums(it, f, S) /\ SumFunctionOnSet(f, S) = it[S]
  BY SumUnfolds, Zenon
<1>3. PICK jt : Sums(jt, g, S) /\ SumFunctionOnSet(g, S) = jt[S]
  BY <1>1, SumUnfolds, Zenon
<1>4. it[S] = jt[S]
  BY <1>2, <1>3, SumsAgree
<1> QED
  BY <1>2, <1>3, <1>4, Zenon

\* Any element may be the one that is added last.
LEMMA AnyOrder ==
  ASSUME NEW S, IsFiniteSet(S), NEW f, \A x \in S : f[x] \in Int,
         NEW it, Sums(it, f, S), NEW u \in SUBSET S, NEW b \in u
  PROVE  it[u] = it[u \ {b}] + f[b]
<1> DEFINE Good(s) == \A a \in s : it[s] = it[s \ {a}] + f[a]
           Bad == {s \in SUBSET S : ~Good(s)}
<1>1. SUFFICES ASSUME Bad # {} PROVE FALSE
  OBVIOUS
<1>2. Bad \in SUBSET SUBSET S
  OBVIOUS
<1> HIDE DEF Bad
<1>3. \E s \in Bad : \A t \in Bad : t \subseteq s => t = s
  BY <1>1, <1>2, SmallestSet
<1>4. PICK s \in Bad : \A t \in Bad : t \subseteq s => t = s
  BY <1>3, Zenon
<1>5. s \in SUBSET S /\ ~Good(s)
  BY DEF Bad
<1>6. PICK a \in s : it[s] # it[s \ {a}] + f[a]
  BY <1>5
<1> DEFINE x == Pick(s)
<1>7. x \in s
  BY <1>6, PickIsIn
<1>8. it[s] = f[x] + it[s \ {x}]
  BY <1>5, <1>6 DEF Sums
<1> HIDE DEF x
<1>9. /\ s \ {x} \in SUBSET S /\ s \ {a} \in SUBSET S /\ (s \ {x}) \ {a} \in SUBSET S
      /\ f[x] \in Int /\ f[a] \in Int
      /\ \A t \in SUBSET S : it[t] \in Int
  BY <1>5, <1>7 DEF Sums
<1>10. it[s \ {x}] \in Int /\ it[s \ {a}] \in Int /\ it[(s \ {x}) \ {a}] \in Int
  BY <1>9
<1>11. x # a
  <2>1. SUFFICES ASSUME x = a PROVE FALSE
    OBVIOUS
  <2>2. it[s] = f[a] + it[s \ {a}]
    BY <1>8, <2>1, Zenon
  <2> QED
    BY <1>6, <1>9, <1>10, <2>2
<1>12. Good(s \ {x}) /\ Good(s \ {a})
  <2>1. s \ {x} \notin Bad /\ s \ {a} \notin Bad
    BY <1>4, <1>7
  <2> QED
    BY <1>9, <2>1 DEF Bad
<1>13. a \in s \ {x} /\ x \in s \ {a} /\ (s \ {a}) \ {x} = (s \ {x}) \ {a}
  BY <1>7, <1>11
<1>14. /\ it[s \ {x}] = it[(s \ {x}) \ {a}] + f[a]
       /\ it[s \ {a}] = it[(s \ {x}) \ {a}] + f[x]
  BY <1>12, <1>13, Zenon
<1> QED
  BY <1>6, <1>8, <1>9, <1>10, <1>14

\* One element more or less.
LEMMA SumAdds ==
  ASSUME NEW S, IsFiniteSet(S), NEW f, \A x \in S : f[x] \in Int, NEW a \in S
  PROVE  SumFunctionOnSet(f, S) = SumFunctionOnSet(f, S \ {a}) + f[a]
<1>1. PICK it : Sums(it, f, S) /\ SumFunctionOnSet(f, S) = it[S]
  BY SumUnfolds, Zenon
<1> DEFINE R == S \ {a}
<1>2. IsFiniteSet(R) /\ R \subseteq S /\ \A x \in R : f[x] \in Int
  BY FS_RemoveElement
<1> HIDE DEF R
<1>3. PICK jt : Sums(jt, f, R) /\ SumFunctionOnSet(f, R) = jt[R]
  BY <1>2, SumUnfolds, Zenon
<1>4. jt[R] = it[R]
  BY <1>1, <1>2, <1>3, SumsAgree
<1>5. it[S] = it[R] + f[a]
  <2>1. S \in SUBSET S
    OBVIOUS
  <2> QED
    BY <1>1, <2>1, AnyOrder DEF R
<1> QED
  BY <1>1, <1>3, <1>4, <1>5, Zenon DEF R

\* One value changes.
LEMMA SumChanges ==
  ASSUME NEW S, IsFiniteSet(S), NEW f, NEW g, NEW a \in S,
         \A x \in S : f[x] \in Int /\ g[x] \in Int, \A x \in S \ {a} : g[x] = f[x]
  PROVE  SumFunctionOnSet(g, S) = SumFunctionOnSet(f, S) - f[a] + g[a]
<1> DEFINE R == S \ {a}
<1>1. IsFiniteSet(R) /\ \A x \in R : g[x] \in Int /\ g[x] = f[x]
  BY FS_RemoveElement
<1>2. SumFunctionOnSet(f, S) = SumFunctionOnSet(f, R) + f[a]
  BY SumAdds
<1>3. SumFunctionOnSet(g, S) = SumFunctionOnSet(g, R) + g[a]
  BY SumAdds
<1> HIDE DEF R
<1>4. SumFunctionOnSet(g, R) = SumFunctionOnSet(f, R)
  BY <1>1, SameSum
<1>5. SumFunctionOnSet(g, R) \in Int
  BY <1>1, SumType
<1> QED
  BY <1>2, <1>3, <1>4, <1>5

\* One value is one more.
LEMMA OneMore ==
  ASSUME NEW S, IsFiniteSet(S), NEW f, NEW g, NEW a \in S,
         \A x \in S : f[x] \in Int, \A x \in S \ {a} : g[x] = f[x], g[a] = f[a] + 1
  PROVE  SumFunctionOnSet(g, S) = SumFunctionOnSet(f, S) + 1
<1>1. \A x \in S : f[x] \in Int /\ g[x] \in Int
  OBVIOUS
<1>2. SumFunctionOnSet(g, S) = SumFunctionOnSet(f, S) - f[a] + g[a]
  BY <1>1, SumChanges
<1>3. SumFunctionOnSet(f, S) \in Int
  BY SumType
<1> QED
  BY <1>1, <1>2, <1>3

\* What is outside a subset adds nothing negative.
LEMMA SumGrows ==
  ASSUME NEW S, IsFiniteSet(S), NEW f, \A x \in S : f[x] \in Nat, NEW s \in SUBSET S
  PROVE  SumFunctionOnSet(f, s) <= SumFunctionOnSet(f, S)
<1>1. \A x \in S : f[x] \in Int
  OBVIOUS
<1>2. PICK it : Sums(it, f, S) /\ SumFunctionOnSet(f, S) = it[S]
  BY <1>1, SumUnfolds, Zenon
<1>3. IsFiniteSet(s) /\ \A x \in s : f[x] \in Int
  BY <1>1, FS_Subset
<1>4. PICK jt : Sums(jt, f, s) /\ SumFunctionOnSet(f, s) = jt[s]
  BY <1>3, SumUnfolds, Zenon
<1>5. jt[s] = it[s]
  BY <1>2, <1>3, <1>4, SumsAgree
<1>6. \A t \in SUBSET S : it[t] \in Int
  BY <1>2 DEF Sums
<1> DEFINE Bad == {t \in SUBSET S : s \subseteq t /\ ~(it[s] <= it[t])}
<1>7. SUFFICES ASSUME Bad # {} PROVE FALSE
  BY <1>2, <1>4, <1>5
<1>8. Bad \in SUBSET SUBSET S
  OBVIOUS
<1> HIDE DEF Bad
<1>9. \E t \in Bad : \A r \in Bad : r \subseteq t => r = t
  BY <1>7, <1>8, SmallestSet
<1>10. PICK t \in Bad : \A r \in Bad : r \subseteq t => r = t
  BY <1>9, Zenon
<1>11. t \in SUBSET S /\ s \subseteq t /\ ~(it[s] <= it[t])
  BY DEF Bad
<1>12. s # t
  BY <1>6, <1>11
<1>13. PICK a \in t : a \notin s
  BY <1>11, <1>12
<1> DEFINE r == t \ {a}
<1>14. r \in SUBSET S /\ s \subseteq r /\ r \notin Bad
  BY <1>10, <1>11, <1>13
<1>15. it[t] = it[r] + f[a]
  BY <1>1, <1>2, <1>11, AnyOrder
<1> HIDE DEF r
<1>16. it[s] <= it[r]
  BY <1>14 DEF Bad
<1>17. f[a] \in Nat /\ it[r] \in Int /\ it[s] \in Int /\ it[t] \in Int
  BY <1>6, <1>11, <1>14
<1> QED
  BY <1>11, <1>15, <1>16, <1>17

\* Zeros add up to zero.
LEMMA SumOfZeros ==
  ASSUME NEW S, IsFiniteSet(S), NEW f, \A x \in S : f[x] = 0
  PROVE  SumFunctionOnSet(f, S) = 0
<1>1. \A x \in S : f[x] \in Int
  OBVIOUS
<1>2. PICK it : Sums(it, f, S) /\ SumFunctionOnSet(f, S) = it[S]
  BY <1>1, SumUnfolds, Zenon
<1> DEFINE zero == [s \in SUBSET S |-> 0]
<1>3. Sums(zero, f, S)
  <2>1. ASSUME NEW s \in SUBSET S, s # {}
        PROVE  zero[s] = f[Pick(s)] + zero[s \ {Pick(s)}]
    <3>1. Pick(s) \in S /\ s \ {Pick(s)} \in SUBSET S
      BY <2>1, PickIsIn
    <3> QED
      BY <3>1
  <2>2. zero \in [SUBSET S -> Int] /\ zero[{}] = 0
    OBVIOUS
  <2> HIDE DEF zero
  <2> QED
    BY <2>1, <2>2, Zenon DEF Sums
<1>4. it[S] = zero[S]
  <2> HIDE DEF zero
  <2> QED
    BY <1>2, <1>3, SumsAgree
<1> QED
  BY <1>2, <1>4

-----------------------------------------------------------------------------
(* Segment *)

LEMMA PacketStays == SegmentSpec => [](packet \in Packet)
<1>1. SegmentInit => packet \in Packet
  BY SegmentAssumption DEF SegmentInit
<1>2. packet \in Packet /\ [SegmentNext]_packet => (packet \in Packet)'
  <2> SUFFICES ASSUME packet \in Packet, SegmentNext PROVE packet' \in Packet
    OBVIOUS
  <2>1. packet' = [packet EXCEPT !.len = packet.len + 1] /\ packet.len + 1 \in Nat
    BY DEF SegmentNext, OneByteMore, Packet
  <2> QED
    BY <2>1 DEF Packet
<1> QED
  BY <1>1, <1>2, PTL DEF SegmentSpec

LEMMA PacketFields ==
  ASSUME NEW p \in Packet
  PROVE  /\ p.len \in Nat /\ p.ihl \in Nat /\ p.doff \in Nat /\ p.record \in Nat
         /\ LeafLength(p) \in Nat /\ Available(p) \in Nat
         /\ p.chain = <<>> => LeafLength(p) > MaxCertLength
         /\ p.chain # <<>> => LeafLength(p) = p.chain[1]
<1>1. /\ p.len \in Nat /\ p.ihl \in 0 .. 15 /\ p.doff \in 0 .. 15 /\ p.record \in Nat
      /\ p.chain \in Seq(Nat)
  BY DEF Packet
<1>2. /\ LeafLength(p) \in Nat
      /\ p.chain = <<>> => LeafLength(p) > MaxCertLength
  BY <1>1, HandshakeAssumption DEF LeafLength, NextRecord
<1>3. p.ihl \in Nat /\ p.doff \in Nat
  <2>1. \A i \in 0 .. 15 : i \in Nat
    OBVIOUS
  <2> QED
    BY <1>1, <2>1, Zenon
<1>4. Available(p) \in Nat
  <2>1. TcpAt(p) \in Nat
    BY <1>3 DEF TcpAt, Eth
  <2>2. TlsAt(p) \in Nat
    BY <1>3, <2>1 DEF TlsAt
  <2>3. LeafAt(p) \in Nat
    BY <2>2 DEF LeafAt, ListAt, HandshakeAt
  <2> QED
    BY <1>1, <2>3 DEF Available
<1>5. p.chain # <<>> => LeafLength(p) = p.chain[1]
  BY DEF LeafLength
<1> QED
  BY <1>1, <1>2, <1>3, <1>4, <1>5

\* What Available counts from.
LEMMA Offsets ==
  ASSUME NEW p \in Packet
  PROVE  /\ TcpAt(p) = 14 + 4 * p.ihl /\ TlsAt(p) = TcpAt(p) + 4 * p.doff
         /\ HandshakeAt(p) = TlsAt(p) + 5 /\ ListAt(p) = TlsAt(p) + 12
         /\ LeafAt(p) = TlsAt(p) + 15
         /\ {TcpAt(p), TlsAt(p), HandshakeAt(p), ListAt(p), LeafAt(p)} \subseteq Nat
         /\ HeaderLength(p.ihl) => p.ihl >= 5
         /\ HeaderLength(p.doff) => p.doff >= 5
         /\ Available(p) > 0 <=> p.len > LeafAt(p)
         /\ Available(p) > 0 => Available(p) = p.len - LeafAt(p)
<1>0. p.len \in Nat /\ p.ihl \in Nat /\ p.doff \in Nat
  BY PacketFields
<1>1. /\ TcpAt(p) = 14 + 4 * p.ihl /\ TlsAt(p) = TcpAt(p) + 4 * p.doff
      /\ HandshakeAt(p) = TlsAt(p) + 5
  BY DEF TcpAt, TlsAt, HandshakeAt, Eth
<1>2. TcpAt(p) \in Nat /\ TlsAt(p) \in Nat /\ HandshakeAt(p) \in Nat
  BY <1>0, <1>1
<1>3. ListAt(p) = TlsAt(p) + 12 /\ LeafAt(p) = TlsAt(p) + 15
  BY <1>1, <1>2 DEF ListAt, LeafAt
<1>4. /\ HeaderLength(p.ihl) => p.ihl >= 5
      /\ HeaderLength(p.doff) => p.doff >= 5
  BY <1>0 DEF HeaderLength
<1> QED
  BY <1>0, <1>1, <1>2, <1>3, <1>4 DEF Available

\* All checks of the header and the record, as either program makes them.
Accepted(p) ==
  /\ p.ip /\ HeaderLength(p.ihl) /\ p.tcp /\ HeaderLength(p.doff) /\ p.handshake
  /\ p.record \in 1 .. MaxRecord /\ p.type = "certificate"
  /\ p.len > LeafAt(p) /\ LeafLength(p) # 0

\* With room for a byte of the certificate the comparisons of the length agree.
LEMMA Walks ==
  ASSUME NEW p \in Packet
  PROVE  /\ Captured(p) <=> Accepted(p) /\ LeafLength(p) <= MaxCertLength
         /\ ExtractCertFingerprint(p) > 0 <=> Accepted(p)
         /\ Accepted(p) => /\ IsCertificate(p)
                           /\ MalformedPacket(p) <=> LeafLength(p) > MaxCertLength
                           /\ ExtractCertFingerprint(p)
                                = Lesser(Lesser(LeafLength(p), FpLength), Available(p))
<1>0. /\ p.len \in Nat /\ p.ihl \in Nat /\ p.doff \in Nat
      /\ LeafLength(p) \in Nat /\ Available(p) \in Nat
      /\ MaxCertData \in Nat \ {0} /\ FpLength \in Nat \ {0} /\ MaxCertLength \in Nat
  BY PacketFields, HandshakeAssumption
<1>1. ASSUME p.ip, p.tcp, p.handshake, HeaderLength(p.ihl), HeaderLength(p.doff),
             p.len > LeafAt(p)
      PROVE  /\ p.len >= ShortestEnforced /\ p.len >= Eth + 20 + 20 + 5
             /\ p.len >= TcpAt(p) + 20 /\ p.len >= TlsAt(p) + 5
             /\ p.len >= HandshakeAt(p) + 4 /\ p.len >= ListAt(p) + 3
  <2>1. p.len >= 70 /\ p.len >= TlsAt(p) + 16 /\ p.len >= TcpAt(p) + 36
    BY <1>0, <1>1, Offsets
  <2> QED
    BY <1>0, <2>1, Offsets DEF ShortestEnforced, Eth
<1>2. CopyLength(p) > 0 <=> LeafLength(p) > 0 /\ p.len > LeafAt(p)
  BY <1>0, Offsets DEF CopyLength, Lesser
<1>3. Captured(p) <=> Accepted(p) /\ LeafLength(p) <= MaxCertLength
  BY <1>0, <1>1, <1>2 DEF Captured, Accepted, IsCertificate, IsTls, IsRecord, IsTcp, IsIp
<1>4. ASSUME Accepted(p)
      PROVE  /\ IsCertificate(p)
             /\ MalformedPacket(p) <=> LeafLength(p) > MaxCertLength
  <2>1. IsIp(p) /\ IsTcp(p) /\ IsRecord(p) /\ IsTls(p) /\ IsCertificate(p)
    BY <1>1, <1>4 DEF Accepted, IsCertificate, IsTls, IsRecord, IsTcp, IsIp
  <2> QED
    BY <1>0, <1>4, <2>1 DEF Accepted, MalformedPacket
<1>5. Accepted(p) => ExtractCertFingerprint(p)
                       = Lesser(Lesser(LeafLength(p), FpLength), Available(p))
  BY <1>1 DEF Accepted, ExtractCertFingerprint
<1>6. Lesser(Lesser(LeafLength(p), FpLength), Available(p)) > 0
        <=> LeafLength(p) # 0 /\ p.len > LeafAt(p)
  BY <1>0, Offsets DEF Lesser
<1>7. ExtractCertFingerprint(p) > 0 <=> Accepted(p)
  BY <1>5, <1>6 DEF Accepted, ExtractCertFingerprint
<1> QED
  BY <1>3, <1>4, <1>5, <1>7

\* main.rs and executor.rs: of every packet that the collector reports, the enforcement
\* programs make the same fingerprint; and of no other, except those that the collector
\* counts as malformed.
THEOREM EnforcerAgrees == SegmentSpec => []EnforcerReadsTheSame
<1>1. packet \in Packet => EnforcerReadsTheSame
  <2> SUFFICES ASSUME packet \in Packet PROVE EnforcerReadsTheSame
    OBVIOUS
  <2>0. /\ LeafLength(packet) \in Nat /\ Available(packet) \in Nat
        /\ MaxCertData \in Nat /\ FpLength \in Nat /\ FpLength <= MaxCertData
        /\ MaxCertLength \in Nat
    BY PacketFields, HandshakeAssumption
  <2>1. Lesser(Lesser(LeafLength(packet), FpLength), Available(packet))
          = FingerprintBytes(packet)
    BY <2>0 DEF FingerprintBytes, CopyLength, Lesser
  <2>2. Captured(packet) => ExtractCertFingerprint(packet) = FingerprintBytes(packet)
    BY <2>1, Walks
  <2>3. ASSUME ExtractCertFingerprint(packet) > 0
        PROVE  IsTls(packet) /\ (Captured(packet) # MalformedPacket(packet))
    <3>1. /\ Accepted(packet) /\ IsCertificate(packet)
          /\ Captured(packet) <=> LeafLength(packet) <= MaxCertLength
          /\ MalformedPacket(packet) <=> LeafLength(packet) > MaxCertLength
      BY <2>3, Walks
    <3>2. Captured(packet) <=> ~MalformedPacket(packet)
      BY <2>0, <3>1
    <3>3. Captured(packet) \in BOOLEAN /\ MalformedPacket(packet) \in BOOLEAN
      BY Zenon DEF Captured, MalformedPacket
    <3>4. Captured(packet) # MalformedPacket(packet)
      BY <3>2, <3>3, Zenon
    <3> QED
      BY <3>1, <3>4 DEF IsCertificate
  <2> QED
    BY <2>2, <2>3 DEF EnforcerReadsTheSame
<1> QED
  BY <1>1, PacketStays, PTL

\* event_processor.rs: wherever the packet ends, metadata are made of a certificate
\* exactly if it is there whole and fits.
THEOREM MetadataAreWhole == SegmentSpec => []MetadataOfWholeCertificates
<1>1. packet \in Packet => MetadataOfWholeCertificates
  <2> SUFFICES ASSUME packet \in Packet, Captured(packet)
               PROVE  ProcessEvent(Event(packet)) = "metadata" <=>
                        /\ LeafAt(packet) + LeafLength(packet) <= packet.len
                        /\ LeafLength(packet) <= MaxCertData
    BY DEF MetadataOfWholeCertificates
  <2>0. /\ LeafLength(packet) \in Nat /\ Available(packet) \in Nat
        /\ MaxCertData \in Nat \ {0} /\ MaxCertLength \in Nat
        /\ LeafAt(packet) \in Nat /\ packet.len \in Nat
    BY PacketFields, Offsets, HandshakeAssumption
  <2>1. /\ LeafLength(packet) <= MaxCertLength /\ packet.len > LeafAt(packet)
        /\ LeafLength(packet) # 0
    BY Walks DEF Accepted
  <2>2. packet.chain[1] = LeafLength(packet)
    BY <2>0, <2>1, PacketFields
  <2>3. Available(packet) = packet.len - LeafAt(packet)
    BY <2>0, <2>1, Offsets
  <2>4. CopyLength(packet) \in Nat /\ CopyLength(packet) > 0
    BY <2>0, <2>1, <2>3 DEF CopyLength, Lesser
  <2>5. /\ Event(packet).certLen = CopyLength(packet)
        /\ Event(packet).der = LeafLength(packet)
    BY <2>2 DEF Event
  <2>6. ProcessEvent(Event(packet)) = "metadata" <=> CopyLength(packet) >= LeafLength(packet)
    BY <2>4, <2>5 DEF ProcessEvent, Parses
  <2> QED
    BY <2>0, <2>1, <2>3, <2>6 DEF CopyLength, Lesser
<1> QED
  BY <1>1, PacketStays, PTL

\* A recursion that goes up to the first stop has the place before it as its value.
LEMMA FirstStop ==
  ASSUME NEW n \in Nat, NEW Stops \in SUBSET (1 .. n + 1), n + 1 \in Stops, NEW w,
         \A i \in 1 .. n + 1 : w[i] = IF i \in Stops THEN i - 1 ELSE w[i + 1]
  PROVE  /\ w[1] \in 0 .. n /\ w[1] + 1 \in Stops
         /\ \A j \in 1 .. w[1] : j \notin Stops
<1>1. PICK f \in Stops : \A m \in Stops : f <= m
  BY LeastNat
<1>2. f \in 1 .. n + 1 /\ f \in Nat
  OBVIOUS
<1> DEFINE Bad == {k \in Nat : k <= f - 1 /\ w[f - k] # f - 1}
<1>3. Bad = {}
  <2>1. SUFFICES ASSUME Bad # {} PROVE FALSE
    OBVIOUS
  <2>2. Bad \in SUBSET Nat
    OBVIOUS
  <2> HIDE DEF Bad
  <2>3. \E k \in Bad : \A m \in Bad : k <= m
    BY <2>1, <2>2, LeastNat
  <2>4. PICK k \in Bad : \A m \in Bad : k <= m
    BY <2>3, Zenon
  <2>5. k \in Nat /\ k <= f - 1 /\ w[f - k] # f - 1
    BY DEF Bad
  <2>6. w[f] = f - 1
    BY <1>2
  <2>7. k # 0
    <3>1. f - 0 = f
      BY <1>2
    <3> QED
      BY <2>5, <2>6, <3>1
  <2>8. k - 1 \in Nat /\ k - 1 <= f - 1 /\ f - (k - 1) = (f - k) + 1
        /\ f - k \in 1 .. n + 1 /\ f - k < f
    BY <1>2, <2>5, <2>7
  <2>9. ~(k <= k - 1)
    BY <2>5
  <2>10. k - 1 \notin Bad
    BY <2>4, <2>9, Zenon
  <2>11. w[f - (k - 1)] = f - 1
    BY <2>8, <2>10, Zenon DEF Bad
  <2>12. f - k \notin Stops
    BY <1>1, <1>2, <2>8
  <2>13. w[f - k] = w[(f - k) + 1]
    BY <2>8, <2>12, Zenon
  <2> QED
    BY <2>5, <2>8, <2>11, <2>13, Zenon
<1>4. w[1] = f - 1
  <2>1. f - 1 \in Nat /\ f - 1 <= f - 1 /\ f - (f - 1) = 1
    BY <1>2
  <2>2. f - 1 \notin Bad
    BY <1>3, Zenon
  <2> QED
    BY <2>1, <2>2, Zenon
<1>5. ASSUME NEW j \in 1 .. w[1] PROVE j \notin Stops
  BY <1>1, <1>2, <1>4
<1>6. w[1] \in 0 .. n /\ w[1] + 1 = f
  BY <1>2, <1>4
<1> QED
  BY <1>1, <1>5, <1>6

\* And it is the recursion of a function that exists.
LEMMA WalkExists ==
  ASSUME NEW n \in Nat, NEW Stops \in SUBSET (1 .. n + 1), n + 1 \in Stops
  PROVE  \E w : w = [i \in 1 .. n + 1 |-> IF i \in Stops THEN i - 1 ELSE w[i + 1]]
<1> DEFINE From(i) == {j \in Stops : j >= i}
           Least(S) == CHOOSE j \in S : \A m \in S : j <= m
           w == [i \in 1 .. n + 1 |-> Least(From(i)) - 1]
<1>1. ASSUME NEW i \in 1 .. n + 1, i \in Stops
      PROVE  Least(From(i)) = i
  <2>1. i \in From(i) /\ \A m \in From(i) : i <= m /\ m \in Nat
    BY <1>1
  <2> HIDE DEF From
  <2>2. Least(From(i)) \in From(i) /\ \A m \in From(i) : Least(From(i)) <= m
    BY <2>1, Zenon
  <2> HIDE DEF Least
  <2>3. Least(From(i)) <= i /\ i <= Least(From(i)) /\ Least(From(i)) \in Nat
    BY <2>1, <2>2, Zenon
  <2> QED
    BY <2>3
<1>2. ASSUME NEW i \in 1 .. n + 1, i \notin Stops
      PROVE  i + 1 \in 1 .. n + 1 /\ From(i) = From(i + 1)
  <2>1. i # n + 1
    BY <1>2
  <2>2. i + 1 \in 1 .. n + 1
    BY <2>1
  <2>3. ASSUME NEW j \in Stops PROVE j >= i <=> j >= i + 1
    BY <1>2
  <2>4. From(i) = From(i + 1)
    BY <2>3, Zenon
  <2> QED
    BY <2>2, <2>4, Zenon
<1>3. ASSUME NEW i \in 1 .. n + 1
      PROVE  w[i] = IF i \in Stops THEN i - 1 ELSE w[i + 1]
  <2> HIDE DEF From, Least
  <2>1. CASE i \in Stops
    BY <1>1, <2>1
  <2>2. CASE i \notin Stops
    <3>1. i + 1 \in 1 .. n + 1 /\ From(i) = From(i + 1)
      BY <1>2, <2>2
    <3> QED
      BY <2>2, <3>1
  <2> QED
    BY <2>1, <2>2
<1>4. w = [i \in 1 .. n + 1 |-> w[i]]
  OBVIOUS
<1> HIDE DEF w
<1>5. w = [i \in 1 .. n + 1 |-> IF i \in Stops THEN i - 1 ELSE w[i + 1]]
  BY <1>3, <1>4
<1> QED
  BY <1>5

\* Where the walk over the list comes to its end.
Stops(p) ==
  {i \in 1 .. MaxChain + 1 :
     \/ i > MaxChain \/ i > Len(p.chain)
     \/ LengthAt(p, i) + 3 > p.len \/ p.chain[i] = 0}

\* The recursive function of CountChainDepth.
Walk(p, w) ==
  w = [i \in 1 .. MaxChain + 1 |->
         IF \/ i > MaxChain \/ i > Len(p.chain)
            \/ LengthAt(p, i) + 3 > p.len \/ p.chain[i] = 0
           THEN i - 1
           ELSE w[i + 1]]

LEMMA DepthIsWalked ==
  ASSUME NEW p
  PROVE  CountChainDepth(p) = LET w == CHOOSE w : Walk(p, w)
                              IN  IF w[1] = 0 THEN 1 ELSE w[1]
BY Zenon DEF CountChainDepth, Walk

\* The depth is the number of entries before the first stop, at least one.
LEMMA WalkDepth ==
  ASSUME NEW p
  PROVE  \E k \in 0 .. MaxChain :
           /\ CountChainDepth(p) = IF k = 0 THEN 1 ELSE k
           /\ k + 1 \in Stops(p)
           /\ \A j \in 1 .. k : j \notin Stops(p)
<1> DEFINE w == CHOOSE w : Walk(p, w)
<1>1. Stops(p) \in SUBSET (1 .. MaxChain + 1) /\ MaxChain + 1 \in Stops(p) /\ MaxChain \in Nat
  BY HandshakeAssumption DEF Stops
<1>2. Walk(p, w)
  <2>1. PICK v : v = [i \in 1 .. MaxChain + 1 |-> IF i \in Stops(p) THEN i - 1 ELSE v[i + 1]]
    BY <1>1, WalkExists, Zenon
  <2>2. Walk(p, v)
    BY <2>1, Zenon DEF Walk, Stops
  <2> QED
    BY <2>2, Zenon
<1>3. CountChainDepth(p) = IF w[1] = 0 THEN 1 ELSE w[1]
  BY DepthIsWalked, Zenon
<1> HIDE DEF w
<1>4. \A i \in 1 .. MaxChain + 1 : w[i] = IF i \in Stops(p) THEN i - 1 ELSE w[i + 1]
  BY <1>2 DEF Walk, Stops
<1>5. /\ w[1] \in 0 .. MaxChain /\ w[1] + 1 \in Stops(p)
      /\ \A j \in 1 .. w[1] : j \notin Stops(p)
  BY <1>1, <1>4, FirstStop
<1> QED
  BY <1>3, <1>5, Zenon

\* Entries follow one another.
LEMMA Positions ==
  ASSUME NEW p \in Packet
  PROVE  /\ LengthAt(p, 1) = ListAt(p)
         /\ \A i \in 1 .. Len(p.chain) + 1 : LengthAt(p, i) \in Int
         /\ \A j \in 1 .. Len(p.chain) + 1, i \in 1 .. Len(p.chain) + 1 :
              i <= j => LengthAt(p, i) <= LengthAt(p, j)
<1> DEFINE f == [j \in DOMAIN p.chain |-> 3 + p.chain[j]]
           n == Len(p.chain)
<1>1. n \in Nat /\ DOMAIN p.chain = 1 .. n /\ \A j \in 1 .. n : p.chain[j] \in Nat
  BY DEF Packet
<1>2. \A j \in 1 .. n : f[j] \in Nat
  BY <1>1
<1>3. ListAt(p) \in Nat
  <2>1. p.ihl \in 0 .. 15 /\ p.doff \in 0 .. 15
    BY DEF Packet
  <2>2. p.ihl \in Nat /\ p.doff \in Nat
    BY <2>1
  <2> QED
    BY <2>2 DEF ListAt, HandshakeAt, TlsAt, TcpAt, Eth
<1>4. \A i : LengthAt(p, i) = ListAt(p) + SumFunctionOnSet(f, 1 .. i - 1)
  BY Zenon DEF LengthAt
<1> HIDE DEF f, n
<1>5. ASSUME NEW i \in 1 .. n + 1
      PROVE  /\ IsFiniteSet(1 .. i - 1) /\ 1 .. i - 1 \subseteq 1 .. n
             /\ \A x \in 1 .. i - 1 : f[x] \in Nat /\ f[x] \in Int
  BY <1>1, <1>2, FS_Interval
<1>6. ASSUME NEW i \in 1 .. n + 1
      PROVE  SumFunctionOnSet(f, 1 .. i - 1) \in Int
  BY <1>5, SumType
<1>7. LengthAt(p, 1) = ListAt(p)
  <2>1. 1 .. 1 - 1 = {}
    OBVIOUS
  <2>2. SumFunctionOnSet(f, {}) = 0
    BY SumOfZeros, FS_EmptySet
  <2> QED
    BY <1>3, <1>4, <2>1, <2>2
<1>8. ASSUME NEW j \in 1 .. n + 1, NEW i \in 1 .. n + 1, i <= j
      PROVE  LengthAt(p, i) <= LengthAt(p, j)
  <2>1. 1 .. i - 1 \in SUBSET (1 .. j - 1)
    BY <1>1, <1>8
  <2>2. SumFunctionOnSet(f, 1 .. i - 1) <= SumFunctionOnSet(f, 1 .. j - 1)
    BY <1>5, <2>1, SumGrows
  <2> QED
    BY <1>3, <1>4, <1>6, <2>2
<1>9. ASSUME NEW i \in 1 .. n + 1 PROVE LengthAt(p, i) \in Int
  BY <1>3, <1>4, <1>6
<1> QED
  BY <1>7, <1>8, <1>9 DEF n

\* The certificates of which the collector is to tell.
There(p) ==
  {i \in DOMAIN p.chain :
     /\ i <= MaxChain /\ LengthAt(p, i) + 3 <= p.len
     /\ \A j \in 1 .. i : p.chain[j] # 0}

\* They are the first ones, as many as the depth says: the leaf is there, so the
\* least depth of one is never a guess.
LEMMA DepthIsThere ==
  ASSUME NEW p \in Packet, Captured(p)
  PROVE  /\ There(p) = 1 .. CountChainDepth(p)
         /\ CountChainDepth(p) \in Nat
<1>1. /\ Len(p.chain) \in Nat /\ DOMAIN p.chain = 1 .. Len(p.chain) /\ p.len \in Nat
      /\ \A j \in 1 .. Len(p.chain) : p.chain[j] \in Nat
      /\ MaxChain \in Nat /\ MaxChain # 0
  BY HandshakeAssumption DEF Packet
<1>2. PICK k \in 0 .. MaxChain :
        /\ CountChainDepth(p) = IF k = 0 THEN 1 ELSE k
        /\ k + 1 \in Stops(p)
        /\ \A j \in 1 .. k : j \notin Stops(p)
  BY WalkDepth
<1>3. 1 \notin Stops(p)
  <2>1. LeafLength(p) \in 1 .. MaxCertLength /\ CopyLength(p) > 0
    BY DEF Captured
  <2>2. p.chain # <<>> /\ p.chain[1] # 0
    <3>1. LeafLength(p) # 0 /\ ~(LeafLength(p) > MaxCertLength)
      BY <2>1, HandshakeAssumption
    <3> QED
      BY <3>1, PacketFields, Zenon
  <2>3. Len(p.chain) >= 1
    BY <1>1, <2>2
  <2>4. Available(p) > 0
    BY <2>1, PacketFields, HandshakeAssumption DEF CopyLength, Lesser
  <2>5. LengthAt(p, 1) + 3 = LeafAt(p) /\ LengthAt(p, 1) \in Int
    BY <1>1, Positions DEF LeafAt
  <2>6. LengthAt(p, 1) + 3 <= p.len
    BY <1>1, <2>4, <2>5 DEF Available
  <2> QED
    BY <1>1, <2>2, <2>3, <2>5, <2>6 DEF Stops
<1>4. k # 0
  BY <1>2, <1>3
<1>5. ASSUME NEW i \in 1 .. k PROVE i \in There(p)
  <2>1. ASSUME NEW j \in 1 .. i
        PROVE  j \in 1 .. Len(p.chain) /\ LengthAt(p, j) + 3 <= p.len /\ p.chain[j] # 0
    <3>0. k \in Nat /\ k <= MaxChain /\ i \in Nat /\ i <= k /\ j \in Nat /\ 1 <= j /\ j <= i
      BY <1>1
    <3>1. j \in 1 .. k /\ j \in 1 .. MaxChain + 1
      BY <1>1, <3>0
    <3>2. j \notin Stops(p)
      BY <1>2, <3>1, Zenon
    <3>3. ~(j > Len(p.chain)) /\ ~(LengthAt(p, j) + 3 > p.len) /\ p.chain[j] # 0
      BY <3>1, <3>2, Zenon DEF Stops
    <3>4. j \in 1 .. Len(p.chain)
      BY <1>1, <3>0, <3>3
    <3>5. LengthAt(p, j) \in Int
      BY <1>1, <3>4, Positions
    <3> QED
      BY <1>1, <3>3, <3>4, <3>5
  <2> QED
    BY <1>1, <2>1 DEF There
<1>6. ASSUME NEW i \in There(p) PROVE i \in 1 .. k
  <2>1. /\ i \in 1 .. Len(p.chain) /\ i <= MaxChain /\ LengthAt(p, i) + 3 <= p.len
        /\ \A j \in 1 .. i : p.chain[j] # 0
    BY <1>1 DEF There
  <2>2. SUFFICES ASSUME k < i PROVE FALSE
    BY <1>1, <2>1
  <2>3. k + 1 \in 1 .. i /\ k + 1 \in 1 .. Len(p.chain) /\ k + 1 <= i
    BY <1>1, <2>1, <2>2
  <2>4. \/ k + 1 > MaxChain \/ k + 1 > Len(p.chain)
        \/ LengthAt(p, k + 1) + 3 > p.len \/ p.chain[k + 1] = 0
    BY <1>2, Zenon DEF Stops
  <2>5. LengthAt(p, k + 1) <= LengthAt(p, i) /\ LengthAt(p, i) \in Int /\ LengthAt(p, k + 1) \in Int
    BY <1>1, <2>1, <2>3, Positions
  <2>6. ~(k + 1 > MaxChain) /\ ~(k + 1 > Len(p.chain)) /\ p.chain[k + 1] # 0
    BY <1>1, <2>1, <2>2, <2>3
  <2> QED
    BY <1>1, <2>1, <2>4, <2>5, <2>6
<1>7. There(p) = 1 .. k
  BY <1>5, <1>6
<1> QED
  BY <1>2, <1>4, <1>7

\* The issuer is told exactly if a byte of its certificate is there.
LEMMA IssuerIsThere ==
  ASSUME NEW p \in Packet, Captured(p)
  PROVE  IssuerBytes(p) > 0 <=> 2 \in There(p) /\ LengthAt(p, 2) + 3 < p.len
<1>1. /\ Len(p.chain) \in Nat /\ DOMAIN p.chain = 1 .. Len(p.chain) /\ p.len \in Nat
      /\ \A j \in 1 .. Len(p.chain) : p.chain[j] \in Nat
      /\ FpLength \in Nat /\ FpLength # 0
  BY HandshakeAssumption DEF Packet
<1>2. There(p) = 1 .. CountChainDepth(p) /\ CountChainDepth(p) \in Nat
  BY DepthIsThere
<1>3. CountChainDepth(p) > 1 <=> 2 \in There(p)
  BY <1>2
<1>4. CASE 2 \in There(p)
  <2>1. /\ 2 \in 1 .. Len(p.chain) /\ LengthAt(p, 2) + 3 <= p.len
        /\ \A j \in 1 .. 2 : p.chain[j] # 0
    BY <1>1, <1>4 DEF There
  <2>2. p.chain[2] \in Nat /\ p.chain[2] # 0
    BY <1>1, <2>1
  <2>3. LengthAt(p, 2) \in Int
    BY <1>1, <2>1, Positions
  <2>4. IssuerBytes(p) = Lesser(Lesser(p.chain[2], FpLength), p.len - (LengthAt(p, 2) + 3))
    BY <1>3, <1>4, <2>1, <2>2, Zenon DEF IssuerBytes
  <2>5. /\ Lesser(p.chain[2], FpLength) \in Nat /\ Lesser(p.chain[2], FpLength) > 0
    BY <1>1, <2>2 DEF Lesser
  <2> QED
    BY <1>1, <1>4, <2>3, <2>4, <2>5 DEF Lesser
<1>5. CASE 2 \notin There(p)
  <2>1. IssuerBytes(p) = 0
    BY <1>3, <1>5, Zenon DEF IssuerBytes
  <2> QED
    BY <1>5, <2>1
<1> QED
  BY <1>4, <1>5

\* count_chain_depth, extract_issuer_pseudo_fp (main.rs): wherever the packet ends, the
\* depth is the number of certificates of the list that are there, up to the bound and
\* to an empty entry, and the issuer is told exactly if a byte of it is.
THEOREM DepthIsTold == SegmentSpec => []DepthIsWhatIsThere
<1>1. packet \in Packet => DepthIsWhatIsThere
  <2> SUFFICES ASSUME packet \in Packet, Captured(packet)
               PROVE  /\ CountChainDepth(packet) = Cardinality(There(packet))
                      /\ IssuerBytes(packet) > 0 <=>
                           2 \in There(packet) /\ LengthAt(packet, 2) + 3 < packet.len
    BY Zenon DEF DepthIsWhatIsThere, There
  <2>1. There(packet) = 1 .. CountChainDepth(packet) /\ CountChainDepth(packet) \in Nat
    BY DepthIsThere
  <2>2. Cardinality(1 .. CountChainDepth(packet)) = CountChainDepth(packet)
    BY <2>1, FS_Interval
  <2> QED
    BY <2>1, <2>2, IssuerIsThere
<1> QED
  BY <1>1, PacketStays, PTL

\* parse_tls_handshake, process_event: what is told of a packet is what is there, for any
\* packet and any growth of it.
THEOREM WhatIsThereIsTold == SegmentSpec => []ReportsWhatIsThere
<1>1. DepthIsWhatIsThere /\ MetadataOfWholeCertificates => ReportsWhatIsThere
  BY DEF ReportsWhatIsThere
<1> QED
  BY <1>1, DepthIsTold, MetadataAreWhole, PTL

-----------------------------------------------------------------------------
(* Capture *)

CpuRecord ==
  [pc : {"idle", "lookup", "update", "insert", "init", "reserve", "submit"},
   cert : Fingerprints \cup {"none"}, at : Nat, new : {0, 1},
   event : {NoEvent} \cup {Event(p) : p \in Packets}]

\* What a CPU carries where it stands: no certificate, one on its way through the
\* maps, or one that has been counted.
Carries(c) ==
  /\ cpu[c].pc = "idle" => cpu[c].cert = "none"
  /\ cpu[c].pc \in {"lookup", "update", "insert", "init"} =>
       cpu[c].cert \in Fingerprints /\ cpu[c].at > 0
  /\ cpu[c].pc \in {"reserve", "submit"} =>
       cpu[c].cert \in Fingerprints /\ observed[cpu[c].cert] > 0

CaptureTypes ==
  /\ arrived \in Nat
  /\ cpu \in [CPUs -> CpuRecord]
  /\ seen \in [Fingerprints -> Nat] /\ observed \in [Fingerprints -> Nat]
  /\ news \in [CPUs -> [Fingerprints -> Nat]]
  /\ \A c \in CPUs : Carries(c)

\* A CPU between the maps: what it found or put there is there, and it has not
\* called new what it is about to call new.
Standing(c) ==
  /\ cpu[c].pc \in {"update", "init"} => cpu[c].cert \in Known
  /\ cpu[c].pc \in {"insert", "init"} => news[c][cpu[c].cert] = 0

\* Someone called the certificate new, or is about to.
Announced(d) ==
  \/ \E c \in CPUs : news[c][d] = 1
  \/ \E c \in CPUs : cpu[c].pc = "init" /\ cpu[c].cert = d

\* An entry of SEEN_CERTS and what was told of it.
Entry(d) ==
  /\ observed[d] > 0 => d \in Known
  /\ \A c \in CPUs : news[c][d] <= 1
  /\ \A c \in CPUs : news[c][d] = 1 => d \in Known
  /\ d \in Known => Announced(d)

SeenInv ==
  /\ Known \subseteq Shown
  /\ Fits => /\ \A c \in CPUs : Standing(c)
             /\ \A d \in Fingerprints : Entry(d)

LEMMA CpuTypes ==
  ASSUME CaptureTypes, NEW c \in CPUs
  PROVE  /\ cpu[c] \in CpuRecord /\ Carries(c)
         /\ cpu[c].cert \in Fingerprints => cpu[c].cert # "none"
BY CaptureAssumption DEF CaptureTypes

LEMMA Goes ==
  ASSUME CaptureTypes, NEW c \in CPUs,
         NEW x \in {"idle", "lookup", "update", "insert", "init", "reserve", "submit"},
         GoesTo(c, x)
  PROVE  /\ cpu' \in [CPUs -> CpuRecord]
         /\ cpu'[c].pc = x /\ cpu'[c].cert = cpu[c].cert /\ cpu'[c].at = cpu[c].at
         /\ \A b \in CPUs \ {c} : cpu'[b] = cpu[b]
<1> DEFINE r == [cpu[c] EXCEPT !.pc = x]
<1>1. cpu[c] \in CpuRecord /\ cpu \in [CPUs -> CpuRecord]
  BY DEF CaptureTypes
<1>2. r \in CpuRecord /\ r.pc = x /\ r.cert = cpu[c].cert /\ r.at = cpu[c].at
  BY <1>1 DEF CpuRecord
<1>3. cpu' = [cpu EXCEPT ![c] = r]
  BY DEF GoesTo
<1> HIDE DEF r
<1> QED
  BY <1>1, <1>2, <1>3

LEMMA Leaves ==
  ASSUME CaptureTypes, NEW c \in CPUs, cpu' = [cpu EXCEPT ![c] = Local]
  PROVE  /\ cpu' \in [CPUs -> CpuRecord]
         /\ cpu'[c].pc = "idle" /\ cpu'[c].cert = "none"
         /\ \A b \in CPUs \ {c} : cpu'[b] = cpu[b]
<1>1. Local \in CpuRecord /\ Local.pc = "idle" /\ Local.cert = "none"
  BY DEF Local, CpuRecord
<1>2. cpu \in [CPUs -> CpuRecord]
  BY DEF CaptureTypes
<1> QED
  BY <1>1, <1>2

LEMMA Tells ==
  ASSUME CaptureTypes, NEW c \in CPUs, NEW new \in {0, 1}, Told(c, new),
         cpu[c].cert \in Fingerprints
  PROVE  /\ cpu' \in [CPUs -> CpuRecord]
         /\ cpu'[c].pc = "reserve" /\ cpu'[c].cert = cpu[c].cert
         /\ \A b \in CPUs \ {c} : cpu'[b] = cpu[b]
         /\ observed' \in [Fingerprints -> Nat]
         /\ observed'[cpu[c].cert] = observed[cpu[c].cert] + 1
         /\ \A d \in Fingerprints \ {cpu[c].cert} : observed'[d] = observed[d]
         /\ news' \in [CPUs -> [Fingerprints -> Nat]]
         /\ news'[c][cpu[c].cert] = news[c][cpu[c].cert] + new
         /\ \A b \in CPUs, d \in Fingerprints :
              b # c \/ d # cpu[c].cert => news'[b][d] = news[b][d]
<1> DEFINE r == [cpu[c] EXCEPT !.pc = "reserve", !.new = new]
           d0 == cpu[c].cert
           f == [news[c] EXCEPT ![d0] = @ + new]
<1>1. /\ cpu[c] \in CpuRecord /\ cpu \in [CPUs -> CpuRecord]
      /\ observed \in [Fingerprints -> Nat] /\ news \in [CPUs -> [Fingerprints -> Nat]]
      /\ d0 \in Fingerprints
  BY DEF CaptureTypes
<1>2. r \in CpuRecord /\ r.pc = "reserve" /\ r.cert = d0
  BY <1>1 DEF CpuRecord
<1>3. cpu' = [cpu EXCEPT ![c] = r]
  BY DEF Told
<1>4. observed' = [observed EXCEPT ![d0] = observed[d0] + 1]
  BY DEF Told
<1>5. news' = [news EXCEPT ![c] = f]
  BY DEF Told
<1>6. /\ f \in [Fingerprints -> Nat] /\ f[d0] = news[c][d0] + new
      /\ \A d \in Fingerprints \ {d0} : f[d] = news[c][d]
  BY <1>1
<1> HIDE DEF r, f
<1>7. /\ cpu' \in [CPUs -> CpuRecord]
      /\ cpu'[c].pc = "reserve" /\ cpu'[c].cert = d0
      /\ \A b \in CPUs \ {c} : cpu'[b] = cpu[b]
  BY <1>1, <1>2, <1>3
<1>8. /\ observed' \in [Fingerprints -> Nat] /\ observed'[d0] = observed[d0] + 1
      /\ \A d \in Fingerprints \ {d0} : observed'[d] = observed[d]
  BY <1>1, <1>4
<1>9. /\ news' \in [CPUs -> [Fingerprints -> Nat]] /\ news'[c][d0] = news[c][d0] + new
      /\ \A b \in CPUs, d \in Fingerprints : b # c \/ d # d0 => news'[b][d] = news[b][d]
  BY <1>1, <1>5, <1>6
<1> QED
  BY <1>7, <1>8, <1>9

\* A step of one CPU that leaves observed alone, or counts in it.
LEMMA CarriesKept ==
  ASSUME CaptureTypes, NEW c \in CPUs, \A b \in CPUs \ {c} : cpu'[b] = cpu[b],
         observed' \in [Fingerprints -> Nat],
         \A d \in Fingerprints : observed'[d] >= observed[d],
         Carries(c)'
  PROVE  \A b \in CPUs : Carries(b)'
<1> SUFFICES ASSUME NEW b \in CPUs, b # c PROVE Carries(b)'
  OBVIOUS
<1>1. Carries(b) /\ cpu'[b] = cpu[b] /\ observed \in [Fingerprints -> Nat]
  BY DEF CaptureTypes
<1> QED
  BY <1>1 DEF Carries

-----------------------------------------------------------------------------
(* The steps of a CPU, as far as the maps and the history go *)

\* What CaptureTypes needs to hold again, and Shown to grow.
Typed(c) ==
  /\ arrived' \in Nat /\ cpu' \in [CPUs -> CpuRecord]
  /\ \A b \in CPUs \ {c} : cpu'[b] = cpu[b]
  /\ seen' \in [Fingerprints -> Nat] /\ observed' \in [Fingerprints -> Nat]
  /\ \A d \in Fingerprints : observed'[d] >= observed[d]
  /\ news' \in [CPUs -> [Fingerprints -> Nat]]
  /\ Carries(c)'
  /\ cpu[c].cert \in Fingerprints =>
       cpu'[c].cert = cpu[c].cert \/ observed'[cpu[c].cert] > 0

LEMMA ArriveTyped ==
  ASSUME CaptureTypes, NEW c \in CPUs, NEW p \in Packets, NEW d \in Fingerprints,
         Arrive(c, p, d)
  PROVE  /\ Typed(c) /\ seen' = seen /\ observed' = observed /\ news' = news
         /\ cpu'[c].pc \in {"idle", "lookup"}
         /\ cpu[c].pc = "idle"
<1> DEFINE r == [pc |-> "lookup", cert |-> d, at |-> arrived + 1, new |-> 0,
                 event |-> Event(p)]
<1>1. /\ arrived' = arrived + 1 /\ seen' = seen /\ observed' = observed /\ news' = news
      /\ cpu[c].pc = "idle"
  BY DEF Arrive
<1>2. /\ arrived \in Nat /\ seen \in [Fingerprints -> Nat]
      /\ observed \in [Fingerprints -> Nat] /\ news \in [CPUs -> [Fingerprints -> Nat]]
      /\ cpu \in [CPUs -> CpuRecord]
  BY DEF CaptureTypes
<1>3. cpu' = [cpu EXCEPT ![c] = r] \/ cpu' = [cpu EXCEPT ![c] = Local]
  BY DEF Arrive
<1>4. r \in CpuRecord /\ r.pc = "lookup" /\ r.cert = d /\ r.at > 0
  BY <1>2 DEF CpuRecord
<1>5. cpu[c].cert = "none" /\ "none" \notin Fingerprints
  BY <1>1, CaptureAssumption DEF CaptureTypes, Carries
<1> HIDE DEF r
<1>6. CASE cpu' = [cpu EXCEPT ![c] = r]
  <2>1. /\ cpu' \in [CPUs -> CpuRecord] /\ cpu'[c] = r
        /\ \A b \in CPUs \ {c} : cpu'[b] = cpu[b]
    BY <1>2, <1>4, <1>6
  <2>2. Carries(c)'
    BY <1>4, <2>1 DEF Carries
  <2> QED
    BY <1>1, <1>2, <1>4, <1>5, <2>1, <2>2 DEF Typed
<1>7. CASE cpu' = [cpu EXCEPT ![c] = Local]
  <2>1. /\ cpu' \in [CPUs -> CpuRecord]
        /\ cpu'[c].pc = "idle" /\ cpu'[c].cert = "none"
        /\ \A b \in CPUs \ {c} : cpu'[b] = cpu[b]
    BY <1>7, Leaves
  <2>2. Carries(c)'
    BY <2>1 DEF Carries
  <2> QED
    BY <1>1, <1>2, <1>5, <2>1, <2>2 DEF Typed
<1> QED
  BY <1>3, <1>6, <1>7

LEMMA LookUpTyped ==
  ASSUME CaptureTypes, NEW c \in CPUs, LookUp(c)
  PROVE  /\ Typed(c) /\ seen' = seen /\ observed' = observed /\ news' = news
         /\ cpu[c].cert \in Fingerprints /\ cpu'[c].cert = cpu[c].cert
         /\ cpu[c].cert \in Known => cpu'[c].pc = "update"
         /\ cpu[c].cert \notin Known => cpu'[c].pc = "insert"
         /\ cpu[c].pc = "lookup"
<1>1. /\ cpu[c].pc = "lookup"
      /\ arrived' = arrived /\ seen' = seen /\ observed' = observed /\ news' = news
  BY DEF LookUp, maps
<1>2. /\ arrived \in Nat /\ seen \in [Fingerprints -> Nat]
      /\ observed \in [Fingerprints -> Nat] /\ news \in [CPUs -> [Fingerprints -> Nat]]
  BY DEF CaptureTypes
<1>3. cpu[c].cert \in Fingerprints /\ cpu[c].at > 0
  BY <1>1, CpuTypes DEF Carries
<1>4. /\ seen[cpu[c].cert] # 0 => GoesTo(c, "update")
      /\ seen[cpu[c].cert] = 0 => GoesTo(c, "insert")
  BY DEF LookUp
<1>5. /\ cpu' \in [CPUs -> CpuRecord]
      /\ cpu'[c].cert = cpu[c].cert /\ cpu'[c].at = cpu[c].at
      /\ \A b \in CPUs \ {c} : cpu'[b] = cpu[b]
      /\ seen[cpu[c].cert] # 0 => cpu'[c].pc = "update"
      /\ seen[cpu[c].cert] = 0 => cpu'[c].pc = "insert"
  BY <1>4, Goes
<1>6. Carries(c)'
  BY <1>3, <1>5 DEF Carries
<1> QED
  BY <1>1, <1>2, <1>3, <1>5, <1>6 DEF Typed, Known

\* is_new_cert comes to its end, with or without a new certificate.
LEMMA TellsTyped ==
  ASSUME CaptureTypes, NEW c \in CPUs, NEW new \in {0, 1}, Told(c, new),
         cpu[c].cert \in Fingerprints, arrived' = arrived, seen' = seen
  PROVE  Typed(c)
<1>1. arrived \in Nat /\ seen \in [Fingerprints -> Nat] /\ observed \in [Fingerprints -> Nat]
  BY DEF CaptureTypes
<1>2. \A d \in Fingerprints : observed'[d] >= observed[d]
  BY <1>1, Tells
<1>3. Carries(c)'
  BY <1>1, Tells DEF Carries
<1> QED
  BY <1>1, <1>2, <1>3, Tells DEF Typed

LEMMA UpdateTyped ==
  ASSUME CaptureTypes, NEW c \in CPUs, UpdateCertStats(c)
  PROVE  /\ Typed(c) /\ Told(c, 0) /\ seen' = seen
         /\ cpu[c].pc = "update" /\ cpu[c].cert \in Fingerprints
<1>1. cpu[c].pc = "update" /\ Told(c, 0) /\ arrived' = arrived /\ seen' = seen
  BY DEF UpdateCertStats
<1>2. cpu[c].cert \in Fingerprints
  BY <1>1, CpuTypes DEF Carries
<1> QED
  BY <1>1, <1>2, TellsTyped

LEMMA InitTyped ==
  ASSUME CaptureTypes, NEW c \in CPUs, InsertStats(c)
  PROVE  /\ Typed(c) /\ Told(c, 1) /\ seen' = seen
         /\ cpu[c].pc = "init" /\ cpu[c].cert \in Fingerprints
<1>1. cpu[c].pc = "init" /\ Told(c, 1) /\ arrived' = arrived /\ seen' = seen
  BY DEF InsertStats
<1>2. cpu[c].cert \in Fingerprints
  BY <1>1, CpuTypes DEF Carries
<1> QED
  BY <1>1, <1>2, TellsTyped

LEMMA InsertTyped ==
  ASSUME CaptureTypes, NEW c \in CPUs, InsertSeen(c)
  PROVE  /\ Typed(c) /\ observed' = observed /\ news' = news
         /\ cpu[c].pc = "insert" /\ cpu[c].cert \in Fingerprints
         /\ cpu'[c].pc = "init" /\ cpu'[c].cert = cpu[c].cert
         /\ Known \subseteq Known' /\ Known' \subseteq Known \cup {cpu[c].cert}
         /\ cpu[c].cert \in Known \/ Room => cpu[c].cert \in Known'
<1>1. /\ cpu[c].pc = "insert" /\ GoesTo(c, "init")
      /\ arrived' = arrived /\ observed' = observed /\ news' = news
  BY DEF InsertSeen
<1>2. /\ arrived \in Nat /\ seen \in [Fingerprints -> Nat]
      /\ observed \in [Fingerprints -> Nat] /\ news \in [CPUs -> [Fingerprints -> Nat]]
  BY DEF CaptureTypes
<1>3. cpu[c].cert \in Fingerprints /\ cpu[c].at > 0 /\ cpu[c].at \in Nat
  BY <1>1, CpuTypes DEF Carries, CpuRecord
<1>4. /\ cpu' \in [CPUs -> CpuRecord] /\ cpu'[c].pc = "init"
      /\ cpu'[c].cert = cpu[c].cert /\ cpu'[c].at = cpu[c].at
      /\ \A b \in CPUs \ {c} : cpu'[b] = cpu[b]
  BY <1>1, Goes
<1>5. Carries(c)'
  BY <1>3, <1>4 DEF Carries
<1>6. /\ cpu[c].cert \in Known \/ Room => seen' = [seen EXCEPT ![cpu[c].cert] = cpu[c].at]
      /\ ~(cpu[c].cert \in Known \/ Room) => seen' = seen
  BY DEF InsertSeen
<1>7. /\ seen' \in [Fingerprints -> Nat]
      /\ \A d \in Fingerprints \ {cpu[c].cert} : seen'[d] = seen[d]
      /\ cpu[c].cert \in Known \/ Room => seen'[cpu[c].cert] # 0
      /\ ~(cpu[c].cert \in Known \/ Room) => seen' = seen
  BY <1>2, <1>3, <1>6
<1>8. /\ Known \subseteq Known' /\ Known' \subseteq Known \cup {cpu[c].cert}
      /\ cpu[c].cert \in Known \/ Room => cpu[c].cert \in Known'
  BY <1>3, <1>7 DEF Known
<1> QED
  BY <1>1, <1>2, <1>3, <1>4, <1>5, <1>7, <1>8 DEF Typed

\* Reserve, RingFull, Submit: the maps have been dealt with.
LEMMA RingTyped ==
  ASSUME CaptureTypes, NEW c \in CPUs, Reserve(c) \/ RingFull(c) \/ Submit(c)
  PROVE  /\ Typed(c) /\ seen' = seen /\ observed' = observed /\ news' = news
         /\ cpu[c].pc \in {"reserve", "submit"} /\ cpu'[c].pc \in {"submit", "idle"}
<1>1. /\ cpu[c].pc \in {"reserve", "submit"}
      /\ arrived' = arrived /\ seen' = seen /\ observed' = observed /\ news' = news
  BY DEF Reserve, RingFull, Submit, maps
<1>2. /\ arrived \in Nat /\ seen \in [Fingerprints -> Nat]
      /\ observed \in [Fingerprints -> Nat] /\ news \in [CPUs -> [Fingerprints -> Nat]]
  BY DEF CaptureTypes
<1>3. cpu[c].cert \in Fingerprints /\ observed[cpu[c].cert] > 0
  BY <1>1, CpuTypes DEF Carries
<1>4. CASE Reserve(c)
  <2>1. GoesTo(c, "submit")
    BY <1>4 DEF Reserve
  <2>2. Carries(c)'
    BY <1>1, <1>3, <2>1, Goes DEF Carries
  <2> QED
    BY <1>1, <1>2, <2>1, <2>2, Goes DEF Typed
<1>5. CASE RingFull(c) \/ Submit(c)
  <2>1. cpu' = [cpu EXCEPT ![c] = Local]
    BY <1>5 DEF RingFull, Submit
  <2>2. /\ cpu' \in [CPUs -> CpuRecord]
        /\ cpu'[c].pc = "idle" /\ cpu'[c].cert = "none"
        /\ \A b \in CPUs \ {c} : cpu'[b] = cpu[b]
    BY <2>1, Leaves
  <2>3. Carries(c)'
    BY <2>2 DEF Carries
  <2> QED
    BY <1>1, <1>2, <1>3, <2>2, <2>3 DEF Typed
<1> QED
  BY <1>4, <1>5

LEMMA TypedKept ==
  ASSUME CaptureTypes, NEW c \in CPUs, Typed(c)
  PROVE  CaptureTypes' /\ Shown \subseteq Shown'
<1>1. CaptureTypes'
  <2>1. \A b \in CPUs : Carries(b)'
    BY CarriesKept DEF Typed
  <2> QED
    BY <2>1 DEF Typed, CaptureTypes
<1>2. ASSUME NEW d \in Shown PROVE d \in Shown'
  <2>0. d \in Fingerprints /\ observed[d] \in Nat /\ observed'[d] \in Nat
        /\ observed'[d] >= observed[d]
    BY <1>2 DEF Shown, Typed, CaptureTypes
  <2>1. CASE observed[d] > 0
    BY <2>0, <2>1 DEF Shown
  <2>2. CASE \E b \in CPUs : cpu[b].cert = d
    BY <2>0, <2>2 DEF Shown, Typed
  <2> QED
    BY <1>2, <2>1, <2>2 DEF Shown
<1> QED
  BY <1>1, <1>2

\* More certificates shown need no less room.
LEMMA FitsBefore == ASSUME Shown \subseteq Shown', Fits' PROVE Fits
<1>1. IsFiniteSet(Shown')
  <2>1. Shown' \subseteq Fingerprints
    BY DEF Shown
  <2> QED
    BY <2>1, CaptureAssumption, FS_Subset
<1>2. IsFiniteSet(Shown) /\ Cardinality(Shown) <= Cardinality(Shown')
  BY <1>1, FS_Subset
<1>3. Cardinality(Shown) \in Nat /\ Cardinality(Shown') \in Nat /\ MaxSeen \in Nat
  BY <1>1, <1>2, FS_CardinalityType, CaptureAssumption
<1> QED
  BY <1>2, <1>3 DEF Fits

\* A certificate shown that has no entry finds room for one.
LEMMA RoomForShown ==
  ASSUME Known \subseteq Shown, Fits, NEW d \in Shown, d \notin Known
  PROVE  Room
<1>1. IsFiniteSet(Shown)
  <2>1. Shown \subseteq Fingerprints
    BY DEF Shown
  <2> QED
    BY <2>1, CaptureAssumption, FS_Subset
<1>2. IsFiniteSet(Known) /\ Known \cup {d} \subseteq Shown
  BY <1>1, FS_Subset
<1>3. Cardinality(Known \cup {d}) = Cardinality(Known) + 1
  BY <1>2, FS_AddElement
<1>4. Cardinality(Known \cup {d}) <= Cardinality(Shown)
  BY <1>1, <1>2, FS_Subset
<1>5. Cardinality(Known) \in Nat /\ Cardinality(Shown) \in Nat /\ MaxSeen \in Nat
  BY <1>1, <1>2, FS_CardinalityType, CaptureAssumption
<1> QED
  BY <1>3, <1>4, <1>5 DEF Fits, Room

LEMMA CaptureStepTyped ==
  ASSUME CaptureTypes, CaptureNext
  PROVE  CaptureTypes' /\ Shown \subseteq Shown'
<1>1. CASE \E c \in CPUs, p \in Packets, d \in Fingerprints : Arrive(c, p, d)
  BY <1>1, ArriveTyped, TypedKept
<1>2. CASE \E c \in CPUs : Program(c)
  <2>1. PICK c \in CPUs : Program(c)
    BY <1>2
  <2>2. Typed(c)
    BY <2>1, LookUpTyped, UpdateTyped, InitTyped, InsertTyped, RingTyped DEF Program
  <2> QED
    BY <2>2, TypedKept
<1>3. CASE ReaderTakes \/ ReaderHandles
  <2>1. UNCHANGED <<arrived, cpu, seen, observed, news>>
    BY <1>3 DEF ReaderTakes, ReaderHandles, maps
  <2> QED
    BY <2>1 DEF CaptureTypes, Carries, Shown
<1> QED
  BY <1>1, <1>2, <1>3 DEF CaptureNext

-----------------------------------------------------------------------------
(* SEEN_CERTS and what was told *)

\* A step of c that leaves the maps and the history alone, and c not at "update",
\* "insert" or "init" unless what it carries is as Standing says.
LEMMA SeenUntouched ==
  ASSUME CaptureTypes, SeenInv, NEW c \in CPUs, Typed(c),
         seen' = seen, observed' = observed, news' = news,
         cpu[c].pc # "init",
         Fits => Standing(c)'
  PROVE  SeenInv'
<1>1. Shown \subseteq Shown' /\ Known' = Known
  BY TypedKept DEF Known
<1>2. Known' \subseteq Shown'
  BY <1>1 DEF SeenInv
<1> SUFFICES ASSUME Fits'
             PROVE  /\ \A b \in CPUs : Standing(b)'
                    /\ \A d \in Fingerprints : Entry(d)'
  BY <1>2 DEF SeenInv
<1>3. Fits
  BY <1>1, FitsBefore
<1>4. ASSUME NEW b \in CPUs PROVE Standing(b)'
  <2>1. CASE b = c
    BY <1>3, <2>1
  <2>2. CASE b # c
    <3>1. Standing(b) /\ cpu'[b] = cpu[b]
      BY <1>3, <2>2 DEF SeenInv, Typed
    <3> QED
      BY <1>1, <3>1 DEF Standing
  <2> QED
    BY <2>1, <2>2
<1>5. ASSUME NEW d \in Fingerprints PROVE Entry(d)'
  <2>1. Entry(d)
    BY <1>3 DEF SeenInv
  <2>2. Announced(d) => Announced(d)'
    BY DEF Announced, Typed
  <2> QED
    BY <1>1, <2>1, <2>2 DEF Entry
<1> QED
  BY <1>4, <1>5

LEMMA InsertKeepsSeen ==
  ASSUME CaptureTypes, SeenInv, NEW c \in CPUs, InsertSeen(c)
  PROVE  SeenInv'
<1> DEFINE d0 == cpu[c].cert
<1>0. /\ Typed(c) /\ observed' = observed /\ news' = news
      /\ cpu[c].pc = "insert" /\ d0 \in Fingerprints
      /\ cpu'[c].pc = "init" /\ cpu'[c].cert = d0
      /\ Known \subseteq Known' /\ Known' \subseteq Known \cup {d0}
      /\ d0 \in Known \/ Room => d0 \in Known'
  BY InsertTyped
<1>1. Shown \subseteq Shown' /\ d0 \in Shown
  BY <1>0, TypedKept DEF Shown
<1>2. Known' \subseteq Shown'
  BY <1>0, <1>1 DEF SeenInv
<1> SUFFICES ASSUME Fits'
             PROVE  /\ \A b \in CPUs : Standing(b)'
                    /\ \A d \in Fingerprints : Entry(d)'
  BY <1>2 DEF SeenInv
<1>3. Fits
  BY <1>1, FitsBefore
<1>4. d0 \in Known'
  BY <1>0, <1>1, <1>3, RoomForShown DEF SeenInv
<1>5. news[c][d0] = 0
  BY <1>0, <1>3 DEF SeenInv, Standing
<1>6. ASSUME NEW b \in CPUs PROVE Standing(b)'
  <2>1. CASE b = c
    BY <1>0, <1>4, <1>5, <2>1 DEF Standing
  <2>2. CASE b # c
    <3>1. Standing(b) /\ cpu'[b] = cpu[b]
      BY <1>0, <1>3, <2>2 DEF SeenInv, Typed
    <3> QED
      BY <1>0, <3>1 DEF Standing
  <2> QED
    BY <2>1, <2>2
<1>7. ASSUME NEW d \in Fingerprints PROVE Entry(d)'
  <2>1. Entry(d)
    BY <1>3 DEF SeenInv
  <2>2. Announced(d) \/ d = d0 => Announced(d)'
    BY <1>0 DEF Announced, Typed
  <2> QED
    BY <1>0, <2>1, <2>2 DEF Entry
<1> QED
  BY <1>6, <1>7

\* is_new_cert returns.
LEMMA TellingKeepsSeen ==
  ASSUME CaptureTypes, SeenInv, NEW c \in CPUs, NEW new \in {0, 1}, Told(c, new),
         Typed(c), seen' = seen, cpu[c].cert \in Fingerprints,
         cpu[c].pc = IF new = 1 THEN "init" ELSE "update"
  PROVE  SeenInv'
<1> DEFINE d0 == cpu[c].cert
<1>0. /\ cpu'[c].pc = "reserve"
      /\ \A b \in CPUs \ {c} : cpu'[b] = cpu[b]
      /\ \A d \in Fingerprints \ {d0} : observed'[d] = observed[d]
      /\ news'[c][d0] = news[c][d0] + new
      /\ \A b \in CPUs, d \in Fingerprints : b # c \/ d # d0 => news'[b][d] = news[b][d]
  BY Tells
<1>1. Shown \subseteq Shown' /\ Known' = Known
  BY TypedKept DEF Known
<1>2. Known' \subseteq Shown'
  BY <1>1 DEF SeenInv
<1> SUFFICES ASSUME Fits'
             PROVE  /\ \A b \in CPUs : Standing(b)'
                    /\ \A d \in Fingerprints : Entry(d)'
  BY <1>2 DEF SeenInv
<1>3. Fits
  BY <1>1, FitsBefore
<1>4. d0 \in Known /\ (new = 1 => news[c][d0] = 0)
  BY <1>3 DEF SeenInv, Standing
<1>5. ASSUME NEW b \in CPUs PROVE Standing(b)'
  <2>1. CASE b = c
    BY <1>0, <2>1 DEF Standing
  <2>2. CASE b # c
    <3>1. Standing(b) /\ cpu'[b] = cpu[b] /\ cpu[b] \in CpuRecord /\ Carries(b)
      BY <1>0, <1>3, <2>2, CpuTypes DEF SeenInv
    <3>2. cpu[b].pc \in {"insert", "init"} => news'[b][cpu[b].cert] = news[b][cpu[b].cert]
      BY <1>0, <2>2, <3>1 DEF Carries
    <3> QED
      BY <1>1, <3>1, <3>2 DEF Standing
  <2> QED
    BY <2>1, <2>2
<1>6. ASSUME NEW d \in Fingerprints PROVE Entry(d)'
  <2>1. Entry(d)
    BY <1>3 DEF SeenInv
  <2>2. CASE d # d0
    <3>1. observed'[d] = observed[d] /\ \A b \in CPUs : news'[b][d] = news[b][d]
      BY <1>0, <2>2
    <3>2. Announced(d) => Announced(d)'
      BY <1>0, <2>2, <3>1 DEF Announced
    <3> QED
      BY <1>1, <2>1, <3>1, <3>2 DEF Entry
  <2>3. CASE d = d0
    <3>1. news[c][d0] \in Nat /\ (new = 1 => news'[c][d0] = 1)
          /\ (new = 0 => news'[c][d0] = news[c][d0])
      BY <1>0, <1>4 DEF CaptureTypes
    <3>2. \A b \in CPUs : news'[b][d] <= 1
      BY <1>0, <2>1, <2>3, <3>1 DEF Entry
    <3>3. Announced(d)'
      <4>1. CASE new = 1
        BY <2>3, <3>1, <4>1 DEF Announced
      <4>2. CASE new = 0
        <5>1. Announced(d) /\ cpu[c].pc # "init" /\ \A b \in CPUs : news'[b][d] = news[b][d]
          BY <1>0, <1>4, <2>1, <2>3, <3>1, <4>2 DEF Entry
        <5> QED
          BY <1>0, <5>1 DEF Announced
      <4> QED
        BY <4>1, <4>2
    <3> QED
      BY <1>1, <1>4, <2>3, <3>2, <3>3 DEF Entry
  <2> QED
    BY <2>2, <2>3
<1> QED
  BY <1>5, <1>6

LEMMA SeenKept ==
  ASSUME CaptureTypes, SeenInv, CaptureNext
  PROVE  SeenInv'
<1>1. CASE \E c \in CPUs, p \in Packets, d \in Fingerprints : Arrive(c, p, d)
  <2>1. PICK c \in CPUs, p \in Packets, d \in Fingerprints : Arrive(c, p, d)
    BY <1>1
  <2>2. Standing(c)'
    BY <2>1, ArriveTyped DEF Standing
  <2> QED
    BY <2>1, <2>2, ArriveTyped, SeenUntouched
<1>2. ASSUME NEW c \in CPUs, Program(c) PROVE SeenInv'
  <2>1. CASE LookUp(c)
    <3>1. /\ Typed(c) /\ seen' = seen /\ observed' = observed /\ news' = news
          /\ cpu[c].pc = "lookup" /\ cpu[c].cert \in Fingerprints
          /\ cpu'[c].cert = cpu[c].cert
          /\ cpu[c].cert \in Known => cpu'[c].pc = "update"
          /\ cpu[c].cert \notin Known => cpu'[c].pc = "insert"
      BY <2>1, LookUpTyped
    <3>2. Fits /\ cpu[c].cert \notin Known => news[c][cpu[c].cert] = 0
      <4> SUFFICES ASSUME Fits, cpu[c].cert \notin Known PROVE news[c][cpu[c].cert] = 0
        OBVIOUS
      <4>1. Entry(cpu[c].cert) /\ news[c][cpu[c].cert] \in Nat
        BY <3>1 DEF SeenInv, CaptureTypes
      <4> QED
        BY <4>1 DEF Entry
    <3>3. Known' = Known
      BY <3>1 DEF Known
    <3>4. Fits => Standing(c)'
      BY <3>1, <3>2, <3>3 DEF Standing
    <3> QED
      BY <3>1, <3>4, SeenUntouched
  <2>2. CASE UpdateCertStats(c)
    <3>1. /\ Typed(c) /\ Told(c, 0) /\ seen' = seen
          /\ cpu[c].pc = "update" /\ cpu[c].cert \in Fingerprints
      BY <2>2, UpdateTyped
    <3> QED
      BY <3>1, TellingKeepsSeen
  <2>3. CASE InsertSeen(c)
    BY <2>3, InsertKeepsSeen
  <2>4. CASE InsertStats(c)
    <3>1. /\ Typed(c) /\ Told(c, 1) /\ seen' = seen
          /\ cpu[c].pc = "init" /\ cpu[c].cert \in Fingerprints
      BY <2>4, InitTyped
    <3> QED
      BY <3>1, TellingKeepsSeen
  <2>5. CASE Reserve(c) \/ RingFull(c) \/ Submit(c)
    <3>1. /\ Typed(c) /\ seen' = seen /\ observed' = observed /\ news' = news
          /\ cpu[c].pc \in {"reserve", "submit"} /\ cpu'[c].pc \in {"submit", "idle"}
      BY <2>5, RingTyped
    <3>2. Standing(c)'
      BY <3>1 DEF Standing
    <3> QED
      BY <3>1, <3>2, SeenUntouched
  <2> QED
    BY <1>2, <2>1, <2>2, <2>3, <2>4, <2>5 DEF Program
<1>3. CASE ReaderTakes \/ ReaderHandles
  <2>1. UNCHANGED <<cpu, seen, observed, news>>
    BY <1>3 DEF ReaderTakes, ReaderHandles, maps
  <2> QED
    BY <2>1 DEF SeenInv, Known, Shown, Fits, Standing, Entry, Announced
<1> QED
  BY <1>1, <1>2, <1>3 DEF CaptureNext

LEMMA CaptureInitially ==
  ASSUME CaptureInit
  PROVE  CaptureTypes /\ SeenInv
<1>1. /\ arrived = 0 /\ cpu = [c \in CPUs |-> Local]
      /\ seen = [d \in Fingerprints |-> 0] /\ observed = [d \in Fingerprints |-> 0]
      /\ news = [c \in CPUs |-> [d \in Fingerprints |-> 0]]
  BY DEF CaptureInit
<1>2. Local \in CpuRecord /\ Local.pc = "idle" /\ Local.cert = "none"
  BY DEF Local, CpuRecord
<1>3. CaptureTypes
  BY <1>1, <1>2 DEF CaptureTypes, Carries
<1>4. Known = {}
  BY <1>1 DEF Known
<1>5. \A c \in CPUs : Standing(c)
  BY <1>1, <1>2 DEF Standing
<1>6. \A d \in Fingerprints : Entry(d)
  BY <1>1, <1>4 DEF Entry
<1> QED
  BY <1>3, <1>4, <1>5, <1>6 DEF SeenInv

\* maps.rs, is_new_cert, for any number of CPUs and packets: while SEEN_CERTS has
\* room for the certificates that show up, no CPU calls one new twice, however the
\* accesses of the CPUs to the map interleave, and one observed was announced.
THEOREM AnnouncedPerCpu == CaptureSpec => []NewOncePerCpu
<1>1. CaptureInit => CaptureTypes /\ SeenInv
  BY CaptureInitially
<1>2. CaptureTypes /\ SeenInv /\ [CaptureNext]_captureVars => (CaptureTypes /\ SeenInv)'
  <2>1. CASE UNCHANGED captureVars
    <3>1. UNCHANGED <<arrived, cpu, seen, observed, news>>
      BY <2>1 DEF captureVars, maps
    <3> QED
      BY <3>1 DEF CaptureTypes, Carries, SeenInv, Known, Shown, Fits, Standing, Entry,
                  Announced
  <2> QED
    BY <2>1, CaptureStepTyped, SeenKept
<1>3. SeenInv => NewOncePerCpu
  BY DEF SeenInv, NewOncePerCpu, Entry, Announced
<1> QED
  BY <1>1, <1>2, <1>3, PTL DEF CaptureSpec

-----------------------------------------------------------------------------
(* CERT_STATS and the connections *)

\* What the CPUs have counted of a certificate.
Column(d) == [c \in CPUs |-> stats[c][d]]

\* A CPU that is about to start a count has none.
Opening(c) == cpu[c].pc \in {"insert", "init"} => stats[c][cpu[c].cert] = 0

\* A certificate without a key has neither count nor connection, and the counts of
\* all CPUs add up.
Booked(d) ==
  /\ d \notin counted => observed[d] = 0 /\ \A c \in CPUs : stats[c][d] = 0
  /\ SumFunctionOnSet(Column(d), CPUs) = observed[d]

CountInv ==
  /\ stats \in [CPUs -> [Fingerprints -> Nat]] /\ counted \subseteq Fingerprints
  /\ \A d \in counted : observed[d] > 0
  /\ Fits => /\ \A c \in CPUs : Opening(c)
             /\ \A d \in Fingerprints : Booked(d)

\* A step that leaves CERT_STATS and the history alone.
LEMMA CountsUntouched ==
  ASSUME CaptureTypes, CountInv, NEW c \in CPUs, Typed(c),
         stats' = stats, counted' = counted, observed' = observed,
         Fits => Opening(c)'
  PROVE  CountInv'
<1>1. Shown \subseteq Shown'
  BY TypedKept
<1>2. /\ stats' \in [CPUs -> [Fingerprints -> Nat]] /\ counted' \subseteq Fingerprints
      /\ \A d \in counted' : observed'[d] > 0
  BY DEF CountInv
<1> SUFFICES ASSUME Fits'
             PROVE  /\ \A b \in CPUs : Opening(b)'
                    /\ \A d \in Fingerprints : Booked(d)'
  BY <1>2 DEF CountInv
<1>3. Fits
  BY <1>1, FitsBefore
<1>4. ASSUME NEW b \in CPUs PROVE Opening(b)'
  <2>1. CASE b = c
    BY <1>3, <2>1
  <2>2. CASE b # c
    <3>1. Opening(b) /\ cpu'[b] = cpu[b]
      BY <1>3, <2>2 DEF CountInv, Typed
    <3> QED
      BY <3>1 DEF Opening
  <2> QED
    BY <2>1, <2>2
<1>5. ASSUME NEW d \in Fingerprints PROVE Booked(d)'
  <2>1. Booked(d)
    BY <1>3 DEF CountInv
  <2> QED
    BY <2>1 DEF Booked, Column
<1> QED
  BY <1>4, <1>5

\* A certificate shown that has no key finds room for one.
LEMMA RoomForCount ==
  ASSUME CaptureTypes, CountInv, Fits, NEW d \in Shown, d \notin counted
  PROVE  Cardinality(counted) < MaxSeen
<1>1. IsFiniteSet(Shown)
  <2>1. Shown \subseteq Fingerprints
    BY DEF Shown
  <2> QED
    BY <2>1, CaptureAssumption, FS_Subset
<1>2. counted \cup {d} \subseteq Shown
  BY DEF CountInv, Shown
<1>3. IsFiniteSet(counted)
  BY <1>1, <1>2, FS_Subset
<1>4. Cardinality(counted \cup {d}) = Cardinality(counted) + 1
  BY <1>3, FS_AddElement
<1>5. Cardinality(counted \cup {d}) <= Cardinality(Shown)
  BY <1>1, <1>2, FS_Subset
<1>6. Cardinality(counted) \in Nat /\ Cardinality(Shown) \in Nat /\ MaxSeen \in Nat
  BY <1>1, <1>3, FS_CardinalityType, CaptureAssumption
<1> QED
  BY <1>4, <1>5, <1>6 DEF Fits

\* is_new_cert comes to its end: one CPU counts one connection.
LEMMA TellingCounts ==
  ASSUME CaptureTypes, CountInv, NEW c \in CPUs, NEW new \in {0, 1}, Told(c, new),
         Typed(c), cpu[c].cert \in Fingerprints,
         NEW n \in Nat, StatsInsert(c, cpu[c].cert, n),
         Fits => n = stats[c][cpu[c].cert] + 1
  PROVE  CountInv'
<1> DEFINE d0 == cpu[c].cert
           row == [stats[c] EXCEPT ![d0] = n]
<1>0. /\ cpu'[c].pc = "reserve"
      /\ \A b \in CPUs \ {c} : cpu'[b] = cpu[b]
      /\ observed' \in [Fingerprints -> Nat] /\ observed'[d0] = observed[d0] + 1
      /\ \A d \in Fingerprints \ {d0} : observed'[d] = observed[d]
  BY Tells
<1>1. /\ stats \in [CPUs -> [Fingerprints -> Nat]] /\ counted \subseteq Fingerprints
      /\ observed \in [Fingerprints -> Nat]
      /\ \A d \in counted : observed[d] > 0
  BY DEF CountInv, CaptureTypes
<1>2. Shown \subseteq Shown' /\ d0 \in Shown
  BY TypedKept DEF Shown
<1>3. \/ stats' = [stats EXCEPT ![c] = row] /\ counted' = counted \cup {d0}
      \/ /\ stats' = stats /\ counted' = counted
         /\ d0 \notin counted /\ ~(Cardinality(counted) < MaxSeen)
  BY DEF StatsInsert
<1>4. row \in [Fingerprints -> Nat] /\ row[d0] = n
      /\ \A d \in Fingerprints \ {d0} : row[d] = stats[c][d]
  BY <1>1
<1> HIDE DEF row
<1>5. /\ stats' \in [CPUs -> [Fingerprints -> Nat]] /\ counted' \subseteq Fingerprints
      /\ \A d \in counted' : observed'[d] > 0
  BY <1>0, <1>1, <1>3, <1>4
<1> SUFFICES ASSUME Fits'
             PROVE  /\ \A b \in CPUs : Opening(b)'
                    /\ \A d \in Fingerprints : Booked(d)'
  BY <1>5 DEF CountInv
<1>6. Fits
  BY <1>2, FitsBefore
<1>7. stats' = [stats EXCEPT ![c] = row] /\ counted' = counted \cup {d0}
  BY <1>2, <1>3, <1>6, RoomForCount
<1>8. /\ stats'[c] = row /\ \A b \in CPUs \ {c} : stats'[b] = stats[b]
  BY <1>1, <1>7
<1>9. ASSUME NEW b \in CPUs PROVE Opening(b)'
  <2>1. CASE b = c
    BY <1>0, <2>1 DEF Opening
  <2>2. CASE b # c
    <3>1. Opening(b) /\ cpu'[b] = cpu[b] /\ stats'[b] = stats[b]
      BY <1>0, <1>6, <1>8, <2>2 DEF CountInv
    <3> QED
      BY <3>1 DEF Opening
  <2> QED
    BY <2>1, <2>2
<1>10. ASSUME NEW d \in Fingerprints PROVE Booked(d)'
  <2>0. Booked(d) /\ IsFiniteSet(CPUs)
    BY <1>6, CaptureAssumption DEF CountInv
  <2>1. CASE d # d0
    <3>1. \A b \in CPUs : stats'[b][d] = stats[b][d]
      BY <1>4, <1>8, <2>1
    <3>2. Column(d)' = Column(d)
      BY <3>1 DEF Column
    <3>3. observed'[d] = observed[d] /\ (d \notin counted' => d \notin counted)
      BY <1>0, <1>7, <2>1
    <3> QED
      BY <2>0, <3>1, <3>2, <3>3 DEF Booked
  <2>2. CASE d = d0
    <3>1. n = stats[c][d] + 1 /\ observed'[d] = observed[d] + 1
      BY <1>0, <1>6, <2>2
    <3>2. /\ \A b \in CPUs : Column(d)[b] \in Int
          /\ \A b \in CPUs \ {c} : Column(d)'[b] = Column(d)[b]
          /\ Column(d)'[c] = Column(d)[c] + 1
      BY <1>1, <1>4, <1>8, <2>2, <3>1 DEF Column
    <3>3. SumFunctionOnSet(Column(d)', CPUs) = SumFunctionOnSet(Column(d), CPUs) + 1
      BY <2>0, <3>2, OneMore
    <3>4. SumFunctionOnSet(Column(d)', CPUs) = observed'[d]
      BY <2>0, <3>1, <3>3 DEF Booked
    <3>5. d \in counted'
      BY <1>7, <2>2
    <3> QED
      BY <3>4, <3>5 DEF Booked
  <2> QED
    BY <2>1, <2>2
<1> QED
  BY <1>9, <1>10

LEMMA CountsKept ==
  ASSUME CaptureTypes, SeenInv, CountInv, CaptureNext
  PROVE  CountInv'
<1>1. CASE \E c \in CPUs, p \in Packets, d \in Fingerprints : Arrive(c, p, d)
  <2>1. PICK c \in CPUs, p \in Packets, d \in Fingerprints : Arrive(c, p, d)
    BY <1>1
  <2>2. Typed(c) /\ observed' = observed /\ cpu'[c].pc \in {"idle", "lookup"}
    BY <2>1, ArriveTyped
  <2>3. Opening(c)' /\ stats' = stats /\ counted' = counted
    BY <2>1, <2>2 DEF Opening, Arrive
  <2> QED
    BY <2>2, <2>3, CountsUntouched
<1>2. ASSUME NEW c \in CPUs, Program(c) PROVE CountInv'
  <2>1. CASE LookUp(c)
    <3>1. /\ Typed(c) /\ observed' = observed
          /\ cpu[c].cert \in Fingerprints /\ cpu'[c].cert = cpu[c].cert
          /\ cpu[c].cert \in Known => cpu'[c].pc = "update"
      BY <2>1, LookUpTyped
    <3>2. stats' = stats /\ counted' = counted
      BY <2>1 DEF LookUp, maps
    <3>3. ASSUME Fits, cpu[c].cert \notin Known PROVE stats[c][cpu[c].cert] = 0
      <4>1. Entry(cpu[c].cert) /\ Booked(cpu[c].cert) /\ observed[cpu[c].cert] \in Nat
        BY <3>1, <3>3 DEF SeenInv, CountInv, CaptureTypes
      <4>2. observed[cpu[c].cert] = 0
        BY <3>3, <4>1 DEF Entry
      <4>3. cpu[c].cert \notin counted
        BY <4>2 DEF CountInv
      <4> QED
        BY <4>1, <4>3 DEF Booked
    <3>4. Fits => Opening(c)'
      BY <3>1, <3>2, <3>3 DEF Opening
    <3> QED
      BY <3>1, <3>2, <3>4, CountsUntouched
  <2>2. CASE UpdateCertStats(c)
    <3> DEFINE n == Counted(c, cpu[c].cert)
    <3>1. Typed(c) /\ Told(c, 0) /\ cpu[c].cert \in Fingerprints
      BY <2>2, UpdateTyped
    <3>2. StatsInsert(c, cpu[c].cert, n)
      BY <2>2 DEF UpdateCertStats
    <3>3. stats[c][cpu[c].cert] \in Nat
      BY <3>1 DEF CountInv
    <3>4. n \in Nat
      BY <3>3 DEF Counted
    <3>5. Fits => n = stats[c][cpu[c].cert] + 1
      <4> SUFFICES ASSUME Fits PROVE n = stats[c][cpu[c].cert] + 1
        OBVIOUS
      <4>1. Booked(cpu[c].cert)
        BY <3>1 DEF CountInv
      <4> QED
        BY <3>3, <4>1 DEF Booked, Counted
    <3> HIDE DEF n
    <3> QED
      BY <3>1, <3>2, <3>4, <3>5, TellingCounts
  <2>3. CASE InsertSeen(c)
    <3>1. /\ Typed(c) /\ observed' = observed
          /\ cpu[c].pc = "insert" /\ cpu'[c].cert = cpu[c].cert
      BY <2>3, InsertTyped
    <3>2. stats' = stats /\ counted' = counted
      BY <2>3 DEF InsertSeen
    <3>3. Fits => Opening(c)'
      BY <3>1, <3>2 DEF CountInv, Opening
    <3> QED
      BY <3>1, <3>2, <3>3, CountsUntouched
  <2>4. CASE InsertStats(c)
    <3>1. /\ Typed(c) /\ Told(c, 1)
          /\ cpu[c].pc = "init" /\ cpu[c].cert \in Fingerprints
      BY <2>4, InitTyped
    <3>2. StatsInsert(c, cpu[c].cert, 1)
      BY <2>4 DEF InsertStats
    <3>3. Fits => 1 = stats[c][cpu[c].cert] + 1
      BY <3>1 DEF CountInv, Opening
    <3> QED
      BY <3>1, <3>2, <3>3, TellingCounts
  <2>5. CASE Reserve(c) \/ RingFull(c) \/ Submit(c)
    <3>1. Typed(c) /\ observed' = observed /\ cpu'[c].pc \in {"submit", "idle"}
      BY <2>5, RingTyped
    <3>2. Opening(c)' /\ stats' = stats /\ counted' = counted
      BY <2>5, <3>1 DEF Opening, Reserve, RingFull, Submit, maps
    <3> QED
      BY <3>1, <3>2, CountsUntouched
  <2> QED
    BY <1>2, <2>1, <2>2, <2>3, <2>4, <2>5 DEF Program
<1>3. CASE ReaderTakes \/ ReaderHandles
  <2>1. UNCHANGED <<cpu, stats, counted, observed>>
    BY <1>3 DEF ReaderTakes, ReaderHandles, maps
  <2> QED
    BY <2>1 DEF CountInv, Shown, Fits, Opening, Booked, Column
<1> QED
  BY <1>1, <1>2, <1>3 DEF CaptureNext

LEMMA CountsInitially ==
  ASSUME CaptureInit
  PROVE  CountInv
<1>1. /\ cpu = [c \in CPUs |-> Local] /\ counted = {}
      /\ stats = [c \in CPUs |-> [d \in Fingerprints |-> 0]]
      /\ observed = [d \in Fingerprints |-> 0]
  BY DEF CaptureInit
<1>2. \A c \in CPUs : Opening(c)
  BY <1>1 DEF Opening, Local
<1>3. ASSUME NEW d \in Fingerprints PROVE Booked(d)
  <2>1. \A c \in CPUs : Column(d)[c] = 0
    BY <1>1 DEF Column
  <2>2. SumFunctionOnSet(Column(d), CPUs) = 0
    BY <2>1, CaptureAssumption, SumOfZeros
  <2> QED
    BY <1>1, <2>2 DEF Booked
<1> QED
  BY <1>1, <1>2, <1>3 DEF CountInv

\* maps.rs, CERT_STATS: while the certificates that show up fit, the counts of all
\* CPUs together are the number of connections, for any number of CPUs: a CPU that
\* starts at 1 a count another has begun had none of its own.
THEOREM ConnectionsAreCounted == CaptureSpec => []ConnectionsCounted
<1> DEFINE Inv == CaptureTypes /\ SeenInv /\ CountInv
<1>1. CaptureInit => Inv
  BY CaptureInitially, CountsInitially
<1>2. Inv /\ [CaptureNext]_captureVars => Inv'
  <2>1. CASE UNCHANGED captureVars
    <3>1. UNCHANGED <<arrived, cpu, seen, stats, counted, observed, news>>
      BY <2>1 DEF captureVars, maps
    <3> QED
      BY <3>1 DEF CaptureTypes, Carries, SeenInv, Known, Shown, Fits, Standing, Entry,
                  Announced, CountInv, Opening, Booked, Column
  <2> QED
    BY <2>1, CaptureStepTyped, SeenKept, CountsKept
<1>3. Inv => ConnectionsCounted
  <2> SUFFICES ASSUME CountInv, Fits, NEW d \in Fingerprints
               PROVE  SumFunction([c \in CPUs |-> stats[c][d]]) = observed[d]
    BY DEF ConnectionsCounted
  <2>1. SumFunctionOnSet(Column(d), CPUs) = observed[d]
    BY DEF CountInv, Booked
  <2>2. DOMAIN Column(d) = CPUs
    BY DEF Column
  <2>3. SumFunction(Column(d)) = SumFunctionOnSet(Column(d), CPUs)
    BY <2>2, Zenon DEF SumFunction, SumFunctionOnSet
  <2> QED
    BY <2>1, <2>3 DEF Column
<1> QED
  BY <1>1, <1>2, <1>3, PTL DEF CaptureSpec


-----------------------------------------------------------------------------
(* Every event *)

\* A CPU that has told and not yet asked for room in the ring.
Waiting == {c \in CPUs : cpu[c].pc = "reserve"}

\* What the CPUs had to drop.
Dropped == [c \in CPUs |-> drops[c].full]

RingRecord ==
  [cpu : CPUs, at : Nat, new : {0, 1},
   event : {NoEvent} \cup {Event(p) : p \in Packets}, submitted : BOOLEAN]

RingTypes ==
  /\ drops \in [CPUs -> [full : Nat, malformed : Nat, total : Nat]]
  /\ ring \in Seq(RingRecord)
  /\ reader = <<>> \/ \E r \in RingRecord : reader = <<r>>
  /\ readerStats \in [received : Nat, processed : Nat, malformed : Nat, truncated : Nat]

EventInv ==
  /\ RingTypes
  /\ SumFunctionOnSet(observed, Fingerprints) =
       SumFunctionOnSet(Dropped, CPUs) + Len(ring) + readerStats.received
       + Cardinality(Waiting)
  /\ readerStats.received =
       readerStats.processed + readerStats.malformed + Len(reader)

\* The sizes that are added up are numbers.
LEMMA Sizes ==
  ASSUME CaptureTypes, RingTypes
  PROVE  /\ SumFunctionOnSet(observed, Fingerprints) \in Int
         /\ SumFunctionOnSet(Dropped, CPUs) \in Int
         /\ Len(ring) \in Nat /\ readerStats.received \in Nat
         /\ readerStats.processed \in Nat /\ readerStats.malformed \in Nat
         /\ IsFiniteSet(Waiting) /\ Cardinality(Waiting) \in Nat
<1>1. SumFunctionOnSet(observed, Fingerprints) \in Int
  <2>1. IsFiniteSet(Fingerprints) /\ \A d \in Fingerprints : observed[d] \in Int
    BY CaptureAssumption DEF CaptureTypes
  <2> QED
    BY <2>1, SumType
<1>2. SumFunctionOnSet(Dropped, CPUs) \in Int
  <2>1. IsFiniteSet(CPUs) /\ \A c \in CPUs : Dropped[c] \in Int
    BY CaptureAssumption DEF RingTypes, Dropped
  <2> QED
    BY <2>1, SumType
<1>3. IsFiniteSet(Waiting) /\ Cardinality(Waiting) \in Nat
  <2>1. Waiting \subseteq CPUs /\ IsFiniteSet(CPUs)
    BY CaptureAssumption DEF Waiting
  <2> QED
    BY <2>1, FS_Subset, FS_CardinalityType
<1> QED
  BY <1>1, <1>2, <1>3 DEF RingTypes

\* A CPU begins or ends waiting.
LEMMA WaitingChanges ==
  ASSUME CaptureTypes, NEW c \in CPUs, cpu' \in [CPUs -> CpuRecord],
         \A b \in CPUs \ {c} : cpu'[b] = cpu[b]
  PROVE  /\ (cpu[c].pc = "reserve") = (cpu'[c].pc = "reserve") => Waiting' = Waiting
         /\ cpu[c].pc # "reserve" /\ cpu'[c].pc = "reserve" =>
              Cardinality(Waiting') = Cardinality(Waiting) + 1
         /\ cpu[c].pc = "reserve" /\ cpu'[c].pc # "reserve" =>
              Cardinality(Waiting') = Cardinality(Waiting) - 1
<1>1. IsFiniteSet(Waiting)
  <2>1. Waiting \subseteq CPUs /\ IsFiniteSet(CPUs)
    BY CaptureAssumption DEF Waiting
  <2> QED
    BY <2>1, FS_Subset
<1>2. ASSUME (cpu[c].pc = "reserve") = (cpu'[c].pc = "reserve")
      PROVE  Waiting' = Waiting
  <2>1. \A b \in CPUs : cpu[b].pc = "reserve" <=> cpu'[b].pc = "reserve"
    BY <1>2
  <2> QED
    BY <2>1 DEF Waiting
<1>3. ASSUME cpu[c].pc # "reserve", cpu'[c].pc = "reserve"
      PROVE  Cardinality(Waiting') = Cardinality(Waiting) + 1
  <2>1. c \notin Waiting /\ Waiting' = Waiting \cup {c}
    BY <1>3 DEF Waiting
  <2> QED
    BY <1>1, <2>1, FS_AddElement
<1>4. ASSUME cpu[c].pc = "reserve", cpu'[c].pc # "reserve"
      PROVE  Cardinality(Waiting') = Cardinality(Waiting) - 1
  <2>1. c \in Waiting /\ Waiting' = Waiting \ {c}
    BY <1>4 DEF Waiting
  <2> QED
    BY <1>1, <2>1, FS_RemoveElement
<1> QED
  BY <1>2, <1>3, <1>4

\* Counters of a CPU other than the dropped events.
LEMMA ArriveAccounts ==
  ASSUME CaptureTypes, EventInv, NEW c \in CPUs, NEW p \in Packets,
         NEW d \in Fingerprints, Arrive(c, p, d)
  PROVE  EventInv'
<1>1. Typed(c) /\ observed' = observed /\ cpu[c].pc = "idle" /\ cpu'[c].pc \in {"idle", "lookup"}
  BY ArriveTyped
<1>2. ring' = ring /\ reader' = reader /\ readerStats' = readerStats
  BY DEF Arrive, user
<1>3. Waiting' = Waiting
  BY <1>1, WaitingChanges DEF Typed
<1> DEFINE m == drops[c].malformed + (IF MalformedPacket(p) THEN 1 ELSE 0)
           t == drops[c].total + (IF IsTls(p) THEN 1 ELSE 0)
           row == [drops[c] EXCEPT !.malformed = m, !.total = t]
<1>4. drops' = [drops EXCEPT ![c] = row]
  BY DEF Arrive, CountPacket
<1>5. m \in Nat /\ t \in Nat /\ drops \in [CPUs -> [full : Nat, malformed : Nat, total : Nat]]
  BY SMTT(30) DEF EventInv, RingTypes
<1> HIDE DEF m, t
<1>6. row \in [full : Nat, malformed : Nat, total : Nat] /\ row.full = drops[c].full
  BY <1>5
<1> HIDE DEF row
<1>7. /\ drops' \in [CPUs -> [full : Nat, malformed : Nat, total : Nat]]
      /\ \A b \in CPUs : drops'[b].full = drops[b].full
  BY <1>4, <1>5, <1>6
<1>8. Dropped' = Dropped
  BY <1>7 DEF Dropped
<1> QED
  BY <1>1, <1>2, <1>3, <1>7, <1>8 DEF EventInv, RingTypes

\* One connection more, and its CPU waits.
LEMMA TellingAccounts ==
  ASSUME CaptureTypes, EventInv, NEW c \in CPUs, NEW new \in {0, 1}, Told(c, new),
         Typed(c), cpu[c].cert \in Fingerprints, cpu[c].pc # "reserve",
         UNCHANGED <<drops, ring, reader, readerStats>>
  PROVE  EventInv'
<1>1. /\ cpu'[c].pc = "reserve" /\ observed' \in [Fingerprints -> Nat]
      /\ observed'[cpu[c].cert] = observed[cpu[c].cert] + 1
      /\ \A d \in Fingerprints \ {cpu[c].cert} : observed'[d] = observed[d]
  BY Tells
<1>2. Cardinality(Waiting') = Cardinality(Waiting) + 1
  BY <1>1, WaitingChanges DEF Typed
<1>3. SumFunctionOnSet(observed', Fingerprints) = SumFunctionOnSet(observed, Fingerprints) + 1
  <2>1. IsFiniteSet(Fingerprints) /\ \A d \in Fingerprints : observed[d] \in Int
    BY CaptureAssumption DEF CaptureTypes
  <2> QED
    BY <1>1, <2>1, OneMore
<1>4. RingTypes' /\ Dropped' = Dropped
  BY DEF EventInv, RingTypes, Dropped
<1>5. /\ Len(ring') = Len(ring) /\ readerStats' = readerStats /\ reader' = reader
  OBVIOUS
<1> QED
  BY <1>2, <1>3, <1>4, <1>5, Sizes DEF EventInv

LEMMA ReserveAccounts ==
  ASSUME CaptureTypes, EventInv, NEW c \in CPUs, Reserve(c)
  PROVE  EventInv'
<1> DEFINE r == [cpu |-> c, at |-> cpu[c].at, new |-> cpu[c].new,
                 event |-> cpu[c].event, submitted |-> FALSE]
<1>1. /\ cpu[c].pc = "reserve" /\ ring' = Append(ring, r) /\ GoesTo(c, "submit")
      /\ UNCHANGED <<drops, reader, readerStats, observed>>
  BY DEF Reserve, maps, user
<1>2. cpu' \in [CPUs -> CpuRecord] /\ cpu'[c].pc = "submit"
      /\ \A b \in CPUs \ {c} : cpu'[b] = cpu[b]
  BY <1>1, Goes
<1>3. Cardinality(Waiting') = Cardinality(Waiting) - 1
  BY <1>1, <1>2, WaitingChanges
<1>4. r \in RingRecord
  BY CpuTypes DEF CpuRecord, RingRecord
<1> HIDE DEF r
<1>5. ring \in Seq(RingRecord)
  BY DEF EventInv, RingTypes
<1>6. ring' \in Seq(RingRecord) /\ Len(ring') = Len(ring) + 1
  BY <1>1, <1>4, <1>5
<1>7. RingTypes' /\ Dropped' = Dropped
  BY <1>1, <1>6 DEF EventInv, RingTypes, Dropped
<1> QED
  BY <1>1, <1>3, <1>6, <1>7, Sizes DEF EventInv

LEMMA RingFullAccounts ==
  ASSUME CaptureTypes, EventInv, NEW c \in CPUs, RingFull(c)
  PROVE  EventInv'
<1> DEFINE row == [drops[c] EXCEPT !.full = drops[c].full + 1]
<1>0. drops' = [drops EXCEPT ![c] = row]
  BY DEF RingFull, DropCounted, Increment
<1>1. /\ cpu[c].pc = "reserve" /\ cpu' = [cpu EXCEPT ![c] = Local]
      /\ UNCHANGED <<ring, reader, readerStats, observed>>
  BY DEF RingFull, user
<1>2. Cardinality(Waiting') = Cardinality(Waiting) - 1
  BY <1>1, Leaves, WaitingChanges
<1>3. drops \in [CPUs -> [full : Nat, malformed : Nat, total : Nat]]
  BY DEF EventInv, RingTypes
<1>4. /\ row \in [full : Nat, malformed : Nat, total : Nat]
      /\ row.full = drops[c].full + 1
  BY <1>3
<1> HIDE DEF row
<1>5. /\ drops' \in [CPUs -> [full : Nat, malformed : Nat, total : Nat]]
      /\ drops'[c].full = drops[c].full + 1
      /\ \A b \in CPUs \ {c} : drops'[b].full = drops[b].full
  BY <1>0, <1>3, <1>4
<1>6. SumFunctionOnSet(Dropped', CPUs) = SumFunctionOnSet(Dropped, CPUs) + 1
  <2>1. /\ IsFiniteSet(CPUs) /\ \A b \in CPUs : Dropped[b] \in Int
        /\ \A b \in CPUs \ {c} : Dropped'[b] = Dropped[b]
        /\ Dropped'[c] = Dropped[c] + 1
    BY <1>3, <1>5, CaptureAssumption DEF Dropped
  <2> QED
    BY <2>1, OneMore
<1>7. RingTypes'
  BY <1>1, <1>5 DEF EventInv, RingTypes
<1>8. SumFunctionOnSet(observed', Fingerprints) = SumFunctionOnSet(observed, Fingerprints)
      /\ Len(ring') = Len(ring)
  BY <1>1
<1> QED
  BY <1>1, <1>2, <1>6, <1>7, <1>8, Sizes DEF EventInv

LEMMA SubmitAccounts ==
  ASSUME CaptureTypes, EventInv, NEW c \in CPUs, Submit(c)
  PROVE  EventInv'
<1>1. /\ cpu[c].pc = "submit" /\ cpu' = [cpu EXCEPT ![c] = Local]
      /\ UNCHANGED <<drops, reader, readerStats, observed>>
  BY DEF Submit, maps, user
<1>2. Waiting' = Waiting
  BY <1>1, Leaves, WaitingChanges
<1>3. PICK i \in DOMAIN ring : ring' = [ring EXCEPT ![i] = [ring[i] EXCEPT !.submitted = TRUE]]
  BY DEF Submit
<1>4. ring \in Seq(RingRecord) /\ ring[i] \in RingRecord
  BY DEF EventInv, RingTypes
<1> DEFINE r == [ring[i] EXCEPT !.submitted = TRUE]
<1>5. r \in RingRecord
  BY <1>4 DEF RingRecord
<1> HIDE DEF r
<1>6. ring' = [ring EXCEPT ![i] = r]
  BY <1>3 DEF r
<1>7. ring' \in Seq(RingRecord) /\ Len(ring') = Len(ring)
  BY <1>4, <1>5, <1>6
<1>8. RingTypes' /\ Dropped' = Dropped
  BY <1>1, <1>7 DEF EventInv, RingTypes, Dropped
<1> QED
  BY <1>1, <1>2, <1>7, <1>8 DEF EventInv

LEMMA ReaderAccounts ==
  ASSUME CaptureTypes, EventInv, ReaderTakes \/ ReaderHandles
  PROVE  EventInv'
<1>1. UNCHANGED <<drops, cpu, observed>>
  BY DEF ReaderTakes, ReaderHandles, maps
<1>2. Waiting' = Waiting /\ Dropped' = Dropped
  BY <1>1 DEF Waiting, Dropped
<1>3. /\ ring \in Seq(RingRecord)
      /\ readerStats \in [received : Nat, processed : Nat, malformed : Nat, truncated : Nat]
      /\ reader = <<>> \/ \E r \in RingRecord : reader = <<r>>
      /\ drops \in [CPUs -> [full : Nat, malformed : Nat, total : Nat]]
  BY DEF EventInv, RingTypes
<1>4. CASE ReaderTakes
  <2> DEFINE n == readerStats.received + 1
  <2>1. /\ reader = <<>> /\ ring # <<>> /\ ring' = Tail(ring) /\ reader' = <<Head(ring)>>
        /\ readerStats' = [readerStats EXCEPT !.received = n]
    BY <1>4 DEF ReaderTakes
  <2>2. /\ ring' \in Seq(RingRecord) /\ Len(ring') = Len(ring) - 1 /\ Head(ring) \in RingRecord
    BY <1>3, <2>1
  <2>3. Len(reader) = 0 /\ Len(reader') = 1
    BY <2>1
  <2>4. /\ readerStats' \in [received : Nat, processed : Nat, malformed : Nat, truncated : Nat]
        /\ readerStats'.received = readerStats.received + 1
        /\ readerStats'.processed = readerStats.processed
        /\ readerStats'.malformed = readerStats.malformed
    <3>1. n \in Nat /\ n = readerStats.received + 1
      BY <1>3
    <3> HIDE DEF n
    <3> QED
      BY <1>3, <2>1, <3>1
  <2>5. RingTypes'
    BY <1>1, <1>3, <2>1, <2>2, <2>4 DEF RingTypes
  <2>6. SumFunctionOnSet(observed', Fingerprints) = SumFunctionOnSet(observed, Fingerprints)
    BY <1>1
  <2>7. RingTypes
    BY DEF EventInv
  <2> QED
    <3>1. Cardinality(Waiting') = Cardinality(Waiting)
      BY <1>2
    <3>2. SumFunctionOnSet(Dropped', CPUs) = SumFunctionOnSet(Dropped, CPUs)
      BY <1>2
    <3>3. readerStats'.received = readerStats'.processed + readerStats'.malformed + Len(reader')
      BY <2>3, <2>4, <2>7, Sizes DEF EventInv
    <3>4. Len(ring') + readerStats'.received = Len(ring) + readerStats.received
      BY <2>2, <2>4, <2>7, Sizes
    <3>5. SumFunctionOnSet(observed', Fingerprints) =
            SumFunctionOnSet(Dropped', CPUs) + Len(ring') + readerStats'.received
            + Cardinality(Waiting')
      <4>1. /\ Len(ring) \in Nat /\ Len(ring') \in Nat
            /\ readerStats.received \in Nat /\ readerStats'.received \in Nat
        BY <2>2, <2>4, <2>7, Sizes
      <4>2. /\ SumFunctionOnSet(observed, Fingerprints) =
                 SumFunctionOnSet(Dropped, CPUs) + Len(ring) + readerStats.received
                 + Cardinality(Waiting)
            /\ SumFunctionOnSet(Dropped, CPUs) \in Int /\ Cardinality(Waiting) \in Nat
        BY <2>7, Sizes DEF EventInv
      <4>3. SumFunctionOnSet(Dropped, CPUs) + Len(ring) + readerStats.received
              = SumFunctionOnSet(Dropped, CPUs) + Len(ring') + readerStats'.received
        <5>1. /\ SumFunctionOnSet(Dropped, CPUs) \in Int
              /\ Len(ring) \in Int /\ Len(ring') \in Int
              /\ readerStats.received \in Int /\ readerStats'.received \in Int
          BY <4>1, <4>2
        <5> QED
          BY <3>4, <5>1, SMTT(30)
      <4> QED
        BY <2>6, <3>1, <3>2, <4>2, <4>3
    <3> QED
      BY <2>5, <3>3, <3>5 DEF EventInv
<1>5. CASE ReaderHandles
  <2> DEFINE outcome == ProcessEvent(reader[1].event)
             p == readerStats.processed + (IF outcome # "malformed" THEN 1 ELSE 0)
             m == readerStats.malformed + (IF outcome = "malformed" THEN 1 ELSE 0)
             t == readerStats.truncated
                    + (IF outcome # "malformed" /\ IsTruncated(reader[1].event) THEN 1 ELSE 0)
  <2>1. /\ reader # <<>> /\ reader' = <<>> /\ ring' = ring
        /\ readerStats' = [readerStats EXCEPT !.processed = p, !.malformed = m,
                                              !.truncated = t]
    BY <1>5 DEF ReaderHandles
  <2>2. p \in Nat /\ m \in Nat /\ t \in Nat
    BY <1>3
  <2>3. p + m = readerStats.processed + readerStats.malformed + 1
    BY <1>3
  <2>4. Len(reader) = 1 /\ Len(reader') = 0
    BY <1>3, <2>1
  <2> HIDE DEF p, m, t
  <2>5. /\ readerStats' \in [received : Nat, processed : Nat, malformed : Nat, truncated : Nat]
        /\ readerStats'.received = readerStats.received
        /\ readerStats'.processed = p /\ readerStats'.malformed = m
    BY <1>3, <2>1, <2>2
  <2>6. RingTypes'
    BY <1>1, <1>3, <2>1, <2>5 DEF RingTypes
  <2>7. SumFunctionOnSet(observed', Fingerprints) = SumFunctionOnSet(observed, Fingerprints)
    BY <1>1
  <2>8. RingTypes
    BY DEF EventInv
  <2> QED
    BY <1>2, <2>1, <2>2, <2>3, <2>4, <2>5, <2>6, <2>7, <2>8, Sizes DEF EventInv
<1> QED
  BY <1>4, <1>5

LEMMA EventsKept ==
  ASSUME CaptureTypes, EventInv, CaptureNext
  PROVE  EventInv'
<1>1. CASE \E c \in CPUs, p \in Packets, d \in Fingerprints : Arrive(c, p, d)
  BY <1>1, ArriveAccounts
<1>2. ASSUME NEW c \in CPUs, Program(c) PROVE EventInv'
  <2>1. CASE LookUp(c) \/ InsertSeen(c)
    <3>1. /\ Typed(c) /\ observed' = observed
          /\ cpu[c].pc \in {"lookup", "insert"} /\ cpu'[c].pc # "reserve"
      <4>1. CASE LookUp(c)
        <5>1. cpu'[c].pc \in {"update", "insert"}
          BY <4>1, LookUpTyped
        <5> QED
          BY <4>1, <5>1, LookUpTyped
      <4>2. CASE InsertSeen(c)
        BY <4>2, InsertTyped
      <4> QED
        BY <2>1, <4>1, <4>2
    <3>2. Waiting' = Waiting
      BY <3>1, WaitingChanges DEF Typed
    <3>3. UNCHANGED <<drops, ring, reader, readerStats>>
      BY <2>1 DEF LookUp, InsertSeen, maps, user
    <3> QED
      BY <3>1, <3>2, <3>3 DEF EventInv, RingTypes, Dropped
  <2>2. CASE UpdateCertStats(c)
    <3>1. /\ Typed(c) /\ Told(c, 0) /\ cpu[c].pc = "update" /\ cpu[c].cert \in Fingerprints
      BY <2>2, UpdateTyped
    <3>2. UNCHANGED <<drops, ring, reader, readerStats>>
      BY <2>2 DEF UpdateCertStats, user
    <3> QED
      BY <3>1, <3>2, TellingAccounts
  <2>3. CASE InsertStats(c)
    <3>1. /\ Typed(c) /\ Told(c, 1) /\ cpu[c].pc = "init" /\ cpu[c].cert \in Fingerprints
      BY <2>3, InitTyped
    <3>2. UNCHANGED <<drops, ring, reader, readerStats>>
      BY <2>3 DEF InsertStats, user
    <3> QED
      BY <3>1, <3>2, TellingAccounts
  <2> QED
    BY <1>2, <2>1, <2>2, <2>3, ReserveAccounts, RingFullAccounts, SubmitAccounts DEF Program
<1> QED
  BY <1>1, <1>2, ReaderAccounts DEF CaptureNext

LEMMA EventsInitially ==
  ASSUME CaptureInit
  PROVE  EventInv
<1>1. /\ cpu = [c \in CPUs |-> Local] /\ observed = [d \in Fingerprints |-> 0]
      /\ drops = [c \in CPUs |-> [full |-> 0, malformed |-> 0, total |-> 0]]
      /\ ring = <<>> /\ reader = <<>>
      /\ readerStats = [received |-> 0, processed |-> 0, malformed |-> 0, truncated |-> 0]
  BY DEF CaptureInit
<1>2. RingTypes
  BY <1>1 DEF RingTypes
<1>3. Cardinality(Waiting) = 0
  <2>1. Waiting = {}
    BY <1>1 DEF Waiting, Local
  <2> QED
    BY <2>1, FS_EmptySet
<1>4. SumFunctionOnSet(observed, Fingerprints) = 0
  <2>1. \A d \in Fingerprints : observed[d] = 0
    BY <1>1
  <2> QED
    BY <2>1, CaptureAssumption, SumOfZeros
<1>5. SumFunctionOnSet(Dropped, CPUs) = 0
  <2>1. \A c \in CPUs : Dropped[c] = 0
    BY <1>1 DEF Dropped
  <2> QED
    BY <2>1, CaptureAssumption, SumOfZeros
<1>6. Len(ring) = 0 /\ Len(reader) = 0 /\ readerStats.received = 0
      /\ readerStats.processed = 0 /\ readerStats.malformed = 0
  BY <1>1
<1> QED
  BY <1>2, <1>3, <1>4, <1>5, <1>6 DEF EventInv

\* main.rs, ring_buffer.rs: whatever the sizes and the order of the steps, every
\* certificate observed is a counted drop, a record of the ring, an event the reader
\* has taken, or still with its CPU; and what the reader has taken is counted once.
THEOREM EventsAreAccounted == CaptureSpec => []EventsAccounted
<1> DEFINE Inv == CaptureTypes /\ EventInv
<1>1. CaptureInit => Inv
  BY CaptureInitially, EventsInitially
<1>2. Inv /\ [CaptureNext]_captureVars => Inv'
  <2>1. CASE UNCHANGED captureVars
    <3>1. UNCHANGED <<arrived, cpu, seen, drops, ring, reader, readerStats, observed, news>>
      BY <2>1 DEF captureVars, maps, user
    <3> QED
      BY <3>1 DEF CaptureTypes, Carries, EventInv, RingTypes, Dropped, Waiting
  <2> QED
    BY <2>1, CaptureStepTyped, EventsKept
<1>3. Inv => EventsAccounted
  <2> SUFFICES ASSUME CaptureTypes, EventInv PROVE EventsAccounted
    OBVIOUS
  <2>1. DOMAIN observed = Fingerprints /\ DOMAIN Dropped = CPUs
    BY DEF CaptureTypes, Dropped
  <2>2. /\ SumFunction(observed) = SumFunctionOnSet(observed, Fingerprints)
        /\ SumFunction(Dropped) = SumFunctionOnSet(Dropped, CPUs)
    BY <2>1, Zenon DEF SumFunction, SumFunctionOnSet
  <2> QED
    BY <2>2 DEF EventInv, EventsAccounted, Dropped, Waiting
<1> QED
  BY <1>1, <1>2, <1>3, PTL DEF CaptureSpec
=============================================================================
