---------------------------- MODULE MCDetection ----------------------------
(***************************************************************************)
(* Model-checking instance of the way from a packet to an assessment:      *)
(* Segment, Capture, Classifier with Extraction, Assessment and Analyzer.  *)
(* They share no state, so that a step of one changes nothing for the      *)
(* others, and a behaviour moves one of them, its part.  Init, Next and    *)
(* vars are those of Assessment.                                           *)
(***************************************************************************)
EXTENDS Assessment, Classifier, Analyzer, Segment, Capture

VARIABLE part

assessmentVars == <<cert, history, now, prediction>>

-----------------------------------------------------------------------------
(* Handshakes: the buffer has 40 bytes, the certificates have lengths around *)
(* every limit, the headers come with and without options                   *)

Base == [len |-> 120, ip |-> TRUE, ihl |-> 5, tcp |-> TRUE, doff |-> 5,
         handshake |-> TRUE, record |-> 100, type |-> "certificate",
         chain |-> <<36>>]

\* Every header and every chain, with only the first 55 bytes there.
MCHandshakes ==
  LET Cut == [Base EXCEPT !.len = 55]
  IN  {[Cut EXCEPT !.ihl = i, !.doff = d] : i \in {4, 5, 6, 15}, d \in {4, 5, 8, 15}}
        \cup {[Cut EXCEPT !.record = r] : r \in {0, 1, 200, 201}}
        \cup {[Cut EXCEPT !.ip = FALSE], [Cut EXCEPT !.tcp = FALSE],
              [Cut EXCEPT !.handshake = FALSE], [Cut EXCEPT !.type = "server_hello"]}
        \cup {[Cut EXCEPT !.chain = c] :
                c \in {<<>>, <<1>>, <<5, 6>>, <<31, 7, 9>>, <<33, 40>>, <<40>>, <<41, 5>>,
                       <<60, 1>>, <<61, 3>>, <<4, 3, 2, 1, 2>>,
                       <<5, 0, 7>>}}

\* Whole, cut off, malformed.
MCPackets == {Base, [Base EXCEPT !.len = 90], [Base EXCEPT !.record = 0]}

-----------------------------------------------------------------------------
(* Events for the classifier: keys of sizes around every estimate, names,   *)
(* issuers, validities, truncation                                          *)

Rsa(bits) == [algorithm |-> "RSA", bits |-> bits, curve |-> "none", point |-> 0]
Ec(curve, point) == [algorithm |-> "ECDSA", bits |-> 0, curve |-> curve, point |-> point]
Other(algorithm) == [Ec("none", 0) EXCEPT !.algorithm = algorithm]
Name(kind, labels) == [kind |-> kind, labels |-> labels]

Good ==
  [cert_len |-> 3, parses |-> TRUE, sni_len |-> 2, utf8 |-> TRUE, sni |-> <<"a", "b">>,
   epoch |-> -1000, issuer_known |-> TRUE,
   cert |-> [subject |-> "a", issuer |-> "ca", not_before |-> -600, not_after |-> 64,
             names |-> <<Name("dns", <<"a", "b">>)>>, key |-> Rsa(2048)]]

Keys ==
  {Rsa(b) : b \in UNION {{8 * n - 1, 8 * n, 8 * n + 1} :
                          n \in (118 .. 129) \cup (242 .. 257) \cup (370 .. 385) \cup (498 .. 513)}}
    \cup {Ec("P256", 0), Ec("P384", 0), Ec("P521", 0), Ec("other", 65),
          Ec("none", 65), Ec("none", 57)}
    \cup {Other("Ed25519"), Other("Ed448"), Other("other")}

MCEvents ==
  {[Good EXCEPT !.cert.key = k] : k \in Keys}
    \cup {[Good EXCEPT !.cert.issuer = i, !.cert.not_before = b] :
            i \in {"", "a", "ca", "evil"}, b \in {-600, -732, -733, -734}}
    \cup {[Good EXCEPT !.cert_len = l, !.parses = p, !.sni_len = s] :
            l \in {0, 3, 5}, p \in BOOLEAN, s \in {0, 2, 9}}
    \cup {[Good EXCEPT !.cert.names = n] :
            n \in {<<>>, <<Name("dns", <<"c">>), Name("dir", <<"d">>),
                           Name("uri", <<"a", "b">>)>>}}

-----------------------------------------------------------------------------
(* Certificates for the detector and the predictor: one complete one with   *)
(* many histories, on its way from 32 days before its end to a day after    *)
(* it, and many without a history in the days around their end              *)

\* Values for which every rule would raise its anomaly, and others for which
\* none would, with each set of fields present.
Bad(present) ==
  [present |-> present, not_before |-> -730, not_after |-> 64,
   key_algorithm |-> "RSA", key_size |-> 1024,
   sans |-> {<<"*", "b">>, <<"*", "">>}, sni |-> <<"a", "a", "b">>]

Variants(c) ==
  {c, [c EXCEPT !.not_after = 62], [c EXCEPT !.not_before = -733],
   [c EXCEPT !.key_algorithm = "EC"], [c EXCEPT !.key_size = 4096],
   [c EXCEPT !.sans = {<<"a", "a", "b">>}], [c EXCEPT !.sans = {}]}

MCCerts ==
  UNION {Variants(Bad(present)) : present \in SUBSET Fields}
    \cup {[Bad(Fields) EXCEPT !.sni = sni] : sni \in {<<>>, <<"a", "b">>, <<"", "b">>}}

MCHistories ==
  {NoHistory} \cup
    [typical : {0, 20}, failures : 0 .. 4, response : {0, 5, 12}, known : {TRUE}]

MCLabels == {"", "*", "a", "b"}

-----------------------------------------------------------------------------
\* The parts that do not move stand at one of their initial states.
DetectionInit ==
  /\ part \in {"segment", "capture", "classifier", "assessment", "analyzer"}
  /\ IF part = "segment" THEN SegmentInit ELSE packet = Base
  /\ CaptureInit
  /\ IF part = "classifier" THEN ClassifierInit
     ELSE event = Good /\ metadata = NoMetadata /\ verdict = NoVerdict /\ judgedAt = 0
  /\ Init
  /\ \/ cert = Bad(Fields) /\ now = 0
     \/ history = NoHistory /\ now = 60
  /\ part # "assessment" => cert = Bad(Fields) /\ history = NoHistory /\ now = 0
  /\ AnalyzerInit
  /\ part # "analyzer" => session = TRUE

DetectionNext ==
  \/ /\ part = "segment" /\ SegmentNext
     /\ UNCHANGED <<part, captureVars, classifierVars, assessmentVars, analyzerVars>>
  \/ /\ part = "capture" /\ CaptureNext
     /\ UNCHANGED <<part, packet, classifierVars, assessmentVars, analyzerVars>>
  \/ /\ part = "classifier" /\ ClassifierNext
     /\ UNCHANGED <<part, packet, captureVars, assessmentVars, analyzerVars>>
  \/ /\ part = "assessment" /\ Next
     /\ UNCHANGED <<part, packet, captureVars, classifierVars, analyzerVars>>
  \/ /\ part = "analyzer" /\ AnalyzerNext
     /\ UNCHANGED <<part, packet, captureVars, classifierVars, assessmentVars>>

DetectionSpec ==
  DetectionInit /\ [][DetectionNext]_<<part, packet, captureVars, classifierVars,
                                       assessmentVars, analyzerVars>>
=============================================================================
