----------------------------- MODULE Extraction -----------------------------
(***************************************************************************)
(* How the collector turns an event into CertificateMetadata               *)
(* (event_processor.rs): which fields it fills in, which flags it sets,    *)
(* and the sizes of keys, which it estimates from the length of the DER    *)
(* encoding.                                                               *)
(***************************************************************************)
EXTENDS Integers, Sequences, TLC

CONSTANTS
  Events,    \* the events that may arrive
  MaxData,   \* length of cert_data
  MaxSni,    \* length of sni
  MaxSans    \* the names that are kept of a certificate

ASSUME ExtractionAssumption ==
  /\ MaxData \in Nat /\ MaxSni \in Nat /\ MaxSans \in Nat
  /\ \A e \in Events : e.cert.key.bits \in Nat

VARIABLES
  event,     \* the event
  metadata   \* what was extracted from it

NoMetadata == [present |-> {}]
Malformed == [present |-> {"malformed"}]

-----------------------------------------------------------------------------
(* The sizes of keys.  A key is its algorithm, the bits of its modulus, and *)
(* for EC the curve its parameters name, or the length of the point         *)

\* DER: a header takes 2 bytes, one more from 128 on and another from 256 on.
Header(length) == IF length < 128 THEN 2 ELSE IF length < 256 THEN 3 ELSE 4
Encoded(length) == Header(length) + length

\* An RSA key is the sequence of its modulus, with a bit for the sign, and of
\* the exponent 65537.
RsaLength(bits) == Encoded(Encoded(bits \div 8 + 1) + Encoded(3))

\* Mutant: a key of 2048 bits is taken to be longer than 270 bytes.
EstimateRsa_Exact(length) ==
  CASE length > 526 -> 4096
    [] length \in 399 .. 526 -> 3072
    [] length \in 271 .. 398 -> 2048
    [] length \in 128 .. 270 -> 1024
    [] OTHER -> length * 8

EstimateRsa(length) ==
  CASE length >= 512 -> 4096
    [] length \in 384 .. 511 -> 3072
    [] length \in 256 .. 383 -> 2048
    [] length \in 128 .. 255 -> 1024
    [] OTHER -> length * 8

Curves == [P256 |-> 256, P384 |-> 384, P521 |-> 521]
Points == (65 :> 256) @@ (97 :> 384) @@ (133 :> 521)

EstimateEc(key) ==
  IF key.curve # "none"
  THEN IF key.curve \in DOMAIN Curves THEN Curves[key.curve] ELSE 0
  ELSE IF key.point \in DOMAIN Points THEN Points[key.point] ELSE 0

KeySize(key) ==
  CASE key.algorithm = "RSA" -> EstimateRsa(RsaLength(key.bits))
    [] key.algorithm = "ECDSA" -> EstimateEc(key)
    [] key.algorithm = "Ed25519" -> 256
    [] key.algorithm = "Ed448" -> 448
    [] OTHER -> 0

-----------------------------------------------------------------------------
(* Metadata *)

\* Directory names and the like are not listed, nor is what comes after MaxSans.
Sans(names) ==
  LET listed == SelectSeq(names, LAMBDA n : n.kind \in {"dns", "ip", "email", "uri"})
  IN  {listed[i].labels : i \in {j \in DOMAIN listed : j <= MaxSans}}

Sni(e) == IF e.sni_len \in 1 .. MaxSni /\ e.utf8 THEN e.sni ELSE <<>>

\* Subject and issuer are values of which "" is the empty name.
Extracted(e) ==
  LET sans == Sans(e.cert.names)
      size == KeySize(e.cert.key)
  IN  [subject |-> e.cert.subject, issuer |-> e.cert.issuer,
       not_before |-> e.cert.not_before, not_after |-> e.cert.not_after,
       key_algorithm |-> e.cert.key.algorithm, key_size |-> size,
       sans |-> sans, sni |-> Sni(e),
       present |->
         {"serial_number", "not_before", "not_after", "key_algorithm", "chain_depth"}
           \cup (IF e.cert.subject # "" THEN {"subject"} ELSE {})
           \cup (IF e.cert.issuer # "" THEN {"issuer"} ELSE {})
           \cup (IF sans # {} THEN {"sans"} ELSE {})
           \cup (IF size > 0 THEN {"key_size"} ELSE {})
           \cup (IF e.issuer_known THEN {"issuer_fingerprint"} ELSE {})]

\* A certificate cut off at MaxData that does not parse: the dates are the epoch.
Partial(e) ==
  [subject |-> "", issuer |-> "", not_before |-> e.epoch, not_after |-> e.epoch,
   key_algorithm |-> "", key_size |-> 0, sans |-> {}, sni |-> Sni(e),
   present |-> {"chain_depth"}]

\* process_event
Processed(e) ==
  IF e.cert_len = 0 THEN Malformed
  ELSE IF e.parses THEN Extracted(e)
  ELSE IF e.cert_len > MaxData THEN Partial(e)
  ELSE Malformed

Process == metadata' = Processed(event)

-----------------------------------------------------------------------------
(* Correctness *)

\* estimate_rsa_key_size guesses the bits from a length that includes headers and
\* exponent.  No key is rated below a standard size it has, so that no adequate key
\* is weak whatever the threshold, and none is rated more than 112 bits above its own.
StandardSizes == {1024, 2048, 3072, 4096}

KeySizeIsClose ==
  LET key == event.cert.key
  IN  metadata.present \notin {{}, {"malformed"}, {"chain_depth"}} /\ key.algorithm = "RSA" =>
        /\ \A s \in StandardSizes : key.bits >= s => metadata.key_size >= s
        /\ metadata.key_size <= key.bits + 112
=============================================================================
