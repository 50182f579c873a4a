----------------------------- MODULE Handshake -----------------------------
(***************************************************************************)
(* What the kernel programs read out of one packet: parse_tls_handshake of *)
(* the collector (tlapix-ebpf/src/main.rs) and extract_cert_fingerprint of *)
(* the two enforcement programs (executor.rs), which repeat the same walk  *)
(* with checks of their own; and what process_event makes of the result in *)
(* user space (tlapix-collector/src/event_processor.rs).                   *)
(*                                                                         *)
(* A packet is what its headers say and how many bytes of it there are;    *)
(* bytes stand for themselves only by their number.  The certificate list  *)
(* is that of a TLS implementation: its length is the sum of its entries.  *)
(***************************************************************************)
EXTENDS Integers, Sequences, FiniteSets, Functions

CONSTANTS
  MaxCertData,    \* bytes of a certificate that fit into an event (4096)
  MaxRecord,      \* longest TLS record (16384)
  MaxCertLength,  \* longest certificate the collector accepts (65535)
  FpLength,       \* bytes of a fingerprint (32)
  MaxChain        \* certificates of a chain that are counted (10)

ASSUME HandshakeAssumption ==
  /\ MaxCertData \in Nat \ {0} /\ MaxRecord \in Nat \ {0}
  /\ MaxCertLength \in Nat \ {0} /\ FpLength \in Nat \ {0}
  /\ MaxChain \in Nat \ {0}
  /\ FpLength <= MaxCertData /\ MaxCertData <= MaxCertLength
  /\ MaxCertLength < 22 * 65536   \* a record header is no length: see NextRecord

\* A packet: the bytes there are, what the fields of its headers say, and the
\* lengths of the certificates in its list, the leaf first.
Packet == [len : Nat, ip : BOOLEAN, ihl : 0 .. 15, tcp : BOOLEAN, doff : 0 .. 15,
           handshake : BOOLEAN, record : Nat, type : STRING, chain : Seq(Nat)]

Lesser(a, b) == IF a < b THEN a ELSE b

-----------------------------------------------------------------------------
(* The offsets, computed alike by the three programs *)

Eth == 14
TcpAt(p) == Eth + 4 * p.ihl
TlsAt(p) == TcpAt(p) + 4 * p.doff
HandshakeAt(p) == TlsAt(p) + 5
ListAt(p) == HandshakeAt(p) + 4 + 3

\* Where the length of the i-th certificate stands, after the entries before it.
LengthAt(p, i) ==
  ListAt(p) + SumFunctionOnSet([j \in DOMAIN p.chain |-> 3 + p.chain[j]], 1 .. i - 1)

LeafAt(p) == ListAt(p) + 3
Available(p) == IF p.len > LeafAt(p) THEN p.len - LeafAt(p) ELSE 0

\* An empty list (a client without a certificate) is followed by a record
\* header, 16 03 03, which is read as the length of the first certificate.
NextRecord == 22 * 65536 + 3 * 256 + 3
LeafLength(p) == IF p.chain = <<>> THEN NextRecord ELSE p.chain[1]

HeaderLength(words) == 4 * words \in 20 .. 60

-----------------------------------------------------------------------------
(* parse_tls_handshake *)

IsIp(p) == p.len >= Eth + 20 + 20 + 5 /\ p.ip
IsTcp(p) == IsIp(p) /\ HeaderLength(p.ihl) /\ p.tcp /\ p.len >= TcpAt(p) + 20
IsRecord(p) == IsTcp(p) /\ HeaderLength(p.doff) /\ p.len >= TlsAt(p) + 5 /\ p.handshake
\* Where the total is counted.
IsTls(p) == IsRecord(p) /\ p.record \in 1 .. MaxRecord
IsCertificate(p) ==
  /\ IsTls(p) /\ p.len >= HandshakeAt(p) + 4 /\ p.type = "certificate"
  /\ p.len >= ListAt(p) + 3

\* Where the counter of malformed packets is increased.
MalformedPacket(p) ==
  \/ IsIp(p) /\ ~HeaderLength(p.ihl)
  \/ IsTcp(p) /\ ~HeaderLength(p.doff)
  \/ IsRecord(p) /\ p.record \notin 1 .. MaxRecord
  \/ IsCertificate(p) /\ LeafLength(p) \notin 1 .. MaxCertLength

CopyLength(p) == Lesser(Lesser(LeafLength(p), MaxCertData), Available(p))

\* An event is built.
Captured(p) ==
  IsCertificate(p) /\ LeafLength(p) \in 1 .. MaxCertLength /\ CopyLength(p) > 0

\* Mutant: an entry is counted before its length field is known to be there.
CountChainDepth_OffByTwo(p) ==
  LET walk[i \in 1 .. MaxChain + 1] ==
        IF \/ i > MaxChain \/ i > Len(p.chain)
           \/ LengthAt(p, i) + 1 > p.len \/ p.chain[i] = 0
          THEN i - 1
          ELSE walk[i + 1]
  IN  IF walk[1] = 0 THEN 1 ELSE walk[1]

\* The walk over the list; the end of the list is the end of the chain.
CountChainDepth(p) ==
  LET walk[i \in 1 .. MaxChain + 1] ==
        IF \/ i > MaxChain \/ i > Len(p.chain)
           \/ LengthAt(p, i) + 3 > p.len \/ p.chain[i] = 0
          THEN i - 1
          ELSE walk[i + 1]
  IN  IF walk[1] = 0 THEN 1 ELSE walk[1]

\* extract_issuer_pseudo_fp: bytes of the second certificate taken as the
\* issuer's fingerprint; with none, it stays zero.
IssuerBytes(p) ==
  IF CountChainDepth(p) > 1 /\ LengthAt(p, 2) + 3 <= p.len /\ p.chain[2] # 0
    THEN Lesser(Lesser(p.chain[2], FpLength), p.len - (LengthAt(p, 2) + 3))
    ELSE 0

\* Bytes of the leaf taken as the pseudo-fingerprint, the key of all the maps.
FingerprintBytes(p) == Lesser(CopyLength(p), FpLength)

\* What the event says of the certificate; der is its true length.
Event(p) ==
  [certLen |-> CopyLength(p), depth |-> CountChainDepth(p),
   issuer |-> IssuerBytes(p), der |-> p.chain[1]]

-----------------------------------------------------------------------------
(* extract_cert_fingerprint: bytes of the fingerprint, 0 for an error *)

\* Mutant: the shortest packet is taken without its last byte.
ShortestEnforced_OffByOne == Eth + 20 + 20 + 5 + 4 + 3 + 3 + 2

\* Headers and one byte of a certificate.
ShortestEnforced == Eth + 20 + 20 + 5 + 4 + 3 + 3 + 1

ExtractCertFingerprint(p) ==
  IF /\ p.len >= ShortestEnforced /\ p.ip
     /\ HeaderLength(p.ihl) /\ p.tcp /\ p.len >= TcpAt(p) + 20
     /\ HeaderLength(p.doff) /\ p.len >= TlsAt(p) + 5 /\ p.handshake
     /\ p.record \in 1 .. MaxRecord
     /\ p.len >= HandshakeAt(p) + 4 /\ p.type = "certificate"
     /\ p.len >= ListAt(p) + 3 /\ LeafLength(p) # 0
    THEN Lesser(Lesser(LeafLength(p), FpLength), Available(p))
    ELSE 0

-----------------------------------------------------------------------------
(* process_event *)

\* cert_len is compared with the size of the buffer it was copied into.
IsTruncated(e) == e.certLen > MaxCertData

\* External: x509-parser needs every byte of the DER.
Parses(e) == e.certLen >= e.der

\* Full metadata, the fields of the event only, or an error.
ProcessEvent(e) ==
  CASE e.certLen = 0 -> "malformed"
    [] e.certLen > 0 /\ Parses(e) -> "metadata"
    [] e.certLen > 0 /\ ~Parses(e) /\ IsTruncated(e) -> "partial"
    [] OTHER -> "malformed"
=============================================================================
