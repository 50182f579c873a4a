------------------------------ MODULE Segment ------------------------------
(***************************************************************************)
(* One handshake and how much of it is in the packet the kernel programs   *)
(* see: they look at a single packet, and TCP cuts a certificate list      *)
(* wherever the segment ends (tlapix-ebpf/src/main.rs, executor.rs).       *)
(***************************************************************************)
EXTENDS Handshake

CONSTANTS
  Handshakes,  \* packets of which only the beginning is there
  MaxLength    \* bound of the length of a packet

ASSUME SegmentAssumption == Handshakes \subseteq Packet /\ MaxLength \in Nat

VARIABLE packet   \* what the programs get to see

\* External: the network.
SegmentInit == packet \in Handshakes

\* The same handshake with one byte more of it in the packet.
OneByteMore ==
  /\ packet.len < MaxLength
  /\ packet' = [packet EXCEPT !.len = @ + 1]

SegmentNext == OneByteMore
SegmentSpec == SegmentInit /\ [][SegmentNext]_packet

-----------------------------------------------------------------------------
(* Correctness *)

\* A certificate the collector reports is one the enforcement programs get a
\* fingerprint of, made of the same bytes; and what they may act on is reported
\* or counted as malformed, so that no connection is dropped unseen.  The checks
\* are written twice (main.rs and executor.rs).
EnforcerReadsTheSame ==
  /\ Captured(packet) => ExtractCertFingerprint(packet) = FingerprintBytes(packet)
  /\ ExtractCertFingerprint(packet) > 0 =>
       IsTls(packet) /\ (Captured(packet) # MalformedPacket(packet))

\* Wherever the packet ends, the depth is the number of certificates, up to the
\* bound and to an empty entry, whose length is in it, and the issuer is told
\* exactly if at least a byte of its certificate is (main.rs, count_chain_depth).
DepthIsWhatIsThere ==
  Captured(packet) =>
    LET there == {i \in DOMAIN packet.chain :
                    /\ i <= MaxChain /\ LengthAt(packet, i) + 3 <= packet.len
                    /\ \A j \in 1 .. i : packet.chain[j] # 0}
    IN  /\ CountChainDepth(packet) = Cardinality(there)
        /\ IssuerBytes(packet) > 0 <=>
             2 \in there /\ LengthAt(packet, 2) + 3 < packet.len

\* Metadata are made of whole certificates only, and of every whole one that
\* fits (event_processor.rs): a part is never taken for a certificate, whose
\* fingerprint would be that of the part.
MetadataOfWholeCertificates ==
  Captured(packet) =>
    (ProcessEvent(Event(packet)) = "metadata" <=>
       /\ LeafAt(packet) + LeafLength(packet) <= packet.len
       /\ LeafLength(packet) <= MaxCertData)

\* Both: what is told of a packet is what is there (parse_tls_handshake).
ReportsWhatIsThere == DepthIsWhatIsThere /\ MetadataOfWholeCertificates

=============================================================================
