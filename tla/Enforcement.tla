---------------------------- MODULE Enforcement ----------------------------
(***************************************************************************)
(* The map writer and the programs protect and isolate in the kernel       *)
(* (tlapix-ebpf/src/executor.rs), which look up in its maps what they read *)
(* of a handshake.                                                         *)
(*                                                                         *)
(* The collector's user space identifies a certificate by the SHA-256 of   *)
(* its DER encoding, and so do the directives the writer gets; the kernel  *)
(* reads the first 32 bytes of the encoding.  How it reads them is in      *)
(* Segment.                                                                *)
(***************************************************************************)
EXTENDS MapWriter

CONSTANTS
  Hosts,             \* certificates that servers present
  Sha(_),            \* compute_sha256 of a certificate: digests differ, and none
                     \* is a prefix
  Prefix(_),         \* extract_cert_fingerprint of a handshake with it
  Pinned(_)          \* pinned_fingerprint of a protect directive for a fingerprint

VARIABLE handshake   \* the latest handshake, and what became of it

enforcementVars == <<vars, handshake>>

NoHandshake == [host |-> "none", dropped |-> FALSE, isolated |-> FALSE]

\* try_isolate: entries are written with FLAG_ACTIVE.
Isolates(h) == Prefix(h) \in Entries(3)

\* try_protect: an entry whose pinned_fp is another fingerprint than its key.
Rejects(h) == Prefix(h) \in Entries(2) /\ Pinned(Prefix(h)) # Prefix(h)

\* A server presents its certificate.
Handshake(h) ==
  /\ handshake' = [host |-> h, dropped |-> Isolates(h) \/ Rejects(h),
                   isolated |-> Sha(h) \in Entries(3)]
  /\ UNCHANGED vars

EnforcementInit == Init /\ handshake = NoHandshake

EnforcementNext ==
  \/ Next /\ UNCHANGED handshake
  \/ \E h \in Hosts : Handshake(h)

EnforcementSpec == EnforcementInit /\ [][EnforcementNext]_enforcementVars

-----------------------------------------------------------------------------
(* Correctness *)

\* requirements.md:128: while an isolate directive for a certificate is in its map,
\* a handshake that presents it is dropped (tlapix_isolate).
IsolatedIsDropped == handshake.isolated => handshake.dropped
=============================================================================
