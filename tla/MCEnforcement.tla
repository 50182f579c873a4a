--------------------------- MODULE MCEnforcement ---------------------------
(* Model-checking instance of Enforcement: one writer, two servers.        *)
EXTENDS Enforcement

MCSha(h) == <<"sha256", h>>
MCPrefix(h) == <<"der prefix", h>>
\* A directive pins the certificate it names.
MCPinned(fingerprint) == fingerprint
MCCerts == {MCSha(h) : h \in Hosts}
=============================================================================
