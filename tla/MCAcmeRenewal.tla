--------------------------- MODULE MCAcmeRenewal ---------------------------
(* Model-checking instance of AcmeRenewal; bounds are in the .cfg file. *)
EXTENDS AcmeRenewal
=============================================================================
