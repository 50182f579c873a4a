--------------------------- MODULE MCRetryBuffer ---------------------------
(* Model-checking instance of RetryBuffer; the bounds are in the .cfg files. *)
EXTENDS RetryBuffer
=============================================================================
