------------------------- MODULE MCShadowLifecycle -------------------------
(* Model-checking instance of ShadowLifecycle; bounds are in the .cfg files. *)
EXTENDS ShadowLifecycle
=============================================================================
