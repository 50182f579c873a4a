-------------------------- MODULE MCDirectiveStore --------------------------
(* Model-checking instance of DirectiveStore; bounds are in the .cfg files. *)
EXTENDS DirectiveStore
=============================================================================
