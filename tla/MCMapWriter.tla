---------------------------- MODULE MCMapWriter ----------------------------
(***************************************************************************)
(* Model-checking instance of MapWriter; the bounds are in the .cfg file.  *)
(* Writers and certificates are interchangeable, and only safety is        *)
(* checked.                                                                *)
(***************************************************************************)
EXTENDS MapWriter, TLC
Symmetry == Permutations(Writers) \cup Permutations(Certs)
=============================================================================
