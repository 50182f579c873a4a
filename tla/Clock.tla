------------------------------- MODULE Clock -------------------------------
(***************************************************************************)
(* The wall clock (Utc::now) that Inventory, AuditLog and Storage read.    *)
(***************************************************************************)
EXTENDS Integers

VARIABLE now

\* Time goes on, up to a bound of the model.
Passes(bound) ==
  /\ now < bound
  /\ now' = now + 1
=============================================================================
