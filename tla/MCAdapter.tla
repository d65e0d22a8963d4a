------------------------------- MODULE MCAdapter -------------------------------
(***************************************************************************)
(* Model checking of Adapter with small files and few instances.           *)
(***************************************************************************)
EXTENDS Adapter
=============================================================================
