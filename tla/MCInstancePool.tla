---------------------------- MODULE MCInstancePool ----------------------------
(***************************************************************************)
(* Model checking of InstancePool on small pools.                          *)
(***************************************************************************)
EXTENDS InstancePool, TLC

\* Clients and instances are interchangeable.  Used without liveness properties only.
Symmetry == Permutations(Clients) \union Permutations(Instances)
=============================================================================
