-------------------------------- MODULE MCHost --------------------------------
(***************************************************************************)
(* Model checking of Host with few threads of each kind: model values name *)
(* the threads and the envelopes.                                          *)
(***************************************************************************)
EXTENDS Host
=============================================================================
