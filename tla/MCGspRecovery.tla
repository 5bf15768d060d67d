--------------------------- MODULE MCGspRecovery ---------------------------
(* Model checking of GspRecovery: the specification has no unbounded input; *)
(* two resets and two epochs are all the code's own limits admit.           *)
EXTENDS GspRecovery
=============================================================================
