------------------------------ MODULE MCGspIrq ------------------------------
(* The interrupt endpoint with two CPUs.                                    *)
EXTENDS GspIrq
=============================================================================
