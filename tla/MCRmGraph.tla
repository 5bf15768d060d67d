----------------------------- MODULE MCRmGraph -----------------------------
(* Properties of the RM graph, checked by TLC.                             *)
EXTENDS RmGraph, TLC
=============================================================================
