----------------------------- MODULE MCRmNames -----------------------------
(***************************************************************************)
(* A ledger small enough to run out of slots, of client names and of       *)
(* object names.                                                           *)
(***************************************************************************)
EXTENDS RmNames
=============================================================================
