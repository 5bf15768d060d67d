--------------------------- MODULE MCGspTransport ---------------------------
(* Small rings for TLC: records of one or two elements that wrap around,    *)
(* sequences that wrap around, and a ticket counter that can run out.  One  *)
(* direction at a time goes round its ring; a third load uses both at once. *)
EXTENDS GspTransport

Load(tx, rx, faults) == [tx |-> tx, rx |-> rx, faults |-> faults]
MCLoads == {Load(7, 0, 1), Load(0, 7, 2), Load(2, 2, 0)}
=============================================================================
