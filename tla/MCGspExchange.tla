--------------------------- MODULE MCGspExchange ---------------------------
(***************************************************************************)
(* Two owners in succession.  Replies are paired by function number alone, *)
(* so that one function is the case in which they are easiest to confuse.  *)
(***************************************************************************)
EXTENDS GspExchange

CONSTANTS o1, o2, f1
MCOwners == {o1, o2}
MCFunctions == {f1}
=============================================================================
