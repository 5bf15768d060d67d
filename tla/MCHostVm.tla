------------------------------ MODULE MCHostVm ------------------------------
(* A tree of two levels under the root and four pages across both of its     *)
(* halves.                                                                  *)
EXTENDS HostVm, TLC

CONSTANTS o1, o2

MCLength == o1 :> 1 @@ o2 :> 2
MCRequests == {[bytes |-> 1, align |-> 1, fixed |-> 0],
               [bytes |-> 2, align |-> 2, fixed |-> 0],
               [bytes |-> 2, align |-> 1, fixed |-> 3]}
MCSymmetry == Permutations(Frames) \cup Permutations(Ranges) \cup Permutations(Bindings)
=============================================================================
