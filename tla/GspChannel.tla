----------------------------- MODULE GspChannel -----------------------------
(***************************************************************************)
(* What one direction of the GSP message transport promises: a first-in,   *)
(* first-out channel that neither loses, duplicates, reorders nor invents  *)
(* a record, and on which a side that has failed does nothing any more.    *)
(* Records are numbered in the order in which they become visible.         *)
(***************************************************************************)
EXTENDS Naturals, Sequences

VARIABLES sent,          \* records made visible by the sender, in order
          got,           \* records taken by the receiver, in order
          senderOpen,    \* the sender has not failed
          receiverOpen   \* the receiver has not failed

vars == <<sent, got, senderOpen, receiverOpen>>

Init == /\ sent = <<>> /\ got = <<>>
        /\ senderOpen = TRUE /\ receiverOpen = TRUE

FailStop == /\ senderOpen' => senderOpen
            /\ receiverOpen' => receiverOpen

Send == /\ senderOpen
        /\ sent' = Append(sent, Len(sent) + 1)
        /\ UNCHANGED got
        /\ FailStop

Deliver == /\ receiverOpen
           /\ Len(got) < Len(sent)
           /\ got' = Append(got, sent[Len(got) + 1])
           /\ UNCHANGED sent
           /\ FailStop

Fail == UNCHANGED <<sent, got>> /\ FailStop

Next == Send \/ Deliver \/ Fail

Spec == Init /\ [][Next]_vars
=============================================================================
