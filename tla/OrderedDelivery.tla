---------------------------- MODULE OrderedDelivery ----------------------------
(***************************************************************************)
(* What ClusterLoop assumes of a connection: the packets of one node reach  *)
(* the handlers of another whole, once and in the order they were sent.     *)
(***************************************************************************)
EXTENDS Naturals, Sequences

VARIABLES sent, delivered

Init == sent = <<>> /\ delivered = <<>>

\* sendTo: one more packet, whichever it is.
Send ==
    /\ Len(sent') = Len(sent) + 1
    /\ SubSeq(sent', 1, Len(sent)) = sent
    /\ UNCHANGED delivered

\* The event loop handles the next packet.
Deliver ==
    /\ Len(delivered) < Len(sent)
    /\ delivered' = Append(delivered, sent[Len(delivered) + 1])
    /\ UNCHANGED sent

Next == Send \/ Deliver

Spec == Init /\ [][Next]_<<sent, delivered>>

=============================================================================
