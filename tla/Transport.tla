----------------------------- MODULE Transport -----------------------------
(***************************************************************************)
(* What the packet layer of Dropbear promises to the layers above it: the  *)
(* packets an end hands to encrypt_packet() reach the handlers of the      *)
(* other end once each, in that order, and all of them.  Keys, sequence    *)
(* numbers and key exchanges are invisible.                                *)
(***************************************************************************)
EXTENDS Naturals, Sequences

CONSTANTS End, Item

VARIABLES sent,       \* what each end handed over
          got         \* what of it the other end has handled

Init == sent = [e \in End |-> <<>>] /\ got = [e \in End |-> <<>>]

Send(e, d) == sent' = [sent EXCEPT ![e] = Append(@, d)] /\ UNCHANGED got

Deliver(e) ==
    /\ Len(got[e]) < Len(sent[e])
    /\ got' = [got EXCEPT ![e] = Append(@, sent[e][Len(@) + 1])]
    /\ UNCHANGED sent

Next == \E e \in End : Deliver(e) \/ \E d \in Item : Send(e, d)

Spec == /\ Init /\ [][Next]_<<sent, got>>
        /\ \A e \in End : WF_<<sent, got>>(Deliver(e))
=============================================================================
