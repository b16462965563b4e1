------------------------------ MODULE IdealOT -------------------------------
(***************************************************************************)
(* What batch_send and batch_receive promise together: for every OT the    *)
(* receiver gets the item it chose, in order, and in the end all of them.  *)
(***************************************************************************)
EXTENDS Naturals, Sequences

VARIABLES
  items,       \* the item chosen in every OT
  received

OTInit == received = <<>>

Deliver ==
  /\ \E n \in Len(received) + 1 .. Len(items) :
       received' = [i \in 1 .. n |-> IF i <= Len(received) THEN received[i] ELSE items[i]]
  /\ UNCHANGED items

OTSpec == OTInit /\ [][Deliver]_<<items, received>> /\ WF_received(Deliver)
=============================================================================
