------------------------------ MODULE TrapStream ------------------------------
(***************************************************************************)
(* What a Trap channel promises to the application: what has been received *)
(* is, at any time, a beginning of what has been sent, message by message. *)
(* Messages may stay undelivered; none is repeated, reordered or made up.  *)
(***************************************************************************)
EXTENDS Naturals, Sequences

CONSTANT Data

VARIABLES sent, received

vars == <<sent, received>>

Init == sent = <<>> /\ received = <<>>

Send(d) == sent' = Append(sent, d) /\ UNCHANGED received

Receive ==
    \E n \in (Len(received) + 1)..Len(sent) :
        received' = SubSeq(sent, 1, n) /\ UNCHANGED sent

Next == Receive \/ \E d \in Data : Send(d)

Spec == Init /\ [][Next]_vars
=============================================================================
