--------------------------- MODULE MessageChannel ---------------------------
(***************************************************************************)
(* What send_message and recv_message promise of one direction of a        *)
(* connection: messages arrive whole, once, in the order in which they     *)
(* were sent, until the receiver gives the connection up.                  *)
(***************************************************************************)
EXTENDS Integers, Sequences

CONSTANT Message

VARIABLES sent, received, open

vars == <<sent, received, open>>

Init == sent = <<>> /\ received = <<>> /\ open = TRUE

Send(m) == sent' = Append(sent, m) /\ UNCHANGED <<received, open>>

Receive ==
    /\ open /\ Len(received) < Len(sent)
    /\ received' = Append(received, sent[Len(received) + 1])
    /\ UNCHANGED <<sent, open>>

GiveUp == open /\ open' = FALSE /\ UNCHANGED <<sent, received>>

Next == Receive \/ GiveUp \/ \E m \in Message : Send(m)

Spec == Init /\ [][Next]_vars
FairSpec == Spec /\ WF_vars(Receive)
=============================================================================
