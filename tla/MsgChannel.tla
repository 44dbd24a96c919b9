----------------------------- MODULE MsgChannel -----------------------------
(***************************************************************************)
(* What the message paths of a connection promise, in either direction:    *)
(* messages of different classes are independent of each other, and within *)
(* a class messages leave at the front, in the order in which they have    *)
(* been accepted, each of them once.  crofsock's transmit path accepts in  *)
(* send_message() and delivers to the network; crofconn's receive path     *)
(* accepts what the peer sends and delivers to the application.            *)
(***************************************************************************)
EXTENDS Sequences

CONSTANTS Channels,  \* the message classes
          Msgs       \* message contents

VARIABLE chan        \* per class, the messages accepted and not yet delivered

Init == chan = [c \in Channels |-> <<>>]

Accept(c, m) == chan' = [chan EXCEPT ![c] = Append(@, m)]

Deliver(c) ==
    /\ chan[c] # <<>>
    /\ chan' = [chan EXCEPT ![c] = Tail(@)]

Next == \E c \in Channels : Deliver(c) \/ \E m \in Msgs : Accept(c, m)

Spec == Init /\ [][Next]_chan
=============================================================================
