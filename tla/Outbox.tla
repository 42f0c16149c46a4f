------------------------------- MODULE Outbox -------------------------------
(***************************************************************************)
(* What the sending half of a datapath promises, without the semaphore,    *)
(* the blocked senders and the greenthreads of SendQueue: a channel of     *)
(* bounded length that hands its messages to the socket in order, each at  *)
(* most once, and that shuts for good, losing what it still holds, at the  *)
(* latest when a message of kind "close" comes to the front.               *)
(***************************************************************************)
EXTENDS Naturals, Sequences

CONSTANTS MaxQ, Message

VARIABLES chan, out, open

vars == <<chan, out, open>>

Init == chan = <<>> /\ out = <<>> /\ open = TRUE

Accept(m) ==
    /\ open
    /\ Len(chan) <= MaxQ
    /\ chan' = Append(chan, m)
    /\ UNCHANGED <<out, open>>

(* The first message reaches the socket.                                   *)
Deliver ==
    /\ chan # <<>>
    /\ Head(chan).kind # "close"
    /\ out' = Append(out, Head(chan))
    /\ chan' = Tail(chan)
    /\ UNCHANGED open

(* The socket fails on the first message.                                  *)
Lose ==
    /\ chan # <<>>
    /\ Head(chan).kind # "close"
    /\ chan' = Tail(chan)
    /\ UNCHANGED <<out, open>>

(* The channel shuts, with or without its first message delivered.         *)
Shut ==
    /\ open
    /\ open' = FALSE
    /\ chan' = <<>>
    /\ \/ UNCHANGED out
       \/ chan # <<>> /\ out' = Append(out, Head(chan))

Next == (\E m \in Message : Accept(m)) \/ Deliver \/ Lose \/ Shut

Spec == Init /\ [][Next]_vars
=============================================================================
