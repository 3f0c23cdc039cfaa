------------------------------ MODULE LossyBus ------------------------------
(***************************************************************************)
(* What the Callosum bus (src/solstone/think/callosum.py) promises its     *)
(* listeners: all of them hear the messages in one order, the order in     *)
(* which the server sends them, each at most once; any may be missed.      *)
(***************************************************************************)
EXTENDS Naturals, Sequences

CONSTANTS
    Listeners,
    Message

VARIABLES
    log,    \* the messages the server has begun to send, in order
    heard   \* [Listeners -> Seq(Nat)]: the places in log each has heard

\* The last place a listener has heard, 0 if none.
LastHeard(c) == IF heard[c] = <<>> THEN 0 ELSE heard[c][Len(heard[c])]

Publish(m) ==
    /\ log' = Append(log, m)
    /\ UNCHANGED heard

Hear(c, i) ==
    /\ i > LastHeard(c)
    /\ heard' = [heard EXCEPT ![c] = Append(@, i)]
    /\ UNCHANGED log

Init ==
    /\ log = <<>>
    /\ heard = [c \in Listeners |-> <<>>]

Next ==
    \/ \E m \in Message : Publish(m)
    \/ \E c \in Listeners : \E i \in DOMAIN log : Hear(c, i)

Spec == Init /\ [][Next]_<<log, heard>>
=============================================================================
