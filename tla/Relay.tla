------------------------------- MODULE Relay -------------------------------
(***************************************************************************)
(* What a receiver promises its senders: a packet that is received is sent *)
(* by each of them, once, whole, unchanged, in the order of their list,    *)
(* and the next packet is received when all have sent it.                  *)
(***************************************************************************)
EXTENDS Naturals, Sequences

CONSTANTS
    Packets,    \* what may be received
    NumSenders  \* the length of the list of senders

VARIABLES
    received,   \* the packets received so far
    sent        \* sent[s]: the packets sender s has sent so far

vars == <<received, sent>>

Senders == 1 .. NumSenders

CaughtUp(s) == Len(sent[s]) = Len(received)

Init == received = <<>> /\ sent = [s \in Senders |-> <<>>]

Receive(p) ==
    /\ \A s \in Senders : CaughtUp(s)
    /\ received' = Append(received, p)
    /\ UNCHANGED sent

Send(s) ==
    /\ ~CaughtUp(s)
    /\ \A r \in 1 .. s - 1 : CaughtUp(r)
    /\ sent' = [sent EXCEPT ![s] = Append(@, received[Len(@) + 1])]
    /\ UNCHANGED received

Next == (\E p \in Packets : Receive(p)) \/ \E s \in Senders : Send(s)

=============================================================================
