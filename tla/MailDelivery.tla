---------------------------- MODULE MailDelivery ----------------------------
(***************************************************************************)
(* What the post office of NachOS promises the threads of one machine: a   *)
(* letter may be lost when it is sent.  If it is not it is delivered, to   *)
(* its box, once and in the order of sending, and there it stays until     *)
(* somebody receives it.                                                   *)
(***************************************************************************)
EXTENDS Sequences

CONSTANTS Boxes, Letters

VARIABLES wire,     \* the packets sent and not delivered, oldest first
          boxes     \* per box: the letters delivered and not received, oldest first

vars == <<wire, boxes>>

Init ==
    /\ wire = <<>>
    /\ boxes = [b \in Boxes |-> <<>>]

Send(p) ==
    /\ wire' = Append(wire, p)
    /\ UNCHANGED boxes

Deliver ==
    /\ wire # <<>>
    /\ wire' = Tail(wire)
    /\ boxes' = [boxes EXCEPT ![Head(wire).to] = Append(@, Head(wire).letter)]

Receive(b) ==
    /\ boxes[b] # <<>>
    /\ boxes' = [boxes EXCEPT ![b] = Tail(@)]
    /\ UNCHANGED wire

Next ==
    \/ \E p \in [to : Boxes, letter : Letters] : Send(p)
    \/ Deliver
    \/ \E b \in Boxes : Receive(b)
=============================================================================
