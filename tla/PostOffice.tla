----------------------------- MODULE PostOffice -----------------------------
(***************************************************************************)
(* NachOS-4.0_MP2 network/post.cc over machine/network.cc: mail boxes over *)
(* a network that loses packets, on a machine whose threads also use its   *)
(* other devices.  Packets come from this machine itself, which may write  *)
(* to its own address, and from the others.  They wait in the socket until *)
(* the device takes one, at an interrupt of its own, into its only buffer; *)
(* the postal worker, a thread, moves it from there to its box.            *)
(*                                                                         *)
(* The boxes are lists of the kind SynchList describes step by step.       *)
(***************************************************************************)
EXTENDS Devices

CONSTANTS Boxes,
          Letters    \* what is sent; a letter is not sent again while it is under way

VARIABLES socket,    \* the packets the network has delivered, oldest first
          inbox,     \* NetworkInput::inbox: no packet or one
          worker,    \* PostalDelivery: waiting, receiving or putting
          carried,   \* the packet in its buffer
          boxes      \* per box: MailBox::messages

mailVars == <<socket, inbox, worker, carried, boxes>>
vars == <<deviceVars, mailVars>>

wire == carried \o inbox \o socket

UnderWay ==
    {wire[i].letter : i \in 1 .. Len(wire)}
        \cup UNION {{boxes[b][i] : i \in 1 .. Len(boxes[b])} : b \in Boxes}

Packets == [to : Boxes, letter : Letters \ UnderWay]

Init ==
    /\ DevicesInit
    /\ socket = <<>>
    /\ inbox = <<>>
    /\ worker = "wait"
    /\ carried = <<>>
    /\ boxes = [b \in Boxes |-> <<>>]

-----------------------------------------------------------------------------
(* NetworkOutput::Send: the packet is lost or put into the socket of the   *)
(* machine it is for; the interrupt comes in any case.                     *)
Send(t) ==
    /\ Start(t, Network, NetworkTime)
    /\ UNCHANGED <<busy, incoming, display, lock, value, dev>>
    /\ \/ UNCHANGED socket
       \/ \E p \in Packets : socket' = Append(socket, p)
    /\ UNCHANGED <<inbox, worker, carried, boxes>>

(* Another machine has sent something to this one.                         *)
SentElsewhere ==
    /\ \E p \in Packets : socket' = Append(socket, p)
    /\ UNCHANGED <<deviceVars, inbox, worker, carried, boxes>>

(* NetworkInput::CallBack: looks again and again, but takes a packet only  *)
(* if it has no other.                                                     *)
Overwritten == socket # <<>>       \* fault
CanRead == inbox = <<>> /\ socket # <<>>

NoNextLook == pending' = Tail(pending)       \* fault
NextLook == Scheduled(Tail(pending), Arrivals, NetworkTime)

ArrivalsInterrupt ==
    /\ Interrupt(Arrivals)
    /\ NextLook
    /\ IF CanRead
       THEN /\ inbox' = <<Head(socket)>>
            /\ socket' = Tail(socket)
            /\ V(Arrivals)
       ELSE UNCHANGED <<inbox, socket, value>>
    /\ UNCHANGED <<busy, incoming, display, lock, at, dev, left, worker, carried, boxes>>

-----------------------------------------------------------------------------
(* PostOfficeInput::PostalDelivery.                                        *)
AwaitPacket ==
    /\ ~Due
    /\ worker = "wait" /\ worker' = "receive"
    /\ value[Arrivals] > 0
    /\ value' = [value EXCEPT ![Arrivals] = @ - 1]
    /\ UNCHANGED <<pending, busy, incoming, display, lock, at, dev, left,
                   socket, inbox, carried, boxes>>

ReceivePacket ==
    /\ ~Due
    /\ worker = "receive" /\ worker' = "put"
    /\ carried' = inbox
    /\ inbox' = <<>>
    /\ UNCHANGED <<deviceVars, socket, boxes>>

PutInBox ==
    /\ ~Due
    /\ worker = "put" /\ worker' = "wait"
    /\ boxes' = [boxes EXCEPT ![Head(carried).to] = Append(@, Head(carried).letter)]
    /\ carried' = <<>>
    /\ UNCHANGED <<deviceVars, socket, inbox>>

(* PostOfficeInput::Receive, by a thread that uses no device meanwhile; it *)
(* waits while the box is empty.                                           *)
Receive(t) ==
    /\ ~Due
    /\ at[t] = "outside"
    /\ \E b \in Boxes :
           /\ boxes[b] # <<>>
           /\ boxes' = [boxes EXCEPT ![b] = Tail(@)]
    /\ UNCHANGED <<deviceVars, socket, inbox, worker, carried>>

-----------------------------------------------------------------------------
DeviceStep(t) ==
    /\ \/ \E d \in Shared : Call(t, d)
       \/ Acquire(t) \/ DiskRequest(t) \/ PutChar(t) \/ P(t) \/ Release(t) \/ GetChar(t)
    /\ UNCHANGED mailVars

PostalWorker == AwaitPacket \/ ReceivePacket \/ PutInBox

Handlers ==
    \/ (KeyboardInterrupt \/ \E d \in OutDevices : OutputDone(d)) /\ UNCHANGED mailVars
    \/ ArrivalsInterrupt

Clock == (OneTick \/ Idle) /\ UNCHANGED mailVars

Next ==
    \/ \E t \in Threads : DeviceStep(t) \/ Send(t) \/ Receive(t)
    \/ SentElsewhere
    \/ PostalWorker
    \/ Handlers
    \/ Clock

(* A thread that has something to do gets the processor in the end, though *)
(* every now and then an interrupt is handled first.  Nobody has to begin  *)
(* a call or to be let in by a lock others are waiting for.                *)
InCall(t) == DiskRequest(t) \/ PutChar(t) \/ P(t) \/ Release(t) \/ GetChar(t)

Spec ==
    /\ Init
    /\ [][Next]_vars
    /\ WF_vars(Handlers)
    /\ WF_vars(Clock)
    /\ SF_vars(PostalWorker)
    /\ \A t \in Threads : SF_vars((InCall(t) /\ UNCHANGED mailVars) \/ Send(t))

-----------------------------------------------------------------------------
(* The network's buffer holds a packet exactly as long as the worker has   *)
(* been told of it and has not fetched it, and the device goes on looking  *)
(* for the next one: there is always an interrupt pending, so that the     *)
(* machine never takes an idle moment for the end.                         *)
InboxInv ==
    /\ Len(inbox) = value[Arrivals] + (IF worker = "receive" THEN 1 ELSE 0)
    /\ Len(inbox) <= 1
    /\ Len(carried) = (IF worker = "put" THEN 1 ELSE 0)
    /\ Outstanding(Arrivals)

MailInv == DeviceInv /\ InboxInv

(* The post office delivers each letter that the network has not lost, to  *)
(* its box, once, and in the order of sending.                             *)
Delivery == INSTANCE MailDelivery

ImplementsMailDelivery == Delivery!Init /\ [][Delivery!Next]_<<wire, boxes>>

(* Once a request has been made the call returns, also if the packet was   *)
(* lost; and a packet in the socket gets into its box.                     *)
OperationsEnd ==
    /\ \A t \in Threads :
           at[t] \in {"request", "await"} /\ dev[t] # Keyboard ~> at[t] = "outside"
    /\ \A m \in Letters :
           (\E i \in 1 .. Len(wire) : wire[i].letter = m) ~>
               ~ \E i \in 1 .. Len(wire) : wire[i].letter = m

-----------------------------------------------------------------------------
(* Type invariant.                                                         *)
Packet == [to : Boxes, letter : Letters]

TypeOK ==
    /\ DevicesTypeOK
    /\ socket \in Seq(Packet)
    /\ inbox \in Seq(Packet)
    /\ carried \in Seq(Packet)
    /\ worker \in {"wait", "receive", "put"}
    /\ boxes \in [Boxes -> Seq(Letters)]

IInv == TypeOK /\ DeviceIInv /\ InboxInv
=============================================================================
