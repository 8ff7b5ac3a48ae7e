---------------------------- MODULE MCPostOffice ----------------------------
(* Two programs that share the display; one of them uses the network, the  *)
(* other the disk and the keyboard.  A tick may be late for the fast       *)
(* devices, and two letters are under way at a time.                       *)
EXTENDS PostOffice

CONSTANTS t1, t2

MCDevicesOf ==
    [t \in Threads |-> IF t = t1 THEN {Display, Network} ELSE {Display, Disk, Keyboard}]
MCTicks == {2}
MCLatencies == {3}
=============================================================================
