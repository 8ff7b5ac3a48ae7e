--------------------------- MODULE PrivateMemory ---------------------------
(***************************************************************************)
(* What address spaces promise: each program has a memory of its own, it   *)
(* starts with what the program's file says, and a store changes one page  *)
(* of the program that does it.  The one exception is the system call Read *)
(* of NachOS-4.0_MP2, which puts what it reads into a page of any program. *)
(***************************************************************************)
EXTENDS Naturals

CONSTANTS Programs,   \* the programs
          Sizes,      \* the pages a program may have
          FileData    \* a page that Read has filled

VARIABLE space   \* per program and page: the program it is the work of, or FileData

Init == space = [p \in Programs |-> <<>>]

Load(p) ==
    /\ space[p] = <<>>
    /\ \E n \in Sizes : space' = [space EXCEPT ![p] = [i \in 1 .. n |-> p]]

Store(p, i) ==
    /\ i \in DOMAIN space[p]
    /\ space' = [space EXCEPT ![p][i] = p]

Read(q, i) ==
    /\ i \in DOMAIN space[q]
    /\ space' = [space EXCEPT ![q][i] = FileData]

Next ==
    \E p \in Programs :
        \/ Load(p)
        \/ \E i \in DOMAIN space[p] : Store(p, i) \/ Read(p, i)

Spec == Init /\ [][Next]_space
=============================================================================
