----------------------------- MODULE Namespace -----------------------------
(***************************************************************************)
(* What a file system with directories promises: a tree of names whose     *)
(* leaves are files of a fixed number of blocks.  Every operation changes  *)
(* one path, and removing a directory takes what is in it along.  When an  *)
(* operation is cut short, the path it was about is damaged: anything may  *)
(* be found there, and everything else is as it was.                       *)
(***************************************************************************)
EXTENDS Naturals, SequencesExt

CONSTANTS Paths,     \* the paths other than the root, as sequences of names
          Blocks,    \* what a block of a file may hold
          Sizes      \* the numbers of blocks a file may have

Root == <<>>
Nothing == <<"nothing">>   \* in the place of a path: none

VARIABLES tree,      \* the paths that exist, and what is there
          opened,    \* the path of the open file
          damaged    \* the path an operation was cut short on

vars == <<tree, opened, damaged>>

Contents == UNION {[1 .. n -> Blocks] : n \in Sizes}
Directory == [dir |-> TRUE, blocks |-> <<>>]
File(blocks) == [dir |-> FALSE, blocks |-> blocks]

Below(p) == {q \in DOMAIN tree : IsPrefix(p, q)}
IsDirectory(p) == p = Root \/ (p \in DOMAIN tree /\ tree[p].dir)

Init ==
    /\ tree = [p \in {} |-> Directory]
    /\ opened = Nothing
    /\ damaged = Root

Intact == damaged = Nothing /\ UNCHANGED damaged

Make(p, node) ==
    /\ Intact
    /\ p \notin DOMAIN tree
    /\ IsDirectory(Front(p))
    /\ tree' = [q \in DOMAIN tree \cup {p} |-> IF q = p THEN node ELSE tree[q]]
    /\ UNCHANGED opened

RemovePath(p) ==
    /\ Intact
    /\ p \in DOMAIN tree
    /\ tree' = [q \in DOMAIN tree \ Below(p) |-> tree[q]]
    /\ UNCHANGED opened

Open(p) ==
    /\ Intact
    /\ p \in DOMAIN tree
    /\ opened' = p
    /\ UNCHANGED tree

Close ==
    /\ opened' = Nothing
    /\ UNCHANGED <<tree, damaged>>

(* A write changes blocks of the open file, never their number.            *)
Write ==
    /\ Intact
    /\ opened \in DOMAIN tree
    /\ ~tree[opened].dir
    /\ \E blocks \in [DOMAIN tree[opened].blocks -> Blocks] :
          tree' = [tree EXCEPT ![opened] = File(blocks)]
    /\ UNCHANGED opened

CutShort(p) ==
    /\ damaged = Nothing \/ IsPrefix(p, damaged)
    /\ damaged' = p
    /\ opened' \in {opened, Nothing}
    /\ LET others == {q \in Paths : ~IsPrefix(p, q)} IN
          /\ DOMAIN tree' \cap others = DOMAIN tree \cap others
          /\ \A q \in DOMAIN tree \cap others : tree'[q] = tree[q]

Format ==
    /\ tree' = [p \in {} |-> Directory]
    /\ damaged' = Nothing
    /\ UNCHANGED opened

Next ==
    \/ \E p \in Paths, c \in Contents : Make(p, File(c))
    \/ \E p \in Paths : Make(p, Directory) \/ RemovePath(p) \/ Open(p)
    \/ \E p \in Paths \cup {Root} : CutShort(p)
    \/ Close \/ Write \/ Format

Spec == Init /\ [][Next]_vars
=============================================================================
