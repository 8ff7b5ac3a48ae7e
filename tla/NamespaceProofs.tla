-------------------------- MODULE NamespaceProofs --------------------------
(***************************************************************************)
(* That FileSys implements Namespace: for any disk, names and sizes, each  *)
(* operation changes the tree of names as its name says, and one that is   *)
(* cut short at whatever sector write leaves every other path as it was.   *)
(***************************************************************************)
EXTENDS FileSysProofs

-----------------------------------------------------------------------------
(* The tree of names that a layout stands for.                             *)

(* What a path with that item is, when the disk is d.                      *)
NodeOf(d, item) ==
    LET sectors == SectorsOf(item.headers)
    IN  IF item.dir THEN [dir |-> TRUE, blocks |-> <<>>]
        ELSE [dir |-> FALSE, blocks |-> [i \in DOMAIN sectors |-> Value(d[sectors[i]])]]

(* The node of a path in the layout.                                       *)
LEMMA NodeRead ==
    ASSUME NEW d, NEW L, NEW t, Rep(d, L, t), NEW q \in DOMAIN L, q # Root
    PROVE  Node(d, q) = NodeOf(d, L[q])
  <1>1. FetchFrom(d, Lookup(d, q)) = L[q].headers /\ EntryAt(d, q) = EntryFor(L, q)
    BY PathFound
  <1>2. EntryAt(d, q).dir = L[q].dir
    BY <1>1 DEF EntryFor
  <1> QED
    BY <1>1, <1>2 DEF Node, NodeOf

(* Nothing is the beginning of no path, and the root of every one.         *)
LEMMA NothingAndRoot ==
    /\ \A q \in Paths \cup {Root} : ~IsPrefix(Nothing, q)
    /\ \A q \in Paths \cup {Root} : IsPrefix(Root, q)
  <1>1. ASSUME NEW q \in Paths \cup {Root}, IsPrefix(Nothing, q) PROVE FALSE
    <2>1. q \in Seq(Names)
      BY PathsAreSequences
    <2>2. Len(Nothing) = 1 /\ Nothing[1] = "nothing" /\ Nothing \in Seq({"nothing"})
      BY DEF Nothing
    <2>3. 1 <= Len(q) /\ SubSeq(Nothing, 1, 1) = SubSeq(q, 1, 1)
      BY <1>1, <2>2 DEF IsPrefix
    <2>4. SubSeq(q, 1, 1)[1] = q[1] /\ SubSeq(Nothing, 1, 1)[1] = "nothing" /\ q[1] \in Names
      BY <2>1, <2>2, <2>3
    <2> QED
      BY <2>3, <2>4, FileSysAssumption
  <1>2. ASSUME NEW q \in Paths \cup {Root} PROVE IsPrefix(Root, q)
    <2>1. q \in Seq(Names) /\ Root \in Seq(Names)
      BY PathsAreSequences
    <2>2. UpTo(q, 0) = Root
      BY <2>1, WholeAndEmpty
    <2>3. IsPrefix(UpTo(q, 0), q)
      BY <2>1, IsPrefixOK
    <2> QED
      BY <2>2, <2>3
  <1> QED
    BY <1>1, <1>2

(* A path that is not below that of an unfinished operation is in the tree *)
(* when it is in the layout, and is what its item says.                    *)
LEMMA TreeElsewhere ==
    ASSUME NEW d, NEW L, NEW t, Rep(d, L, t), t # Root, NEW q \in Paths, ~IsPrefix(t, q)
    PROVE  /\ q \in DOMAIN TreeOf(d) <=> q \in DOMAIN L
           /\ q \in DOMAIN L => TreeOf(d)[q] = NodeOf(d, L[q])
  <1>1. q # Root
    BY PathsAreSequences
  <1>2. DOMAIN TreeOf(d) = Reachable(d) /\ \A r \in Reachable(d) : TreeOf(d)[r] = Node(d, r)
    BY DEF TreeOf
  <1>3. q \in Reachable(d) <=> q \in DOMAIN L
    BY <1>1, ReachableInLayout, LayoutReachable
  <1> QED
    BY <1>1, <1>2, <1>3, NodeRead

(* With nothing in doubt the layout is the tree.                           *)
LEMMA TreeRead ==
    ASSUME NEW d, NEW L, Rep(d, L, Nothing)
    PROVE  \A q \in Paths : /\ q \in DOMAIN TreeOf(d) <=> q \in DOMAIN L
                            /\ q \in DOMAIN L => TreeOf(d)[q] = NodeOf(d, L[q])
  <1>1. Nothing # Root
    BY PathsAreSequences
  <1> QED
    BY <1>1, NothingAndRoot, TreeElsewhere

(* The tree of a disk has paths only.                                      *)
LEMMA TreePaths ==
    ASSUME NEW d
    PROVE  /\ DOMAIN TreeOf(d) \subseteq Paths
           /\ TreeOf(d) = [q \in DOMAIN TreeOf(d) |-> TreeOf(d)[q]]
  BY DEF TreeOf, Reachable

(* A path means the same in two trees.                                     *)
SameIn(old, new, q) ==
    /\ q \in DOMAIN old <=> q \in DOMAIN new
    /\ q \in DOMAIN old => new[q] = old[q]

(* The same item with the same data is the same node.                      *)
LEMMA SameNode ==
    ASSUME NEW d, NEW e, NEW item, ItemOK(d, item),
           ~item.dir => \A s \in ToSet(SectorsOf(item.headers)) : e[s] = d[s]
    PROVE  NodeOf(e, item) = NodeOf(d, item)
  <1>1. CASE item.dir
    BY <1>1 DEF NodeOf
  <1>2. CASE ~item.dir
    <2>1. \A i \in DOMAIN SectorsOf(item.headers) :
             e[SectorsOf(item.headers)[i]] = d[SectorsOf(item.headers)[i]]
      BY <1>2 DEF ToSet
    <2> QED
      BY <1>2, <2>1 DEF NodeOf
  <1> QED
    BY <1>1, <1>2

(* What means the same in the layouts means the same in the trees.         *)
LEMMA SameInTree ==
    ASSUME NEW d, NEW L, Rep(d, L, Nothing), NEW e, NEW M, NEW t, Rep(e, M, t), t # Root,
           NEW q \in Paths, ~IsPrefix(t, q), SameAt(d, L, e, M, q)
    PROVE  SameIn(TreeOf(d), TreeOf(e), q)
  <1>1. /\ q \in DOMAIN TreeOf(d) <=> q \in DOMAIN L
        /\ q \in DOMAIN L => TreeOf(d)[q] = NodeOf(d, L[q])
    BY TreeRead
  <1>2. /\ q \in DOMAIN TreeOf(e) <=> q \in DOMAIN M
        /\ q \in DOMAIN M => TreeOf(e)[q] = NodeOf(e, M[q])
    BY TreeElsewhere
  <1>3. q \in DOMAIN L <=> q \in DOMAIN M
    BY DEF SameAt
  <1>4. ASSUME q \in DOMAIN L PROVE NodeOf(e, M[q]) = NodeOf(d, L[q])
    <2>1. M[q] = L[q] /\ ItemOK(d, L[q])
      BY <1>4 DEF SameAt, Rep, Items
    <2> QED
      BY <1>4, <2>1, SameNode DEF SameAt
  <1> QED
    BY <1>1, <1>2, <1>3, <1>4 DEF SameIn

-----------------------------------------------------------------------------
(* What an operation makes of the tree.                                    *)

Outside(old, new, t) == \A q \in Paths : ~IsPrefix(t, q) => SameIn(old, new, q)

DirectoryIn(old, p) == p = Root \/ (p \in DOMAIN old /\ old[p].dir)
NewNodes == {AbstractTree!Directory} \cup {AbstractTree!File(c) : c \in AbstractTree!Contents}
MadeIn(old, new, p) ==
    /\ p \in Paths /\ p \notin DOMAIN old /\ DirectoryIn(old, Front(p))
    /\ \E node \in NewNodes :
          new = [q \in DOMAIN old \cup {p} |-> IF q = p THEN node ELSE old[q]]

RemovedFrom(old, new, p) ==
    /\ p \in Paths /\ p \in DOMAIN old
    /\ new = [q \in DOMAIN old \ {r \in DOMAIN old : IsPrefix(p, r)} |-> old[q]]

WrittenIn(old, new, p) ==
    /\ p \in Paths /\ p \in DOMAIN old /\ ~old[p].dir
    /\ \E blocks \in [DOMAIN old[p].blocks -> Blocks] :
          new = [old EXCEPT ![p] = AbstractTree!File(blocks)]

NoPaths == [q \in {} |-> AbstractTree!Directory]
Outcome(old, new, t, op) ==
    \/ MadeIn(old, new, t)
    \/ RemovedFrom(old, new, t)
    \/ op = t /\ WrittenIn(old, new, t)
    \/ t = Root /\ new = NoPaths

(* What is the outcome of writes, and what of only some of them.           *)
Effect(d, W, t, op, tr) ==
    /\ GoodWrites(W)
    /\ t # Root => \A k \in 0 .. Len(W) - 1 : Outside(tr, TreeOf(After(d, W, k)), t)
    /\ Outcome(tr, TreeOf(After(d, W, Len(W))), t, op)

(* Whatever is written last, the others are left alone until then.         *)
LEMMA KeptOutside ==
    ASSUME NEW d, NEW L, Rep(d, L, Nothing), NEW W, NEW t, t # Root, OthersKept(d, L, W, t)
    PROVE  \A k \in 0 .. Len(W) - 1 : Outside(TreeOf(d), TreeOf(After(d, W, k)), t)
  <1> SUFFICES ASSUME NEW k \in 0 .. Len(W) - 1, NEW q \in Paths, ~IsPrefix(t, q)
               PROVE  SameIn(TreeOf(d), TreeOf(After(d, W, k)), q)
    BY DEF Outside
  <1>1. PICK e : e = After(d, W, k)
    OBVIOUS
  <1>2. PICK M : Rep(e, M, t) /\ SameAt(d, L, e, M, q)
    BY <1>1 DEF OthersKept
  <1>3. SameIn(TreeOf(d), TreeOf(e), q)
    BY <1>2, SameInTree
  <1> QED
    BY <1>1, <1>3

(* What a file holds is data of programs, or Junk.                         *)
LEMMA BlocksRead ==
    ASSUME NEW d, GoodDisk(d), NEW item, ItemOK(d, item), ~item.dir
    PROVE  \E c \in [1 .. Len(SectorsOf(item.headers)) -> Blocks] :
              NodeOf(d, item) = [dir |-> FALSE, blocks |-> c]
  <1>1. PICK file : file = SectorsOf(item.headers)
    OBVIOUS
  <1>2. file \in Seq(Sectors) /\ DOMAIN file = 1 .. Len(file)
    <2>1. file \in Seq(Sectors)
      BY <1>1 DEF ItemOK
    <2> QED
      BY <2>1
  <1>3. PICK c : c = [i \in DOMAIN file |-> Value(d[file[i]])]
    OBVIOUS
  <1>4. ASSUME NEW i \in 1 .. Len(file) PROVE Value(d[file[i]]) \in Blocks
    <2>1. file[i] \in Sectors
      BY <1>2
    <2> QED
      BY <2>1 DEF Value, GoodDisk, GoodSector, Blocks
  <1>5. c \in [1 .. Len(file) -> Blocks]
    BY <1>2, <1>3, <1>4
  <1>6. NodeOf(d, item) = [dir |-> FALSE, blocks |-> c]
    BY <1>1, <1>3 DEF NodeOf
  <1> QED
    BY <1>1, <1>5, <1>6

(* A new item makes a new path.                                            *)
LEMMA EntryOutcome ==
    ASSUME NEW L, Rep(disk, L, Nothing), GoodDisk(disk), NEW p \in Paths, NEW W, Len(W) \in Nat,
           NEW size, NEW dir \in BOOLEAN, ~dir => size \in Sizes,
           EntryPlanned(L, p, size, dir, W)
    PROVE  \A op : Effect(disk, W, p, op, TreeOf(disk))
  <1>1. PICK item : /\ item.dir = dir /\ Len(SectorsOf(item.headers)) = size
                    /\ EntryMade(disk, L, W, p, item)
    BY DEF EntryPlanned
  <1>2. PICK e : e = After(disk, W, Len(W))
    OBVIOUS
  <1>3. PICK M : M = With(L, p, item)
    OBVIOUS
  <1>4. Rep(e, M, Nothing) /\ \A q \in Paths : q # p => SameAt(disk, L, e, M, q)
    BY <1>1, <1>2, <1>3 DEF EntryMade
  <1>5. p \in DOMAIN M /\ M[p] = item /\ p \notin DOMAIN L /\ p # Root /\ Nothing # Root
    BY <1>3, PathsAreSequences DEF With, EntryPlanned
  <1>6. GoodDisk(e)
    <2>1. Len(W) \in 0 .. Len(W) /\ GoodWrites(W)
      BY DEF EntryPlanned
    <2> QED
      BY <1>2, <2>1, GoodAfter
  <1>7. p \notin DOMAIN TreeOf(disk) /\ p \in DOMAIN TreeOf(e) /\ TreeOf(e)[p] = NodeOf(e, item)
    BY <1>4, <1>5, TreeRead
  <1>8. ASSUME NEW q \in Paths, q # p PROVE SameIn(TreeOf(disk), TreeOf(e), q)
    BY <1>4, <1>5, <1>8, NothingAndRoot, SameInTree
  <1>9. DirectoryIn(TreeOf(disk), Front(p))
    <2>1. Front(p) \in Paths \cup {Root} /\ Front(p) \in DOMAIN L /\ L[Front(p)].dir
      BY FrontOK DEF EntryPlanned
    <2>2. CASE Front(p) = Root
      BY <2>2 DEF DirectoryIn
    <2>3. CASE Front(p) \in Paths
      <3>1. Front(p) \in DOMAIN TreeOf(disk) /\ TreeOf(disk)[Front(p)] = NodeOf(disk, L[Front(p)])
        BY <2>1, <2>3, TreeRead
      <3>2. NodeOf(disk, L[Front(p)]).dir
        BY <2>1 DEF NodeOf
      <3> QED
        BY <3>1, <3>2 DEF DirectoryIn
    <2> QED
      BY <2>1, <2>2, <2>3
  <1>10. NodeOf(e, item) \in NewNodes
    <2>1. CASE dir
      BY <1>1, <2>1 DEF NodeOf, NewNodes, AbstractTree!Directory
    <2>2. CASE ~dir
      <3>1. ItemOK(e, item)
        BY <1>4, <1>5 DEF Rep, Items
      <3>2. PICK c \in [1 .. size -> Blocks] : NodeOf(e, item) = [dir |-> FALSE, blocks |-> c]
        BY <1>1, <1>6, <2>2, <3>1, BlocksRead
      <3>3. c \in AbstractTree!Contents
        BY <2>2 DEF AbstractTree!Contents, Blocks
      <3> QED
        BY <3>2, <3>3 DEF NewNodes, AbstractTree!File
    <2> QED
      BY <2>1, <2>2
  <1>11. PICK old : old = TreeOf(disk)
    OBVIOUS
  <1>12. PICK new : new = TreeOf(e)
    OBVIOUS
  <1>13. new = [q \in DOMAIN old \cup {p} |-> IF q = p THEN NodeOf(e, item) ELSE old[q]]
    <2>1. DOMAIN old \subseteq Paths /\ DOMAIN new \subseteq Paths /\ new = [q \in DOMAIN new |-> new[q]]
      BY <1>11, <1>12, TreePaths
    <2>2. \A q \in Paths : q # p => (q \in DOMAIN old <=> q \in DOMAIN new)
                                   /\ (q \in DOMAIN old => new[q] = old[q])
      BY <1>8, <1>11, <1>12 DEF SameIn
    <2>3. p \in DOMAIN new /\ new[p] = NodeOf(e, item)
      BY <1>7, <1>12
    <2>4. DOMAIN new = DOMAIN old \cup {p}
      BY <2>1, <2>2, <2>3
    <2>5. \A q \in DOMAIN new : new[q] = IF q = p THEN NodeOf(e, item) ELSE old[q]
      BY <2>1, <2>2, <2>3, <2>4
    <2> QED
      BY <2>1, <2>4, <2>5
  <1>14. MadeIn(TreeOf(disk), TreeOf(e), p)
    BY <1>7, <1>9, <1>10, <1>11, <1>12, <1>13 DEF MadeIn
  <1>15. \A k \in 0 .. Len(W) - 1 : Outside(TreeOf(disk), TreeOf(After(disk, W, k)), p)
    BY <1>5, KeptOutside DEF EntryPlanned
  <1> QED
    BY <1>2, <1>14, <1>15 DEF Effect, Outcome, EntryPlanned

(* What Remove leaves is the rest of the tree.                             *)
LEMMA RemovalOutcome ==
    ASSUME NEW L, Rep(disk, L, Nothing), NEW p \in Paths, NEW W, RemovalPlanned(L, p, W)
    PROVE  \A op : Effect(disk, W, p, op, TreeOf(disk))
  <1>1. PICK e : e = After(disk, W, Len(W))
    OBVIOUS
  <1>2. PICK M : M = Without(Pruned(L, p), p)
    OBVIOUS
  <1>3. /\ Rep(e, M, Nothing)
        /\ \A q \in Paths : ~IsPrefix(p, q) => SameAt(disk, L, e, M, q)
        /\ \A q \in Paths : IsPrefix(p, q) => q \notin DOMAIN M
    BY <1>1, <1>2 DEF RemovalPlanned
  <1>4. p # Root /\ Nothing # Root /\ p \in DOMAIN L
    BY PathsAreSequences DEF RemovalPlanned
  <1>5. PICK old : old = TreeOf(disk)
    OBVIOUS
  <1>6. PICK new : new = TreeOf(e)
    OBVIOUS
  <1>7. p \in DOMAIN old
    BY <1>4, <1>5, TreeRead
  <1>8. ASSUME NEW q \in Paths, ~IsPrefix(p, q)
        PROVE  (q \in DOMAIN old <=> q \in DOMAIN new) /\ (q \in DOMAIN old => new[q] = old[q])
    <2>1. SameIn(TreeOf(disk), TreeOf(e), q)
      BY <1>3, <1>4, <1>8, NothingAndRoot, SameInTree
    <2> QED
      BY <1>5, <1>6, <2>1 DEF SameIn
  <1>9. ASSUME NEW q \in Paths, IsPrefix(p, q) PROVE q \notin DOMAIN new
    BY <1>3, <1>6, <1>9, TreeRead
  <1>10. new = [q \in DOMAIN old \ {r \in DOMAIN old : IsPrefix(p, r)} |-> old[q]]
    <2>1. DOMAIN old \subseteq Paths /\ DOMAIN new \subseteq Paths /\ new = [q \in DOMAIN new |-> new[q]]
      BY <1>5, <1>6, TreePaths
    <2>2. DOMAIN new = DOMAIN old \ {r \in DOMAIN old : IsPrefix(p, r)}
      BY <1>8, <1>9, <2>1
    <2>3. \A q \in DOMAIN new : new[q] = old[q]
      BY <1>8, <1>9, <2>1
    <2> QED
      BY <2>1, <2>2, <2>3
  <1>11. RemovedFrom(TreeOf(disk), TreeOf(e), p)
    BY <1>5, <1>6, <1>7, <1>10 DEF RemovedFrom
  <1>12. \A k \in 0 .. Len(W) - 1 : Outside(TreeOf(disk), TreeOf(After(disk, W, k)), p)
    BY <1>4, KeptOutside DEF RemovalPlanned
  <1> QED
    BY <1>1, <1>11, <1>12 DEF Effect, Outcome, RemovalPlanned

(* Write changes blocks of the open file.                                  *)
LEMMA WriteOutcome ==
    ASSUME NEW L, Rep(disk, L, Nothing), GoodDisk(disk), NEW W, Len(W) \in Nat,
           WritePlanned(L, W), opened \in Paths
    PROVE  Effect(disk, W, opened, opened, TreeOf(disk))
  <1>1. PICK e : e = After(disk, W, Len(W))
    OBVIOUS
  <1>2. /\ Rep(e, L, Nothing) /\ opened \in DOMAIN L /\ ~L[opened].dir
        /\ \A q \in Paths : q # opened => SameAt(disk, L, e, L, q)
    BY <1>1 DEF WritePlanned
  <1>3. opened # Root /\ Nothing # Root
    BY PathsAreSequences
  <1>4. GoodDisk(e)
    <2>1. Len(W) \in 0 .. Len(W) /\ GoodWrites(W)
      BY DEF WritePlanned
    <2> QED
      BY <1>1, <2>1, GoodAfter
  <1>5. PICK old : old = TreeOf(disk)
    OBVIOUS
  <1>6. PICK new : new = TreeOf(e)
    OBVIOUS
  <1>7. /\ opened \in DOMAIN old /\ old[opened] = NodeOf(disk, L[opened])
        /\ opened \in DOMAIN new /\ new[opened] = NodeOf(e, L[opened])
    BY <1>2, <1>5, <1>6, TreeRead
  <1>8. PICK n : n = Len(SectorsOf(L[opened].headers))
    OBVIOUS
  <1>9. ItemOK(disk, L[opened]) /\ ItemOK(e, L[opened])
    BY <1>2 DEF Rep, Items
  <1>10. PICK b \in [1 .. n -> Blocks] : NodeOf(disk, L[opened]) = [dir |-> FALSE, blocks |-> b]
    BY <1>2, <1>8, <1>9, BlocksRead
  <1>11. PICK c \in [1 .. n -> Blocks] : NodeOf(e, L[opened]) = [dir |-> FALSE, blocks |-> c]
    BY <1>2, <1>4, <1>8, <1>9, BlocksRead
  <1>12. ~old[opened].dir /\ DOMAIN old[opened].blocks = 1 .. n
    BY <1>7, <1>10
  <1>13. ASSUME NEW q \in Paths, q # opened
         PROVE  (q \in DOMAIN old <=> q \in DOMAIN new) /\ (q \in DOMAIN old => new[q] = old[q])
    <2>1. SameIn(TreeOf(disk), TreeOf(e), q)
      BY <1>2, <1>3, <1>13, NothingAndRoot, SameInTree
    <2> QED
      BY <1>5, <1>6, <2>1 DEF SameIn
  <1>14. new = [old EXCEPT ![opened] = AbstractTree!File(c)]
    <2>1. /\ DOMAIN old \subseteq Paths /\ DOMAIN new \subseteq Paths
          /\ new = [q \in DOMAIN new |-> new[q]] /\ old = [q \in DOMAIN old |-> old[q]]
      BY <1>5, <1>6, TreePaths
    <2>2. DOMAIN new = DOMAIN old
      BY <1>7, <1>13, <2>1
    <2>3. new[opened] = AbstractTree!File(c)
      BY <1>7, <1>11 DEF AbstractTree!File
    <2>4. \A q \in DOMAIN new : new[q] = IF q = opened THEN AbstractTree!File(c) ELSE old[q]
      BY <1>13, <2>1, <2>2, <2>3
    <2> QED
      BY <2>1, <2>2, <2>4
  <1>15. WrittenIn(TreeOf(disk), TreeOf(e), opened)
    BY <1>5, <1>6, <1>7, <1>12, <1>14 DEF WrittenIn
  <1>16. \A k \in 0 .. Len(W) - 1 : Outside(TreeOf(disk), TreeOf(After(disk, W, k)), opened)
    BY <1>3, KeptOutside DEF WritePlanned
  <1> QED
    BY <1>1, <1>15, <1>16 DEF Effect, Outcome, WritePlanned

(* Format leaves no path.                                                  *)
LEMMA FormatOutcome ==
    ASSUME NEW d, Disk(d)
    PROVE  \A op, tr : Effect(d, FormatWrites, Root, op, tr)
  <1>1. GoodWrites(FormatWrites) /\ Rep(After(d, FormatWrites, Len(FormatWrites)), RootOnly, Nothing)
    BY FormatProceeds
  <1>2. PICK new : new = TreeOf(After(d, FormatWrites, Len(FormatWrites)))
    OBVIOUS
  <1>3. \A q \in Paths : q \notin DOMAIN new
    <2>1. \A q \in Paths : q \notin DOMAIN RootOnly
      BY PathsAreSequences DEF RootOnly
    <2> QED
      BY <1>1, <1>2, <2>1, TreeRead
  <1>4. DOMAIN new \subseteq Paths /\ new = [q \in DOMAIN new |-> new[q]]
    BY <1>2, TreePaths
  <1>5. DOMAIN new = {}
    BY <1>3, <1>4
  <1>6. new = NoPaths
    BY <1>4, <1>5 DEF NoPaths
  <1> QED
    BY <1>1, <1>2, <1>6 DEF Effect, Outcome

-----------------------------------------------------------------------------
(* The tree of names is that of the disk when nothing is in doubt, and is  *)
(* what the writes that are left will change as Namespace allows.          *)
TreeState(d, W, t, op, tr) ==
    /\ GoodDisk(d)
    /\ t = Nothing => tr = TreeOf(d)
    /\ W # <<>> => Effect(d, W, t, op, tr)

TreeInv == TreeState(disk, pending, target, opened, tree)

(* The steps that Namespace allows.                                        *)
DamagedPath == IF pending = <<>> \/ target = Root THEN target ELSE Nothing
NamespaceStep == AbstractTree!Next \/ UNCHANGED AbstractTree!vars

(* A step that shows in none of its variables.                             *)
LEMMA Stutters ==
    ASSUME tree' = tree, opened' = opened, DamagedPath' = DamagedPath
    PROVE  NamespaceStep
  BY DEF NamespaceStep, AbstractTree!vars, DamagedPath

(* One write less.                                                         *)
LEMMA EffectTail ==
    ASSUME NEW d, Disk(d), GoodDisk(d), NEW W, Writes(W), W # <<>>,
           NEW t, NEW op, NEW tr, Effect(d, W, t, op, tr),
           NEW e, e = [d EXCEPT ![Head(W).at] = Head(W).is]
    PROVE  /\ GoodDisk(e)
           /\ Tail(W) # <<>> => Effect(e, Tail(W), t, op, tr)
           /\ Len(W) = 1 => Outcome(tr, TreeOf(e), t, op)
  <1>1. /\ Len(W) \in Nat \ {0} /\ Len(Tail(W)) = Len(W) - 1 /\ Head(W) = W[1]
        /\ \A i \in 1 .. Len(W) - 1 : Tail(W)[i] = W[i + 1]
        /\ Tail(W) = <<>> <=> Len(W) = 1
    BY WritesTail
  <1>2. \A k \in 0 .. Len(W) - 1 : \A j : j = k + 1 => After(e, Tail(W), k) = After(d, W, j)
    <2> SUFFICES ASSUME NEW k \in 0 .. Len(W) - 1
                 PROVE  After(e, Tail(W), k) = After(d, W, k + 1)
      BY Zenon
    <2>1. After([d EXCEPT ![Head(W).at] = Head(W).is], Tail(W), k) = After(d, W, k + 1)
      BY AfterOne
    <2> QED
      BY <2>1, Zenon
  <1>3. Disk(e)
    BY DEF Disk
  <1>4. GoodWrites(W) /\ GoodWrites(Tail(W))
    <2>1. GoodWrites(W)
      BY DEF Effect
    <2>2. ASSUME NEW i \in 1 .. Len(Tail(W)) PROVE GoodSector(Tail(W)[i].is)
      <3>1. i \in 1 .. Len(W) - 1 /\ i + 1 \in 1 .. Len(W)
        BY <1>1
      <3> QED
        BY <1>1, <2>1, <3>1 DEF GoodWrites
    <2> QED
      BY <2>1, <2>2 DEF GoodWrites
  <1>5. GoodDisk(e)
    <2>1. 0 \in 0 .. Len(W) - 1 /\ 1 \in 0 .. Len(W) /\ Len(W) \in Nat
      BY <1>1
    <2>2. After(e, Tail(W), 0) = e
      BY <1>3, AfterNone
    <2>3. 1 = 0 + 1
      OBVIOUS
    <2>4. e = After(d, W, 1)
      BY <1>2, <2>1, <2>2, <2>3, Zenon
    <2>5. GoodDisk(After(d, W, 1))
      BY <1>4, <2>1, GoodAfter
    <2> QED
      BY <2>4, <2>5
  <1>6. PICK n : n = Len(Tail(W))
    OBVIOUS
  <1>7. After(e, Tail(W), n) = After(d, W, Len(W))
    <2>1. n \in 0 .. Len(W) - 1 /\ n + 1 = Len(W)
      BY <1>1, <1>6
    <2> QED
      BY <1>2, <2>1
  <1>8. Outcome(tr, TreeOf(After(e, Tail(W), n)), t, op)
    BY <1>7 DEF Effect
  <1>9. ASSUME t # Root, NEW k \in 0 .. n - 1
        PROVE  Outside(tr, TreeOf(After(e, Tail(W), k)), t)
    <2>1. k \in 0 .. Len(W) - 1 /\ k + 1 \in 0 .. Len(W) - 1
      BY <1>1, <1>6
    <2>2. After(e, Tail(W), k) = After(d, W, k + 1)
      BY <1>2, <2>1
    <2>3. Outside(tr, TreeOf(After(d, W, k + 1)), t)
      BY <1>9, <2>1 DEF Effect
    <2> QED
      BY <2>2, <2>3
  <1>10. Effect(e, Tail(W), t, op, tr)
    BY <1>4, <1>6, <1>8, <1>9 DEF Effect
  <1>11. ASSUME Len(W) = 1 PROVE Outcome(tr, TreeOf(e), t, op)
    <2>1. n = 0
      BY <1>1, <1>6, <1>11
    <2>2. After(e, Tail(W), 0) = e
      BY <1>3, AfterNone
    <2> QED
      BY <1>8, <2>1, <2>2
  <1> QED
    BY <1>5, <1>10, <1>11

(* What is done when the last write is made, in the words of Namespace.    *)
LEMMA OutcomeStep ==
    ASSUME Outcome(tree, tree', target, opened), opened' = opened,
           DamagedPath' = Nothing, target # Root => DamagedPath = Nothing
    PROVE  NamespaceStep
  <1>1. DamagedPath = Nothing /\ DamagedPath' = Nothing => AbstractTree!Intact
    BY DEF AbstractTree!Intact, AbstractTree!Nothing, Nothing, DamagedPath
  <1>2. ASSUME MadeIn(tree, tree', target) PROVE NamespaceStep
    <2>1. target \in Paths /\ target # Root /\ AbstractTree!Intact
      BY <1>1, <1>2, PathsAreSequences DEF MadeIn
    <2>2. PICK node \in NewNodes :
             tree' = [q \in DOMAIN tree \cup {target} |-> IF q = target THEN node ELSE tree[q]]
      BY <1>2 DEF MadeIn
    <2>3. AbstractTree!IsDirectory(AbstractTree!Front(target)) /\ target \notin DOMAIN tree
      BY <1>2 DEF MadeIn, DirectoryIn, AbstractTree!IsDirectory, AbstractTree!Front, Front,
                  AbstractTree!Root, Root
    <2>4. AbstractTree!Make(target, node)
      BY <2>1, <2>2, <2>3, Zenon DEF AbstractTree!Make
    <2>5. \/ node = AbstractTree!Directory
          \/ \E c \in AbstractTree!Contents : node = AbstractTree!File(c)
      BY DEF NewNodes
    <2> QED
      BY <2>1, <2>4, <2>5, Zenon DEF AbstractTree!Next, NamespaceStep
  <1>3. ASSUME RemovedFrom(tree, tree', target) PROVE NamespaceStep
    <2>1. target \in Paths /\ target # Root /\ AbstractTree!Intact /\ target \in DOMAIN tree
      BY <1>1, <1>3, PathsAreSequences DEF RemovedFrom
    <2>2. AbstractTree!Below(target) = {r \in DOMAIN tree : IsPrefix(target, r)}
      BY DEF AbstractTree!Below, AbstractTree!IsPrefix, IsPrefix
    <2>3. AbstractTree!RemovePath(target)
      BY <1>3, <2>1, <2>2, Zenon DEF RemovedFrom, AbstractTree!RemovePath
    <2> QED
      BY <2>1, <2>3 DEF AbstractTree!Next, NamespaceStep
  <1>4. ASSUME opened = target, WrittenIn(tree, tree', target) PROVE NamespaceStep
    <2>1. AbstractTree!Intact
      BY <1>1, <1>4, PathsAreSequences DEF WrittenIn
    <2>2. AbstractTree!Write
      BY <1>4, <2>1 DEF WrittenIn, AbstractTree!Write, Blocks
    <2> QED
      BY <2>2 DEF AbstractTree!Next, NamespaceStep
  <1>5. ASSUME target = Root, tree' = NoPaths PROVE NamespaceStep
    <2>1. AbstractTree!Format
      BY <1>5 DEF NoPaths, AbstractTree!Format, AbstractTree!Nothing, Nothing, DamagedPath
    <2> QED
      BY <2>1 DEF AbstractTree!Next, NamespaceStep
  <1> QED
    BY <1>2, <1>3, <1>4, <1>5 DEF Outcome

-----------------------------------------------------------------------------
(* Each step keeps the tree of names true, and is one of Namespace's or    *)
(* shows in none of its variables.                                         *)
Allowed == TreeInv' /\ NamespaceStep

(* A step that changes neither the disk nor what is done to it.            *)
LEMMA QuietTree ==
    ASSUME TreeInv, UNCHANGED <<disk, pending, target, opened, tree>>
    PROVE  Allowed
  <1>1. TreeInv'
    BY DEF TreeInv
  <1>2. DamagedPath' = DamagedPath
    BY DEF DamagedPath
  <1> QED
    BY <1>1, <1>2, Stutters DEF Allowed

(* The start of an operation.                                              *)
LEMMA BegunTree ==
    ASSUME IInv, TreeInv, Idle, NEW p \in Paths, NEW W, W # <<>>,
           Effect(disk, W, p, opened, TreeOf(disk)), Begin(p, W), opened' = opened
    PROVE  Allowed
  <1>1. pending = <<>> /\ target = Nothing /\ p # Root /\ p # Nothing
    BY PathsAreSequences DEF Idle
  <1>2. disk' = disk /\ pending' = W /\ target' = p /\ tree' = tree
    BY DEF Begin
  <1>3. GoodDisk(disk) /\ tree = TreeOf(disk)
    BY <1>1 DEF TreeInv, TreeState
  <1>4. TreeState(disk, W, p, opened, tree)
    BY <1>1, <1>3 DEF TreeState
  <1>5. TreeInv'
    BY <1>2, <1>4 DEF TreeInv
  <1>6. DamagedPath' = DamagedPath
    BY <1>1, <1>2 DEF DamagedPath
  <1> QED
    BY <1>2, <1>5, <1>6, Stutters DEF Allowed

(* An operation is cut short on a path: there anything may be found.       *)
LEMMA CutShortStep ==
    ASSUME NEW p \in Paths \cup {Root},
           DamagedPath = Nothing \/ IsPrefix(p, DamagedPath), DamagedPath' = p,
           opened' \in {opened, Nothing},
           \A q \in Paths : ~IsPrefix(p, q) => SameIn(tree, tree', q)
    PROVE  NamespaceStep
  <1>1. \A q \in Paths : AbstractTree!IsPrefix(p, q) <=> IsPrefix(p, q)
    BY DEF AbstractTree!IsPrefix, IsPrefix
  <1>2. AbstractTree!IsPrefix(p, DamagedPath) <=> IsPrefix(p, DamagedPath)
    BY DEF AbstractTree!IsPrefix, IsPrefix
  <1>3. PICK others : others = {q \in Paths : ~AbstractTree!IsPrefix(p, q)}
    OBVIOUS
  <1>4. \A q \in others : SameIn(tree, tree', q)
    BY <1>1, <1>3
  <1>5. /\ DOMAIN tree' \cap others = DOMAIN tree \cap others
        /\ \A q \in DOMAIN tree \cap others : tree'[q] = tree[q]
    BY <1>4 DEF SameIn
  <1>6. /\ DamagedPath = AbstractTree!Nothing \/ AbstractTree!IsPrefix(p, DamagedPath)
        /\ opened' \in {opened, AbstractTree!Nothing}
    BY <1>2 DEF AbstractTree!Nothing, Nothing
  <1>7. AbstractTree!CutShort(p)
    BY <1>3, <1>5, <1>6, Zenon DEF AbstractTree!CutShort, DamagedPath
  <1> QED
    BY <1>7 DEF AbstractTree!Next, AbstractTree!Root, Root, NamespaceStep

(* Format throws away what there was.                                      *)
LEMMA FormatTree ==
    ASSUME IInv, TreeInv, Format
    PROVE  Allowed
  <1>1. /\ Disk(disk) /\ pending = <<>> /\ target \in Paths \cup {Root, Nothing}
    BY DEF IInv, Inductive, Format
  <1>2. FormatWrites # <<>>
    BY <1>1, FormatProceeds DEF Proceeds
  <1>3. disk' = disk /\ pending' = FormatWrites /\ target' = Root /\ tree' = tree
    BY Zenon DEF Format, Begin, FormatWrites
  <1>4. opened' = opened /\ Root # Nothing
    BY PathsAreSequences DEF Format
  <1>5. TreeState(disk, FormatWrites, Root, opened, tree)
    BY <1>1, <1>4, FormatOutcome DEF TreeInv, TreeState
  <1>6. TreeInv'
    BY <1>3, <1>4, <1>5 DEF TreeInv
  <1>7. DamagedPath = Nothing \/ IsPrefix(Root, DamagedPath)
    BY <1>1, NothingAndRoot DEF DamagedPath
  <1>8. DamagedPath' = Root
    BY <1>3 DEF DamagedPath
  <1>9. \A q \in Paths : SameIn(tree, tree', q)
    BY <1>3 DEF SameIn
  <1>10. NamespaceStep
    BY <1>4, <1>7, <1>8, <1>9, CutShortStep
  <1> QED
    BY <1>6, <1>10 DEF Allowed

(* Each write but the last goes unnoticed; the last one completes the      *)
(* operation.                                                              *)
LEMMA WriteSectorTree ==
    ASSUME IInv, TreeInv, WriteSector
    PROVE  Allowed
  <1>1. PICK e : e = [disk EXCEPT ![Head(pending).at] = Head(pending).is]
    OBVIOUS
  <1>2. /\ pending # <<>> /\ disk' = e /\ pending' = Tail(pending) /\ opened' = opened
        /\ target' = IF Len(pending) = 1 THEN Nothing ELSE target
        /\ tree' = IF Len(pending) = 1 THEN TreeOf(e) ELSE tree
    <2>1. disk' = e
      BY <1>1 DEF WriteSector
    <2> QED
      BY <2>1, Zenon DEF WriteSector
  <1>3. /\ Disk(disk) /\ Writes(pending) /\ target # Nothing
        /\ target \in Paths \cup {Root, Nothing}
    BY <1>2 DEF IInv, Inductive
  <1>4. GoodDisk(disk) /\ Effect(disk, pending, target, opened, tree)
    BY <1>2 DEF TreeInv, TreeState
  <1>5. /\ GoodDisk(e)
        /\ Tail(pending) # <<>> => Effect(e, Tail(pending), target, opened, tree)
        /\ Len(pending) = 1 => Outcome(tree, TreeOf(e), target, opened)
    BY <1>1, <1>2, <1>3, <1>4, EffectTail
  <1>6. Tail(pending) = <<>> <=> Len(pending) = 1
    BY <1>2, <1>3, WritesTail
  <1>7. CASE Len(pending) = 1
    <2>1. target' = Nothing /\ tree' = TreeOf(e) /\ pending' = <<>>
      BY <1>2, <1>6, <1>7
    <2>2. TreeState(e, <<>>, Nothing, opened, TreeOf(e))
      BY <1>5 DEF TreeState
    <2>3. TreeInv'
      BY <1>2, <2>1, <2>2 DEF TreeInv
    <2>4. DamagedPath' = Nothing
      BY <2>1 DEF DamagedPath
    <2>5. target # Root => DamagedPath = Nothing
      BY <1>2 DEF DamagedPath
    <2>6. Outcome(tree, tree', target, opened)
      BY <1>5, <1>7, <2>1
    <2>7. NamespaceStep
      BY <1>2, <2>4, <2>5, <2>6, OutcomeStep
    <2> QED
      BY <2>3, <2>7 DEF Allowed
  <1>8. CASE Len(pending) # 1
    <2>1. target' = target /\ tree' = tree /\ pending' # <<>>
      BY <1>2, <1>6, <1>8
    <2>2. TreeState(e, Tail(pending), target, opened, tree)
      BY <1>3, <1>5, <1>6, <1>8 DEF TreeState
    <2>3. TreeInv'
      BY <1>2, <2>1, <2>2 DEF TreeInv
    <2>4. DamagedPath' = DamagedPath
      BY <1>2, <2>1 DEF DamagedPath
    <2> QED
      BY <1>2, <2>1, <2>3, <2>4, Stutters DEF Allowed
  <1> QED
    BY <1>7, <1>8

(* What Close does, and a stop between operations.                         *)
LEMMA CloseTree ==
    ASSUME TreeInv, pending = <<>>, opened' = Nothing,
           UNCHANGED <<disk, pending, target, tree>>
    PROVE  Allowed
  <1>1. TreeState(disk, <<>>, target, Nothing, tree)
    BY DEF TreeInv, TreeState
  <1>2. TreeInv'
    BY <1>1 DEF TreeInv
  <1>3. DamagedPath' = DamagedPath
    BY DEF DamagedPath
  <1>4. AbstractTree!Close
    BY <1>3 DEF AbstractTree!Close, AbstractTree!Nothing, Nothing, DamagedPath
  <1> QED
    BY <1>2, <1>4 DEF AbstractTree!Next, NamespaceStep, Allowed

(* A stop cuts short the operation that is under way.                      *)
LEMMA StopTree ==
    ASSUME IInv, TreeInv, Stop
    PROVE  Allowed
  <1>1. /\ disk' = disk /\ target' = target /\ pending' = <<>> /\ opened' = Nothing
        /\ tree' = IF pending = <<>> THEN tree ELSE TreeOf(disk)
    BY DEF Stop
  <1>2. CASE pending = <<>>
    BY <1>1, <1>2, CloseTree
  <1>3. CASE pending # <<>>
    <2>1. /\ Disk(disk) /\ Writes(pending) /\ target # Nothing
          /\ target \in Paths \cup {Root}
      BY <1>3 DEF IInv, Inductive
    <2>2. GoodDisk(disk) /\ Effect(disk, pending, target, opened, tree)
      BY <1>3 DEF TreeInv, TreeState
    <2>3. tree' = TreeOf(disk)
      BY <1>1, <1>3
    <2>4. TreeState(disk, <<>>, target, Nothing, TreeOf(disk))
      BY <2>1, <2>2 DEF TreeState
    <2>5. TreeInv'
      BY <1>1, <2>3, <2>4 DEF TreeInv
    <2>6. DamagedPath' = target
      BY <1>1 DEF DamagedPath
    <2>7. DamagedPath = Nothing \/ IsPrefix(target, DamagedPath)
      BY <1>3, <2>1, NothingAndRoot DEF DamagedPath
    <2>8. ASSUME NEW q \in Paths, ~IsPrefix(target, q) PROVE SameIn(tree, tree', q)
      <3>1. target # Root
        BY <2>8, NothingAndRoot
      <3>2. 0 \in 0 .. Len(pending) - 1
        BY <1>3, <2>1, WritesTail
      <3>3. After(disk, pending, 0) = disk
        BY <2>1, AfterNone
      <3>4. Outside(tree, TreeOf(disk), target)
        BY <2>2, <3>1, <3>2, <3>3 DEF Effect
      <3> QED
        BY <2>3, <2>8, <3>4 DEF Outside
    <2>9. NamespaceStep
      BY <1>1, <2>1, <2>6, <2>7, <2>8, CutShortStep
    <2> QED
      BY <2>5, <2>9 DEF Allowed
  <1> QED
    BY <1>2, <1>3

(* What Create and CreateDirectory share.                                  *)
LEMMA NewEntryTree ==
    ASSUME IInv, TreeInv, Idle, NEW p \in Paths, ProperPath(p), ~NameTaken(p),
           NEW size \in Nat, HasRoom(p, size),
           NEW dir \in BOOLEAN, dir => size = DirectorySize, ~dir => size \in Sizes,
           NEW contents, contents = IF dir THEN NewTableWrite ELSE <<>>,
           Begin(p, NewEntryWrites(p, size, dir, contents)), opened' = opened
    PROVE  Allowed
  <1>1. PICK L : Rep(disk, L, Nothing) /\ OpenIn(L, descriptor, opened)
    BY IdleLayout
  <1>2. Disk(disk) /\ GoodDisk(disk)
    BY IdleLayout DEF TreeInv, TreeState
  <1>3. PICK W : W = NewEntryWrites(p, size, dir, contents)
    OBVIOUS
  <1>4. Proceeds(disk, W, p, descriptor, opened) /\ EntryPlanned(L, p, size, dir, W)
    BY <1>1, <1>2, <1>3, CreateProceeds
  <1>5. W # <<>> /\ Len(W) \in Nat
    BY <1>4, WritesTail DEF Proceeds
  <1>6. Effect(disk, W, p, opened, TreeOf(disk))
    BY <1>1, <1>2, <1>4, <1>5, EntryOutcome
  <1> QED
    BY <1>3, <1>5, <1>6, BegunTree

(* Create makes a file, or does nothing.                                   *)
LEMMA CreateTree ==
    ASSUME IInv, TreeInv, NEW p \in Paths, NEW size \in Sizes, Create(p, size)
    PROVE  Allowed
  <1>1. Idle /\ ProperPath(p) /\ size \in Nat
    BY FileSysAssumption DEF Create, CommandTime, ProgramTime
  <1>2. CASE NameTaken(p) \/ ~HasRoom(p, size)
    <2>1. UNCHANGED <<disk, pending, target, opened, tree>>
      BY <1>2 DEF Create, FailUnread, vars
    <2> QED
      BY <2>1, QuietTree
  <1>3. CASE ~NameTaken(p) /\ HasRoom(p, size)
    <2>1. Begin(p, NewEntryWrites(p, size, FALSE, <<>>)) /\ opened' = opened
      BY <1>3 DEF Create
    <2>2. PICK dir \in BOOLEAN : dir = FALSE
      OBVIOUS
    <2>3. PICK contents : contents = <<>>
      OBVIOUS
    <2>4. Begin(p, NewEntryWrites(p, size, dir, contents))
      BY <2>1, <2>2, <2>3
    <2>5. (dir => size = DirectorySize) /\ contents = IF dir THEN NewTableWrite ELSE <<>>
      BY <2>2, <2>3
    <2> QED
      BY <1>1, <1>3, <2>1, <2>4, <2>5, NewEntryTree
  <1> QED
    BY <1>2, <1>3

(* CreateDirectory makes a directory, or does nothing.                     *)
LEMMA CreateDirectoryTree ==
    ASSUME IInv, TreeInv, NEW p \in Paths, CreateDirectory(p)
    PROVE  Allowed
  <1>1. Idle /\ ProperPath(p) /\ DirectorySize \in Nat
    BY DEF CreateDirectory, CommandTime, DirectorySize
  <1> DEFINE Fails == \/ NameTaken(p) \/ FindAndSet(FreeMap(disk)) = NoSector
                      \/ FreeEntries(ParentTable(p)) = {}
  <1>2. CASE Fails \/ ~HasRoom(p, DirectorySize)
    <2>1. UNCHANGED <<disk, pending, target, opened, tree>>
      BY <1>2 DEF CreateDirectory, FailUnread, vars
    <2> QED
      BY <2>1, QuietTree
  <1>3. CASE ~Fails /\ HasRoom(p, DirectorySize)
    <2>1. /\ Begin(p, NewEntryWrites(p, DirectorySize, TRUE, NewTableWrite))
          /\ opened' = opened
      BY <1>3 DEF CreateDirectory
    <2>2. PICK dir \in BOOLEAN : dir = TRUE
      OBVIOUS
    <2>3. PICK contents : contents = NewTableWrite
      OBVIOUS
    <2>4. Begin(p, NewEntryWrites(p, DirectorySize, dir, contents))
      BY <2>1, <2>2, <2>3
    <2>5. contents = (IF dir THEN NewTableWrite ELSE <<>>) /\ ~NameTaken(p)
      BY <1>3, <2>2, <2>3
    <2> QED
      BY <1>1, <1>3, <2>1, <2>2, <2>4, <2>5, NewEntryTree
  <1> QED
    BY <1>2, <1>3

(* Remove takes a path and what is below it, or leaves it damaged.         *)
LEMMA RemoveTree ==
    ASSUME IInv, TreeInv, NEW p \in Paths, RemovePath(p)
    PROVE  Allowed
  <1>1. Idle /\ ProperPath(p)
    BY DEF RemovePath, CommandTime
  <1>2. PICK L : Rep(disk, L, Nothing)
    BY <1>1, IdleLayout
  <1>3. Disk(disk) /\ pending = <<>> /\ target = Nothing /\ GoodDisk(disk)
    BY <1>1, IdleLayout DEF Idle, TreeInv, TreeState
  <1>4. PICK W : W = RemoveWrites(p)
    OBVIOUS
  <1>5. ASSUME Exists(disk, p)
        PROVE  /\ W # <<>> /\ Len(W) \in Nat \ {0} /\ RemovalPlanned(L, p, W)
               /\ [disk EXCEPT ![W[1].at] = W[1].is] = After(disk, W, 1)
    <2>1. /\ Proceeds(disk, W, p, NoFile, opened) /\ RemovalPlanned(L, p, W)
          /\ [disk EXCEPT ![W[1].at] = W[1].is] = After(disk, W, 1)
      BY <1>1, <1>2, <1>3, <1>4, <1>5, RemoveProceeds
    <2> QED
      BY <2>1, WritesTail DEF Proceeds
  <1>6. CASE Exists(disk, p) /\ Begin(p, RemoveWrites(p)) /\ UNCHANGED <<running, descriptor, opened>>
    <2>1. Effect(disk, W, p, opened, TreeOf(disk))
      BY <1>2, <1>5, <1>6, RemovalOutcome
    <2>2. Begin(p, W) /\ opened' = opened
      BY <1>4, <1>6
    <2> QED
      BY <1>1, <1>5, <1>6, <2>1, <2>2, BegunTree
  <1>7. CASE Exists(disk, p) /\ RemoveWrongSector(p)
    <2>1. PICK e : e = After(disk, W, 1)
      OBVIOUS
    <2>2. /\ disk' = e /\ target' = p /\ pending' = pending /\ opened' = opened /\ tree' = tree
      BY <1>4, <1>5, <1>7, <2>1 DEF RemoveWrongSector
    <2>3. GoodDisk(e)
      <3>1. GoodWrites(W) /\ 1 \in 0 .. Len(W) /\ Len(W) \in Nat
        BY <1>5, <1>7 DEF RemovalPlanned
      <3> QED
        BY <1>3, <2>1, <3>1, GoodAfter
    <2>4. p # Nothing
      BY PathsAreSequences
    <2>5. TreeState(e, <<>>, p, opened, tree)
      BY <2>3, <2>4 DEF TreeState
    <2>6. TreeInv'
      BY <1>3, <2>2, <2>5 DEF TreeInv
    <2>7. DamagedPath = Nothing /\ DamagedPath' = p
      BY <1>3, <2>2 DEF DamagedPath
    <2>8. \A q \in Paths : SameIn(tree, tree', q)
      BY <2>2 DEF SameIn
    <2>9. NamespaceStep
      BY <2>2, <2>7, <2>8, CutShortStep
    <2> QED
      BY <2>6, <2>9 DEF Allowed
  <1>8. CASE ~Exists(disk, p) /\ FailUnread
    <2>1. UNCHANGED <<disk, pending, target, opened, tree>>
      BY <1>8 DEF FailUnread
    <2> QED
      BY <2>1, QuietTree
  <1> QED
    BY <1>6, <1>7, <1>8, Zenon DEF RemovePath

(* A path that is opened is in the tree.                                   *)
LEMMA OpenedTree ==
    ASSUME IInv, TreeInv, Idle, NEW p \in Paths, Openable(p), Opened(p)
    PROVE  Allowed
  <1>1. Idle /\ ProperPath(p)
    BY DEF Openable
  <1>2. PICK L : Rep(disk, L, Nothing)
    BY <1>1, IdleLayout
  <1>3. pending = <<>> /\ target = Nothing /\ tree = TreeOf(disk)
    BY <1>1 DEF Idle, TreeInv, TreeState
  <1>4. Exists(disk, p) /\ opened' = p /\ UNCHANGED <<disk, running, pending, target, tree>>
    BY DEF Opened
  <1>5. p \in DOMAIN tree
    BY <1>1, <1>2, <1>3, <1>4, ParentInLayout, TreeRead
  <1>6. DamagedPath = Nothing /\ DamagedPath' = Nothing
    BY <1>3, <1>4 DEF DamagedPath
  <1>7. AbstractTree!Intact
    BY <1>6 DEF AbstractTree!Intact, AbstractTree!Nothing, Nothing, DamagedPath
  <1>8. AbstractTree!Open(p)
    BY <1>4, <1>5, <1>7 DEF AbstractTree!Open
  <1>9. NamespaceStep
    BY <1>8 DEF AbstractTree!Next, NamespaceStep
  <1>10. TreeState(disk, pending, target, p, tree)
    BY <1>3 DEF TreeInv, TreeState
  <1>11. TreeInv'
    BY <1>4, <1>10 DEF TreeInv
  <1> QED
    BY <1>9, <1>11 DEF Allowed

(* An object that is deleted, or not found, is closed.                     *)
LEMMA ForgottenTree ==
    ASSUME TreeInv, Idle, Forgotten
    PROVE  Allowed
  BY CloseTree DEF Forgotten, Idle

LEMMA NotFoundTree ==
    ASSUME IInv, TreeInv, Idle, NEW p \in Paths, NotFound(p)
    PROVE  Allowed
  <1>1. CASE Forgotten
    BY <1>1, ForgottenTree
  <1>2. CASE Stop
    BY <1>2, StopTree
  <1> QED
    BY <1>1, <1>2 DEF NotFound

(* A write changes the open file only.                                     *)
LEMMA WriteOpenedTree ==
    ASSUME IInv, TreeInv, Idle, NEW size \in Nat, NEW value \in Values, WriteOpened(size, value)
    PROVE  Allowed
  <1>1. Idle /\ descriptor # NoFile /\ size \in Nat /\ value \in Blocks
    BY DEF WriteOpened, Blocks
  <1>2. PICK L : Rep(disk, L, Nothing) /\ OpenIn(L, descriptor, opened)
    BY <1>1, IdleLayout
  <1>3. /\ Disk(disk) /\ pending = <<>> /\ target = Nothing /\ GoodDisk(disk)
        /\ DescriptorOK(descriptor)
    BY <1>1, IdleLayout DEF Idle, TreeInv, TreeState
  <1>4. CASE DataWrites(size, value) = <<>>
    <2>1. UNCHANGED <<disk, pending, target, opened, tree>>
      BY <1>4 DEF WriteOpened
    <2> QED
      BY <2>1, QuietTree
  <1>5. CASE DataWrites(size, value) # <<>>
    <2>1. PICK W : W = DataWrites(size, value)
      OBVIOUS
    <2>2. Proceeds(disk, W, opened, descriptor, opened) /\ WritePlanned(L, W)
      BY <1>1, <1>2, <1>3, <1>5, <2>1, WriteProceeds
    <2>3. W # <<>> /\ Len(W) \in Nat
      BY <2>2, WritesTail DEF Proceeds
    <2>4. opened \in Paths
      <3>1. opened \in DOMAIN L /\ ~L[opened].dir
        BY <1>1, <1>2 DEF OpenIn
      <3>2. L[Root].dir /\ DOMAIN L \subseteq Paths \cup {Root}
        BY <1>2 DEF Rep, Shape
      <3> QED
        BY <3>1, <3>2
    <2>5. Effect(disk, W, opened, opened, TreeOf(disk))
      BY <1>2, <1>3, <2>2, <2>3, <2>4, WriteOutcome
    <2>6. Begin(opened, W) /\ opened' = opened
      BY <1>5, <2>1 DEF WriteOpened
    <2> QED
      BY <1>1, <2>3, <2>4, <2>5, <2>6, BegunTree
  <1> QED
    BY <1>4, <1>5

(* The callers of Open.                                                    *)
LEMMA OpenTree ==
    ASSUME IInv, TreeInv, NEW p \in Paths, PrintFile(p) \/ Load(p) \/ OpenAFile(p)
    PROVE  Allowed
  <1>1. Idle /\ Openable(p)
    BY DEF PrintFile, Load, OpenAFile, CommandTime, ProgramTime
  <1>2. Forgotten \/ Opened(p) \/ NotFound(p)
    BY DEF PrintFile, Load, OpenAFile, OpenedAndDeleted
  <1> QED
    BY <1>1, <1>2, ForgottenTree, OpenedTree, NotFoundTree

(* Copy opens, writes and closes like a program.                           *)
LEMMA CopyTree ==
    ASSUME IInv, Holder, TreeInv, CopyOpen \/ CopyClose \/ \E v \in Values : CopyWrite(v)
    PROVE  Allowed
  <1>1. Idle /\ copying \in Paths
    BY DEF Holder, CopyOpen, CopyClose, CopyWrite
  <1>2. CASE CopyOpen
    <2>1. Openable(copying) /\ Opened(copying)
      BY <1>2 DEF CopyOpen
    <2> QED
      BY <1>1, <2>1, OpenedTree
  <1>3. CASE CopyClose
    BY <1>1, <1>3, ForgottenTree DEF CopyClose
  <1>4. ASSUME NEW v \in Values, CopyWrite(v) PROVE Allowed
    <2>1. WriteOpened(1, v) /\ 1 \in Nat
      BY <1>4 DEF CopyWrite
    <2> QED
      BY <1>1, <2>1, WriteOpenedTree
  <1> QED
    BY <1>2, <1>3, <1>4

(* The system calls on the open file.                                      *)
LEMMA CallTree ==
    ASSUME IInv, TreeInv,
           Close \/ \E size \in Sizes : Read(size) \/ \E v \in Values : Write(size, v)
    PROVE  Allowed
  <1>1. Idle
    BY DEF Close, Read, Write, ProgramTime
  <1>2. CASE UseOfDeleted
    <2>1. UNCHANGED <<disk, pending, target, opened, tree>>
      BY <1>2 DEF UseOfDeleted
    <2> QED
      BY <2>1, QuietTree
  <1>3. CASE Close /\ ~UseOfDeleted
    BY <1>1, <1>3, ForgottenTree DEF Close
  <1>4. ASSUME NEW size \in Sizes, Read(size), ~UseOfDeleted PROVE Allowed
    <2>1. UNCHANGED <<disk, pending, target, opened, tree>>
      BY <1>4 DEF Read
    <2> QED
      BY <2>1, QuietTree
  <1>5. ASSUME NEW size \in Sizes, NEW v \in Values, Write(size, v), ~UseOfDeleted PROVE Allowed
    <2>1. WriteOpened(size, v) /\ size \in Nat
      BY <1>5, FileSysAssumption DEF Write
    <2> QED
      BY <1>1, <2>1, WriteOpenedTree
  <1> QED
    BY <1>2, <1>3, <1>4, <1>5

(* On a disk that was never formatted no path leads anywhere.              *)
LEMMA BlankDisk ==
    ASSUME NEW d, d = [s \in Sectors |-> DataSector(Junk)]
    PROVE  TreeOf(d) = NoPaths /\ GoodDisk(d)
  <1>1. /\ 1 <= NumSectors /\ NumSectors \in Nat /\ DirectorySector \in Sectors
        /\ ~IsHeader(d, DirectorySector)
    <2>1. DataSector(Junk).type = "data"
      BY DEF DataSector
    <2> QED
      BY <2>1, FileSysAssumption DEF IsHeader, DirectorySector, Sectors
  <1>2. Chain(d, DirectorySector)[1] = DirectorySector
    <2> DEFINE c == [i \in 1 .. NumSectors |-> IF i = 1 THEN DirectorySector ELSE NoSector]
    <2>1. c = [i \in 1 .. NumSectors |->
                  IF i = 1 THEN DirectorySector ELSE NextHeader(d, c[i - 1])]
      <3>1. ~IsHeader(d, NoSector)
        BY <1>1 DEF IsHeader, Sectors, NoSector
      <3>2. \A i \in 1 .. NumSectors : i # 1 =>
               c[i - 1] \in {DirectorySector, NoSector} /\ NextHeader(d, c[i - 1]) = NoSector
        BY <1>1, <3>1 DEF NextHeader
      <3> QED
        BY <3>2
    <2>2. Chain(d, DirectorySector) = [i \in 1 .. NumSectors |->
              IF i = 1 THEN DirectorySector ELSE NextHeader(d, Chain(d, DirectorySector)[i - 1])]
      <3> HIDE DEF c
      <3> QED
        BY <2>1 DEF Chain
    <2> HIDE DEF c
    <2> QED
      BY <1>1, <2>2
  <1>3. FetchFrom(d, DirectorySector) = <<>>
    <2> DEFINE c == Chain(d, DirectorySector)
               Whole(k) == /\ \A i \in 1 .. k : IsHeader(d, c[i])
                           /\ k < NumSectors => ~IsHeader(d, c[k + 1])
    <2> HIDE DEF c
    <2>1. c[1] = DirectorySector
      BY <1>2 DEF c
    <2>2. 0 \in 0 .. NumSectors /\ Whole(0)
      BY <1>1, <2>1
    <2>3. \A k \in 0 .. NumSectors : Whole(k) => k = 0
      BY <1>1, <2>1
    <2>4. (CHOOSE k \in 0 .. NumSectors : Whole(k)) = 0
      BY <2>2, <2>3
    <2>5. FetchFrom(d, DirectorySector) = [i \in 1 .. 0 |-> d[c[i]]]
      BY <2>4, Zenon DEF FetchFrom, c
    <2> QED
      BY <2>5
  <1>4. \A n : Find(TableAt(d, DirectorySector), n) = NoSector
    <2>1. SectorsOf(<<>>) = <<>>
      BY DEF SectorsOf, FileLength
    <2>2. TableAt(d, DirectorySector) = EmptyTable
      BY <1>3, <2>1 DEF TableAt
    <2>3. \A n : EntryOf(EmptyTable, n) = {}
      BY DEF EntryOf, EmptyTable
    <2> QED
      BY <2>2, <2>3 DEF Find
  <1>5. ASSUME NEW p \in Paths PROVE ~Exists(d, p)
    <2>1. Len(p) \in Nat \ {0}
      BY PathsAreSequences
    <2> DEFINE f == [i \in 0 .. Len(p) |-> IF i = 0 THEN DirectorySector ELSE NoSector]
    <2>2. f = [i \in 0 .. Len(p) |-> IF i = 0 THEN DirectorySector
                                     ELSE IF f[i - 1] = NoSector THEN NoSector
                                     ELSE Find(TableAt(d, f[i - 1]), p[i])]
      <3> SUFFICES ASSUME NEW i \in 0 .. Len(p)
                   PROVE  f[i] = IF i = 0 THEN DirectorySector
                                 ELSE IF f[i - 1] = NoSector THEN NoSector
                                 ELSE Find(TableAt(d, f[i - 1]), p[i])
        OBVIOUS
      <3>1. CASE i = 0
        BY <2>1, <3>1
      <3>2. CASE i = 1
        <4>1. f[i - 1] = DirectorySector /\ f[i] = NoSector
          BY <2>1, <3>2
        <4> HIDE DEF f
        <4> QED
          BY <1>4, <3>2, <4>1
      <3>3. CASE i > 1
        <4>1. f[i - 1] = NoSector /\ f[i] = NoSector
          BY <2>1, <3>3
        <4> HIDE DEF f
        <4> QED
          BY <3>3, <4>1
      <3> QED
        BY <2>1, <3>1, <3>2, <3>3
    <2>3. Way(d, p) = [i \in 0 .. Len(p) |-> IF i = 0 THEN DirectorySector
                                     ELSE IF Way(d, p)[i - 1] = NoSector THEN NoSector
                                     ELSE Find(TableAt(d, Way(d, p)[i - 1]), p[i])]
      <3> HIDE DEF f
      <3> QED
        BY <2>2 DEF Way
    <2>4. PICK w : w = Way(d, p)
      OBVIOUS
    <2> DEFINE S == {i \in 0 .. Len(p) : i # 0 => w[i] = NoSector}
    <2>5. \A i \in 0 .. Len(p) : i \in S
      <3>1. w[0] = DirectorySector
        BY <2>1, <2>3, <2>4
      <3>2. 0 \in S
        BY <2>1
      <3>3. ASSUME NEW i \in 0 .. Len(p) - 1, i \in S PROVE i + 1 \in S
        <4>1. /\ i + 1 \in 0 .. Len(p) /\ i + 1 # 0 /\ (i + 1) - 1 = i
          BY <2>1
        <4>2. w[i + 1] = IF w[i] = NoSector THEN NoSector ELSE Find(TableAt(d, w[i]), p[i + 1])
          BY <2>3, <2>4, <4>1
        <4>3. w[i] = NoSector \/ w[i] = DirectorySector
          BY <3>1, <3>3
        <4>4. w[i + 1] = NoSector
          BY <1>4, <4>2, <4>3
        <4> QED
          BY <4>1, <4>4
      <3> HIDE DEF S
      <3> QED
        BY <2>1, <3>2, <3>3, Throughout
    <2>6. w[Len(p)] = NoSector
      BY <2>1, <2>5
    <2> QED
      BY <2>4, <2>6 DEF Exists, Lookup
  <1>6. PICK t : t = TreeOf(d)
    OBVIOUS
  <1>7. DOMAIN t = {} /\ t = [q \in DOMAIN t |-> t[q]]
    BY <1>5, <1>6 DEF TreeOf, Reachable
  <1>8. t = NoPaths
    BY <1>7 DEF NoPaths
  <1>9. GoodDisk(d)
    <2>1. Junk \in Blocks
      BY DEF Blocks
    <2>2. GoodSector(DataSector(Junk))
      BY <2>1, NoData
    <2> QED
      BY <2>2 DEF GoodDisk
  <1> QED
    BY <1>6, <1>8, <1>9

(* What holds in the beginning.                                            *)
LEMMA InitTree == Init => TreeInv /\ AbstractTree!Init
  <1> SUFFICES ASSUME Init PROVE TreeInv /\ AbstractTree!Init
    OBVIOUS
  <1>1. disk = [s \in Sectors |-> DataSector(Junk)]
    BY DEF Init
  <1>2. TreeOf(disk) = NoPaths /\ GoodDisk(disk)
    BY <1>1, BlankDisk
  <1>3. /\ tree = NoPaths /\ target = Root /\ pending = <<>> /\ opened = Nothing
    BY <1>2 DEF Init
  <1>4. Root # Nothing
    BY PathsAreSequences
  <1>5. TreeState(disk, <<>>, Root, Nothing, NoPaths)
    BY <1>2, <1>4 DEF TreeState
  <1>6. TreeInv
    BY <1>3, <1>5 DEF TreeInv
  <1>7. AbstractTree!Init
    BY <1>3 DEF AbstractTree!Init, AbstractTree!Nothing, AbstractTree!Root, Nothing, Root, NoPaths
  <1> QED
    BY <1>6, <1>7

(* Every step of the file system is one of Namespace's, or none.           *)
LEMMA NextTree == IInv /\ Holder /\ TreeInv /\ [Next]_vars => Allowed
  <1> SUFFICES ASSUME IInv, Holder, TreeInv, [Next]_vars PROVE Allowed
    OBVIOUS
  <1>1. CASE Format
    BY <1>1, FormatTree
  <1>2. CASE Boot
    <2>1. UNCHANGED <<disk, pending, target, opened, tree>>
      BY <1>2 DEF Boot
    <2> QED
      BY <2>1, QuietTree
  <1>3. CASE WriteSector
    BY <1>3, WriteSectorTree
  <1>4. CASE Stop
    BY <1>4, StopTree
  <1>5. ASSUME NEW p \in Paths, NEW size \in Sizes, Create(p, size) PROVE Allowed
    BY <1>5, CreateTree
  <1>6. ASSUME NEW p \in Paths, CreateDirectory(p) PROVE Allowed
    BY <1>6, CreateDirectoryTree
  <1>7. ASSUME NEW p \in Paths, RemovePath(p) PROVE Allowed
    BY <1>7, RemoveTree
  <1>8. ASSUME NEW p \in Paths, PrintFile(p) \/ Load(p) \/ OpenAFile(p) PROVE Allowed
    BY <1>8, OpenTree
  <1>9. CASE CopyOpen \/ CopyClose \/ \E v \in Values : CopyWrite(v)
    BY <1>9, CopyTree
  <1>10. CASE Close \/ \E size \in Sizes : Read(size) \/ \E v \in Values : Write(size, v)
    BY <1>10, CallTree
  <1>11. CASE UNCHANGED vars
    BY <1>11, QuietTree DEF vars
  <1> QED
    BY <1>1, <1>2, <1>3, <1>4, <1>5, <1>6, <1>7, <1>8, <1>9, <1>10, <1>11 DEF Next

(* ImplementsNamespace: Create, CreateDirectory, Remove and Write change   *)
(* the tree of names as their names say, and one that is cut short at any  *)
(* sector write leaves every path but its own, and those below it, as they *)
(* were.                                                                   *)
THEOREM NamespaceImplemented == Spec => ImplementsNamespace
  <1>1. Init => TreeInv /\ AbstractTree!Init
    BY InitTree
  <1>2. (IInv /\ Holder) /\ TreeInv /\ [Next]_vars => TreeInv' /\ [AbstractTree!Next]_AbstractTree!vars
    BY NextTree DEF Allowed, NamespaceStep
  <1> QED
    BY <1>1, <1>2, Invariance, PTL DEF Spec, ImplementsNamespace, AbstractTree!Spec

=============================================================================
