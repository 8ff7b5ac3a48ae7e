--------------------------- MODULE FileSysProofs ---------------------------
(***************************************************************************)
(* What the file system guarantees for any disk, names and sizes: sectors  *)
(* with one owner, whatever operation is cut short, and a descriptor that  *)
(* stays true to the disk.                                                 *)
(***************************************************************************)
EXTENDS FileSys, SequenceTheorems, FiniteSetTheorems, WellFoundedInduction, TLAPS

-----------------------------------------------------------------------------
(* Numbers and sets.                                                       *)

(* A set of numbers that is not empty has a least one.                     *)
LEMMA LeastNumber ==
    ASSUME NEW S \in SUBSET Nat, S # {}
    PROVE  \E x \in S : \A y \in S : x <= y
  <1>1. IsWellFoundedOn(OpToRel(<, Nat), Nat)
    BY NatLessThanWellFounded, Zenon
  <1>2. PICK x \in S : \A y \in S : ~ (<<y, x>> \in OpToRel(<, Nat))
    BY <1>1, WFMin, Zenon
  <1>3. ASSUME NEW y \in S, y < x
        PROVE  <<y, x>> \in OpToRel(<, Nat)
    BY <1>3 DEF OpToRel
  <1>4. ASSUME NEW y \in S PROVE x <= y
    <2>1. ~ (y < x)
      BY <1>2, <1>3
    <2>2. x \in Nat /\ y \in Nat
      OBVIOUS
    <2> QED
      BY <2>1, <2>2
  <1> QED
    BY <1>4

(* What holds first and is handed on holds throughout.                     *)
LEMMA Throughout ==
    ASSUME NEW a \in Nat, NEW b \in Nat, NEW S, a \in S,
           \A i \in a .. b - 1 : i \in S => i + 1 \in S
    PROVE  \A i \in a .. b : i \in S
  <1> DEFINE missing == {i \in a .. b : i \notin S}
  <1> SUFFICES ASSUME missing # {} PROVE FALSE
    OBVIOUS
  <1>0. missing \in SUBSET Nat
    OBVIOUS
  <1>1. PICK x \in missing : \A y \in missing : x <= y
    <2> HIDE DEF missing
    <2> QED
      BY <1>0, LeastNumber
  <1>2. x - 1 \in a .. b - 1
    BY <1>1
  <1>3. x - 1 \in S
    BY <1>1, <1>2
  <1> QED
    BY <1>1, <1>2, <1>3

(* The least number of a set is in it.                                     *)
LEMMA MinOK ==
    ASSUME NEW S \in SUBSET Nat, S # {}
    PROVE  Min(S) \in S /\ \A y \in S : Min(S) <= y
  BY LeastNumber DEF Min

-----------------------------------------------------------------------------
(* The headers of a file.                                                  *)

(* What the disk d holds of a file whose headers are in the sectors at.    *)
HeadersAt(d, at, headers) ==
    /\ at \in Seq(Sectors) /\ Len(at) \in 1 .. NumSectors
    /\ headers = [i \in 1 .. Len(at) |-> d[at[i]]]
    /\ \A i \in 1 .. Len(at) :
          /\ d[at[i]].type = "header"
          /\ d[at[i]].next = IF i < Len(at) THEN at[i + 1] ELSE NoSector

(* FetchFrom follows the headers to the last.                              *)
LEMMA ChainOK ==
    ASSUME NEW d, NEW at, NEW headers, HeadersAt(d, at, headers)
    PROVE  \A i \in 1 .. NumSectors :
              Chain(d, at[1])[i] = IF i <= Len(at) THEN at[i] ELSE NoSector
  <1> DEFINE f == [i \in 1 .. NumSectors |-> IF i <= Len(at) THEN at[i] ELSE NoSector]
  <1>0. NumSectors \in Nat
    BY FileSysAssumption
  <1>1. f = [i \in 1 .. NumSectors |->
               IF i = 1 THEN at[1] ELSE NextHeader(d, f[i - 1])]
    <2> SUFFICES ASSUME NEW i \in 1 .. NumSectors
                 PROVE  f[i] = IF i = 1 THEN at[1] ELSE NextHeader(d, f[i - 1])
      OBVIOUS
    <2>1. Len(at) \in 1 .. NumSectors /\ at \in Seq(Sectors)
      BY DEF HeadersAt
    <2>2. CASE i = 1
      BY <2>1, <2>2
    <2>3. CASE i # 1 /\ i - 1 <= Len(at)
      <3>1. i - 1 \in 1 .. Len(at) /\ i - 1 \in 1 .. NumSectors
        BY <1>0, <2>1, <2>3
      <3>2. f[i - 1] = at[i - 1] /\ at[i - 1] \in Sectors
        BY <2>1, <3>1
      <3>3. NextHeader(d, f[i - 1]) = IF i - 1 < Len(at) THEN at[i - 1 + 1] ELSE NoSector
        BY <3>1, <3>2 DEF NextHeader, IsHeader, HeadersAt
      <3> QED
        BY <2>1, <2>3, <3>1, <3>3
    <2>4. CASE i # 1 /\ i - 1 > Len(at)
      <3>1. f[i - 1] = NoSector /\ NoSector \notin Sectors
        BY <1>0, <2>1, <2>4 DEF Sectors, NoSector
      <3> QED
        BY <2>1, <2>4, <3>1 DEF NextHeader, IsHeader
    <2> QED
      BY <2>1, <2>2, <2>3, <2>4
  <1>2. Chain(d, at[1]) = [i \in 1 .. NumSectors |->
               IF i = 1 THEN at[1] ELSE NextHeader(d, Chain(d, at[1])[i - 1])]
    BY <1>1 DEF Chain
  <1> HIDE DEF f
  <1> DEFINE S == {i \in 1 .. NumSectors : Chain(d, at[1])[i] = f[i]}
  <1>3. 1 \in S
    BY <1>0, <1>1, <1>2 DEF HeadersAt
  <1>4. ASSUME NEW i \in 1 .. NumSectors - 1, i \in S PROVE i + 1 \in S
    BY <1>0, <1>1, <1>2, <1>4
  <1>5. \A i \in 1 .. NumSectors : i \in S
    BY <1>0, <1>3, <1>4, Throughout
  <1> QED
    BY <1>5 DEF f

(* FetchFrom returns the headers that are linked on the disk.              *)
LEMMA FetchOK ==
    ASSUME NEW d, NEW at, NEW headers, HeadersAt(d, at, headers)
    PROVE  FetchFrom(d, at[1]) = headers
  <1> DEFINE c == Chain(d, at[1])
             Whole(k) == /\ \A i \in 1 .. k : IsHeader(d, c[i])
                         /\ k < NumSectors => ~IsHeader(d, c[k + 1])
  <1>1. /\ NumSectors \in Nat /\ at \in Seq(Sectors) /\ Len(at) \in 1 .. NumSectors
        /\ NoSector \notin Sectors
    BY FileSysAssumption DEF HeadersAt, Sectors, NoSector
  <1>2. \A i \in 1 .. NumSectors : c[i] = IF i <= Len(at) THEN at[i] ELSE NoSector
    BY ChainOK
  <1>3. \A i \in 1 .. NumSectors : IsHeader(d, c[i]) <=> i <= Len(at)
    BY <1>1, <1>2 DEF IsHeader, HeadersAt
  <1> HIDE DEF c
  <1>4. Len(at) \in 0 .. NumSectors /\ Whole(Len(at))
    BY <1>1, <1>3
  <1>5. ASSUME NEW k \in 0 .. NumSectors, Whole(k) PROVE k = Len(at)
    <2>1. ~ (k < Len(at))
      BY <1>1, <1>3, <1>5
    <2>2. ~ (k > Len(at))
      BY <1>1, <1>3, <1>5
    <2> QED
      BY <1>1, <2>1, <2>2
  <1>6. (CHOOSE k \in 0 .. NumSectors : Whole(k)) = Len(at)
    BY <1>4, <1>5
  <1>7. FetchFrom(d, at[1]) = [i \in 1 .. Len(at) |-> d[c[i]]]
    BY <1>6, Zenon DEF FetchFrom, c
  <1> QED
    BY <1>1, <1>2, <1>7 DEF HeadersAt

(* A file with one header and one sector of data.                          *)
LEMMA OneHeader ==
    ASSUME NEW s \in Sectors, NEW next
    PROVE  SectorsOf(<<HeaderSector(<<s>>, next)>>) = <<s>>
  <1> DEFINE h == <<HeaderSector(<<s>>, next)>>
  <1>1. NumDirect \in Nat \ {0}
    BY FileSysAssumption
  <1>2. Len(h) = 1 /\ h[1].data = <<s>> /\ h # <<>> /\ Last(h) = h[1]
    BY DEF HeaderSector, Last
  <1>3. FileLength(h) = 1
    <2>1. FileLength(h) = (Len(h) - 1) * NumDirect + Len(h[1].data)
      BY <1>2 DEF FileLength
    <2>2. Len(h[1].data) = 1
      BY <1>2
    <2>3. (Len(h) - 1) * NumDirect = 0
      <3>1. Len(h) - 1 = 0
        BY <1>2
      <3>2. 0 * NumDirect = 0
        BY <1>1
      <3> QED
        BY <3>1, <3>2
    <2> HIDE DEF h
    <2> QED
      BY <2>1, <2>2, <2>3
  <1>4. 0 \div NumDirect = 0 /\ 0 % NumDirect = 0
    BY <1>1
  <1>5. SectorsOf(h) = [i \in 1 .. 1 |-> s]
    BY <1>2, <1>3, <1>4 DEF SectorsOf
  <1> QED
    BY <1>5

-----------------------------------------------------------------------------
(* What the disk stands for.  A layout gives each path that can be reached *)
(* the item it leads to: whether a directory, the sectors of its headers,  *)
(* and the headers.  The path t is that of an unfinished operation.        *)

FreeMapData == 2           \* where Format puts the bitmap
FreeMapSectors == {FreeMapSector, FreeMapData}

Own(item) == ToSet(item.at) \cup ToSet(SectorsOf(item.headers))

ItemOK(d, item) ==
    /\ HeadersAt(d, item.at, item.headers)
    /\ SectorsOf(item.headers) \in Seq(Sectors)
    /\ ToSet(item.at) \cap ToSet(SectorsOf(item.headers)) = {}
    /\ item.dir \in BOOLEAN
    /\ item.dir => Len(SectorsOf(item.headers)) = 1

Entries == [name : Names, sector : Sectors, dir : BOOLEAN]
Tables == [1 .. NumEntries -> Entries \cup {NoEntry}]

(* The entries of a table are the items below the directory.               *)
EntryFor(L, q) == [name |-> Last(q), sector |-> L[q].at[1], dir |-> L[q].dir]
Listing(L, p, table) ==
    /\ table \in Tables
    /\ \A i, j \in 1 .. NumEntries :
          table[i] # NoEntry /\ table[j] # NoEntry /\ table[i].name = table[j].name => i = j
    /\ \A i \in 1 .. NumEntries : table[i] # NoEntry =>
          /\ Append(p, table[i].name) \in DOMAIN L
          /\ table[i] = EntryFor(L, Append(p, table[i].name))
    /\ \A n \in Names : Append(p, n) \in DOMAIN L =>
          \E i \in 1 .. NumEntries : table[i] = EntryFor(L, Append(p, n))

TableData(item) == SectorsOf(item.headers)[1]

(* The first i components of a path.                                       *)
UpTo(p, i) == SubSeq(p, 1, i)

Shape(L, t) ==
    /\ DOMAIN L \subseteq Paths \cup {Root}
    /\ Root \in DOMAIN L /\ L[Root].at = <<DirectorySector>> /\ L[Root].dir
    /\ \A p \in DOMAIN L : \A i \in 0 .. Len(p) - 1 :
          UpTo(p, i) \in DOMAIN L /\ UpTo(p, i) # t /\ L[UpTo(p, i)].dir

Items(d, L) == \A p \in DOMAIN L : ItemOK(d, L[p])

Apart(L) ==
    /\ \A p, q \in DOMAIN L : p # q => Own(L[p]) \cap Own(L[q]) = {}
    /\ \A p \in DOMAIN L : Own(L[p]) \cap FreeMapSectors = {}

Listed(d, L, t) ==
    \A p \in DOMAIN L : L[p].dir /\ p # t =>
        /\ d[TableData(L[p])].type = "table"
        /\ Listing(L, p, d[TableData(L[p])].table)

BitmapOK(d) ==
    /\ d[FreeMapSector] = HeaderSector(<<FreeMapData>>, NoSector)
    /\ d[FreeMapData].type = "bitmap"
    /\ FreeMapSectors \subseteq d[FreeMapData].marked

Marked(d, L, t) == \A p \in DOMAIN L : p # t => Own(L[p]) \subseteq d[FreeMapData].marked

Rep(d, L, t) ==
    Shape(L, t) /\ Items(d, L) /\ Apart(L) /\ Listed(d, L, t) /\ BitmapOK(d) /\ Marked(d, L, t)

(* Paths and the prefixes of a path.                                       *)
LEMMA PathsAreSequences ==
    /\ \A p \in Paths \cup {Root} : p \in Seq(Names) /\ Len(p) \in 0 .. MaxDepth
    /\ \A p \in Seq(Names) : Len(p) <= MaxDepth => p \in Paths \cup {Root}
    /\ \A p \in Paths : p # Root /\ Len(p) > 0
    /\ Nothing \notin Paths \cup {Root}
  <1>1. MaxDepth \in Nat
    BY FileSysAssumption
  <1>2. ASSUME NEW p \in Paths \cup {Root} PROVE p \in Seq(Names) /\ Len(p) \in 0 .. MaxDepth
    <2>1. CASE p = Root
      BY <1>1, <2>1 DEF Root
    <2>2. ASSUME NEW m \in 0 .. MaxDepth, p \in [1 .. m -> Names]
          PROVE  p \in Seq(Names) /\ Len(p) \in 0 .. MaxDepth
      <3>1. m \in Nat /\ p \in Seq(Names)
        BY <1>1, <2>2
      <3>2. Len(p) = m
        BY <2>2, <3>1
      <3> QED
        BY <3>1, <3>2
    <2> QED
      BY <2>1, <2>2 DEF Paths, SeqOf
  <1>3. ASSUME NEW p \in Seq(Names), Len(p) <= MaxDepth PROVE p \in Paths \cup {Root}
    <2>1. p \in [1 .. Len(p) -> Names] /\ Len(p) \in 0 .. MaxDepth
      BY <1>1, <1>3
    <2> QED
      BY <2>1 DEF Paths, SeqOf
  <1>4. ASSUME NEW p \in Paths PROVE p # Root /\ Len(p) > 0
    <2>1. p # Root
      BY DEF Paths
    <2> QED
      BY <1>2, <2>1 DEF Root
  <1>5. Nothing \notin Paths \cup {Root}
    <2>1. Nothing[1] = "nothing" /\ Len(Nothing) = 1
      BY DEF Nothing
    <2>2. \A p \in Paths \cup {Root} : Len(p) = 1 => p[1] \in Names
      BY <1>2
    <2> QED
      BY <2>1, <2>2, FileSysAssumption
  <1> QED
    BY <1>2, <1>3, <1>4, <1>5

(* The beginnings of a path.                                               *)
LEMMA PrefixOK ==
    ASSUME NEW p \in Seq(Names), NEW i \in 0 .. Len(p)
    PROVE  /\ UpTo(p, i) \in Seq(Names) /\ Len(UpTo(p, i)) = i
           /\ \A j \in 1 .. i : UpTo(p, i)[j] = p[j]
           /\ \A j \in 0 .. i : UpTo(UpTo(p, i), j) = UpTo(p, j)
  <1>1. UpTo(p, i) \in Seq(Names) /\ Len(UpTo(p, i)) = i
    BY DEF UpTo
  <1>2. \A j \in 1 .. i : UpTo(p, i)[j] = p[j]
    BY DEF UpTo
  <1>3. \A j \in 0 .. i : UpTo(UpTo(p, i), j) = UpTo(p, j)
    BY DEF UpTo
  <1> QED
    BY <1>1, <1>2, <1>3

(* The shortest beginning is the root, the longest the path.               *)
LEMMA WholeAndEmpty ==
    ASSUME NEW p \in Seq(Names)
    PROVE  UpTo(p, 0) = Root /\ UpTo(p, Len(p)) = p
  <1>1. UpTo(p, 0) = Root
    BY DEF Root, UpTo
  <1>2. UpTo(p, Len(p)) = p
    BY DEF UpTo
  <1> QED
    BY <1>1, <1>2

(* One component more.                                                     *)
LEMMA PrefixGrows ==
    ASSUME NEW p \in Seq(Names), NEW i \in 1 .. Len(p)
    PROVE  UpTo(p, i) = Append(UpTo(p, i - 1), p[i])
  <1>1. PICK u : u = UpTo(p, i)
    OBVIOUS
  <1>2. PICK v : v = UpTo(p, i - 1)
    OBVIOUS
  <1>3. p[i] \in Names
    OBVIOUS
  <1>4. u \in Seq(Names) /\ Len(u) = i /\ \A j \in 1 .. i : u[j] = p[j]
    BY <1>1 DEF UpTo
  <1>5. v \in Seq(Names) /\ Len(v) = i - 1 /\ \A j \in 1 .. i - 1 : v[j] = p[j]
    BY <1>2 DEF UpTo
  <1>6. Append(v, p[i]) \in Seq(Names) /\ Len(Append(v, p[i])) = i
    BY <1>3, <1>5
  <1>7. \A j \in 1 .. i : u[j] = Append(v, p[i])[j]
    BY <1>3, <1>4, <1>5
  <1>8. u = Append(v, p[i])
    BY <1>4, <1>6, <1>7, SeqEqual
  <1> QED
    BY <1>1, <1>2, <1>8

(* What is read of an item of the layout.                                  *)
LEMMA ItemRead ==
    ASSUME NEW d, NEW item, ItemOK(d, item)
    PROVE  /\ FetchFrom(d, item.at[1]) = item.headers
           /\ item.at \in Seq(Sectors) /\ Len(item.at) \in 1 .. NumSectors
           /\ item.at[1] \in Sectors /\ item.at[1] # NoSector
           /\ Own(item) \subseteq Sectors
           /\ item.dir => SectorsOf(item.headers) # <<>> /\ TableData(item) \in Own(item)
  <1>1. HeadersAt(d, item.at, item.headers) /\ SectorsOf(item.headers) \in Seq(Sectors)
    BY DEF ItemOK
  <1>2. item.at \in Seq(Sectors) /\ Len(item.at) \in 1 .. NumSectors
    BY <1>1 DEF HeadersAt
  <1>3. item.at[1] \in Sectors /\ NumSectors \in Nat
    BY <1>2, FileSysAssumption
  <1>4. item.at[1] # NoSector
    BY <1>3 DEF Sectors, NoSector
  <1>5. Own(item) \subseteq Sectors
    BY <1>1, <1>2 DEF Own, ToSet
  <1>6. ASSUME item.dir
        PROVE  SectorsOf(item.headers) # <<>> /\ TableData(item) \in Own(item)
    <2>1. Len(SectorsOf(item.headers)) = 1
      BY <1>6 DEF ItemOK
    <2>2. 1 \in DOMAIN SectorsOf(item.headers)
      BY <1>1, <2>1
    <2> QED
      BY <1>1, <2>1, <2>2 DEF TableData, Own, ToSet
  <1> QED
    BY <1>1, <1>2, <1>3, <1>4, <1>5, <1>6, FetchOK

(* The table of a directory is the one in its data sector.                 *)
LEMMA TableRead ==
    ASSUME NEW d, NEW item, ItemOK(d, item), item.dir, d[TableData(item)].type = "table"
    PROVE  TableAt(d, item.at[1]) = d[TableData(item)].table
  BY ItemRead DEF TableAt, TableData

(* An entry in use differs from one that is not.                           *)
LEMMA InUse ==
    ASSUME NEW e \in Entries
    PROVE  e # NoEntry
  BY FileSysAssumption DEF Entries, Sectors

(* The entry that stands for a path.                                       *)
LEMMA EntryForOK ==
    ASSUME NEW d, NEW L, Items(d, L), NEW p \in Seq(Names), NEW n \in Names,
           Append(p, n) \in DOMAIN L
    PROVE  /\ EntryFor(L, Append(p, n)) \in Entries
           /\ EntryFor(L, Append(p, n)).name = n
  <1>1. Last(Append(p, n)) = n
    <2>1. Len(Append(p, n)) = Len(p) + 1 /\ Append(p, n)[Len(p) + 1] = n
      OBVIOUS
    <2> QED
      BY <2>1 DEF Last
  <1>2. ItemOK(d, L[Append(p, n)])
    BY DEF Items
  <1>3. L[Append(p, n)].at[1] \in Sectors /\ L[Append(p, n)].dir \in BOOLEAN
    BY <1>2, ItemRead DEF ItemOK
  <1> QED
    BY <1>1, <1>3 DEF EntryFor, Entries

(* A name is found in the table of a directory if it is in the layout.     *)
LEMMA EntryFound ==
    ASSUME NEW d, NEW L, Items(d, L), NEW p \in Seq(Names),
           NEW table, Listing(L, p, table), NEW n \in Names
    PROVE  /\ Append(p, n) \in DOMAIN L =>
                 \E i \in 1 .. NumEntries : /\ EntryOf(table, n) = {i}
                                            /\ Min(EntryOf(table, n)) = i
                                            /\ table[i] = EntryFor(L, Append(p, n))
           /\ Append(p, n) \notin DOMAIN L => EntryOf(table, n) = {}
  <1>1. /\ DOMAIN table = 1 .. NumEntries
        /\ \A i \in 1 .. NumEntries : table[i] \in Entries \cup {NoEntry}
    BY DEF Listing, Tables
  <1>2. ASSUME Append(p, n) \in DOMAIN L
        PROVE  \E i \in 1 .. NumEntries : /\ EntryOf(table, n) = {i}
                                          /\ Min(EntryOf(table, n)) = i
                                          /\ table[i] = EntryFor(L, Append(p, n))
    <2>1. PICK i \in 1 .. NumEntries : table[i] = EntryFor(L, Append(p, n))
      BY <1>2 DEF Listing
    <2>2. table[i] # NoEntry /\ table[i].name = n
      BY <1>2, <2>1, EntryForOK, InUse
    <2>3. EntryOf(table, n) = {i}
      BY <1>1, <2>2 DEF EntryOf, Listing
    <2>4. Min({i}) = i
      BY DEF Min
    <2> QED
      BY <2>1, <2>3, <2>4
  <1>3. ASSUME Append(p, n) \notin DOMAIN L PROVE EntryOf(table, n) = {}
    BY <1>1, <1>3 DEF EntryOf, Listing
  <1> QED
    BY <1>2, <1>3

(* Directory::Find finds the names of the layout and no others.            *)
LEMMA NameFound ==
    ASSUME NEW d, NEW L, NEW t, Rep(d, L, t),
           NEW p \in DOMAIN L, L[p].dir, p # t, NEW n \in Names
    PROVE  Find(TableAt(d, L[p].at[1]), n) =
              IF Append(p, n) \in DOMAIN L THEN L[Append(p, n)].at[1] ELSE NoSector
  <1>1. /\ Items(d, L) /\ ItemOK(d, L[p])
        /\ d[TableData(L[p])].type = "table" /\ Listing(L, p, d[TableData(L[p])].table)
    BY DEF Rep, Items, Listed
  <1>2. p \in Seq(Names)
    BY PathsAreSequences DEF Rep, Shape
  <1>3. PICK table : table = d[TableData(L[p])].table
    OBVIOUS
  <1>4. TableAt(d, L[p].at[1]) = table /\ Listing(L, p, table)
    BY <1>1, <1>3, TableRead
  <1>5. CASE Append(p, n) \in DOMAIN L
    <2>1. PICK i \in 1 .. NumEntries : /\ EntryOf(table, n) = {i}
                                       /\ Min(EntryOf(table, n)) = i
                                       /\ table[i] = EntryFor(L, Append(p, n))
      BY <1>1, <1>2, <1>4, <1>5, EntryFound
    <2> QED
      BY <1>4, <1>5, <2>1 DEF Find, EntryFor
  <1>6. CASE Append(p, n) \notin DOMAIN L
    BY <1>1, <1>2, <1>4, <1>6, EntryFound DEF Find
  <1> QED
    BY <1>5, <1>6

(* OpenDir finds its way along the layout, past directories, and to the    *)
(* item of the path if there is one.                                       *)
LEMMA WayOK ==
    ASSUME NEW d, NEW L, NEW t, Rep(d, L, t), NEW p \in Paths \cup {Root},
           \A i \in 0 .. Len(p) - 1 : UpTo(p, i) \in DOMAIN L =>
              L[UpTo(p, i)].dir /\ UpTo(p, i) # t
    PROVE  Lookup(d, p) = IF p \in DOMAIN L THEN L[p].at[1] ELSE NoSector
  <1> DEFINE At(i) == IF UpTo(p, i) \in DOMAIN L THEN L[UpTo(p, i)].at[1] ELSE NoSector
             f == [i \in 0 .. Len(p) |-> At(i)]
  <1>0. p \in Seq(Names) /\ Len(p) \in Nat
    BY PathsAreSequences
  <1>1. Shape(L, t) /\ \A q \in DOMAIN L : ItemOK(d, L[q])
    BY DEF Rep, Items
  <1>2. ASSUME NEW i \in 0 .. Len(p)
        PROVE  At(i) = IF i = 0 THEN DirectorySector
                       ELSE IF At(i - 1) = NoSector THEN NoSector
                       ELSE Find(TableAt(d, At(i - 1)), p[i])
    <2>1. CASE i = 0
      <3>1. UpTo(p, 0) = Root /\ L[Root].at = <<DirectorySector>> /\ Root \in DOMAIN L
        BY <1>0, <1>1, WholeAndEmpty DEF Shape
      <3>2. At(i) = DirectorySector
        BY <2>1, <3>1
      <3> HIDE DEF At
      <3> QED
        BY <2>1, <3>2
    <2>2. CASE i > 0
      <3>0. i \in 1 .. Len(p) /\ i - 1 \in 0 .. Len(p) - 1 /\ p[i] \in Names
        BY <1>0, <2>2
      <3>1. PICK u : u = UpTo(p, i - 1)
        OBVIOUS
      <3>2. UpTo(p, i) = Append(u, p[i])
        BY <1>0, <3>0, <3>1, PrefixGrows
      <3>3. CASE u \notin DOMAIN L
        <4>1. UpTo(p, i) \notin DOMAIN L
          <5>1. SUFFICES ASSUME UpTo(p, i) \in DOMAIN L PROVE FALSE
            OBVIOUS
          <5>2. Len(UpTo(p, i)) = i /\ UpTo(UpTo(p, i), i - 1) = u
            <6>1. i \in 0 .. Len(p) /\ i - 1 \in 0 .. i
              BY <1>0, <3>0
            <6> QED
              BY <1>0, <3>1, <6>1, PrefixOK
          <5> QED
            BY <1>1, <3>0, <3>3, <5>1, <5>2 DEF Shape
        <4> QED
          BY <2>2, <3>1, <3>3, <4>1
      <3>4. CASE u \in DOMAIN L
        <4>1. L[u].dir /\ u # t
          BY <3>0, <3>1, <3>4
        <4>2. At(i - 1) = L[u].at[1] /\ L[u].at[1] # NoSector
          BY <1>1, <3>1, <3>4, ItemRead
        <4>3. Find(TableAt(d, L[u].at[1]), p[i]) =
                 IF Append(u, p[i]) \in DOMAIN L THEN L[Append(u, p[i])].at[1] ELSE NoSector
          BY <3>0, <3>4, <4>1, NameFound
        <4>4. At(i) = Find(TableAt(d, L[u].at[1]), p[i])
          BY <3>2, <4>3
        <4> HIDE DEF At
        <4> QED
          BY <2>2, <4>2, <4>4
      <3> QED
        BY <3>3, <3>4
    <2> QED
      BY <1>0, <2>1, <2>2
  <1>3. f = [i \in 0 .. Len(p) |-> IF i = 0 THEN DirectorySector
                                   ELSE IF f[i - 1] = NoSector THEN NoSector
                                   ELSE Find(TableAt(d, f[i - 1]), p[i])]
    <2> HIDE DEF At
    <2> SUFFICES ASSUME NEW i \in 0 .. Len(p)
                 PROVE  f[i] = IF i = 0 THEN DirectorySector
                               ELSE IF f[i - 1] = NoSector THEN NoSector
                               ELSE Find(TableAt(d, f[i - 1]), p[i])
      OBVIOUS
    <2>1. i # 0 => f[i - 1] = At(i - 1)
      BY <1>0
    <2> QED
      BY <1>2, <2>1
  <1>4. Way(d, p) = [i \in 0 .. Len(p) |-> IF i = 0 THEN DirectorySector
                                   ELSE IF Way(d, p)[i - 1] = NoSector THEN NoSector
                                   ELSE Find(TableAt(d, Way(d, p)[i - 1]), p[i])]
    <2> HIDE DEF f
    <2> QED
      BY <1>3 DEF Way
  <1> DEFINE S == {i \in 0 .. Len(p) : Way(d, p)[i] = f[i]}
  <1>5. \A i \in 0 .. Len(p) : i \in S
    <2> HIDE DEF f
    <2>1. 0 \in S
      BY <1>0, <1>3, <1>4
    <2>2. ASSUME NEW i \in 0 .. Len(p) - 1, i \in S PROVE i + 1 \in S
      BY <1>0, <1>3, <1>4, <2>2
    <2> HIDE DEF S
    <2> QED
      BY <1>0, <2>1, <2>2, Throughout
  <1>6. Lookup(d, p) = f[Len(p)]
    <2> HIDE DEF f
    <2> QED
      BY <1>0, <1>5 DEF Lookup
  <1>7. f[Len(p)] = At(Len(p))
    <2> HIDE DEF At
    <2> QED
      BY <1>0
  <1>8. At(Len(p)) = IF p \in DOMAIN L THEN L[p].at[1] ELSE NoSector
    BY <1>0, WholeAndEmpty
  <1> HIDE DEF f, At
  <1> QED
    BY <1>6, <1>7, <1>8

(* A path is the one above it and a name.                                  *)
LEMMA FrontOK ==
    ASSUME NEW p \in Paths
    PROVE  /\ p \in Seq(Names) /\ Len(p) \in 1 .. MaxDepth
           /\ Front(p) = UpTo(p, Len(p) - 1)
           /\ Front(p) \in Paths \cup {Root} /\ Front(p) \in Seq(Names)
           /\ Len(Front(p)) = Len(p) - 1
           /\ Last(p) \in Names /\ p = Append(Front(p), Last(p))
  <1>1. p \in Seq(Names) /\ Len(p) \in 1 .. MaxDepth /\ MaxDepth \in Nat
    BY PathsAreSequences, FileSysAssumption
  <1>2. Front(p) = UpTo(p, Len(p) - 1)
    BY DEF Front, UpTo
  <1>3. Len(p) - 1 \in 0 .. Len(p) /\ Len(p) \in 1 .. Len(p)
    BY <1>1
  <1>4. Front(p) \in Seq(Names) /\ Len(Front(p)) = Len(p) - 1
    BY <1>1, <1>2, <1>3, PrefixOK
  <1>5. Front(p) \in Paths \cup {Root}
    BY <1>1, <1>4, PathsAreSequences
  <1>6. UpTo(p, Len(p)) = Append(UpTo(p, Len(p) - 1), p[Len(p)])
    BY <1>1, <1>3, PrefixGrows
  <1>7. Last(p) \in Names /\ p = Append(Front(p), Last(p))
    BY <1>1, <1>2, <1>6, WholeAndEmpty DEF Last
  <1> QED
    BY <1>1, <1>2, <1>4, <1>5, <1>7

(* What is read of a path of the layout.                                   *)
LEMMA PathFound ==
    ASSUME NEW d, NEW L, NEW t, Rep(d, L, t), NEW p \in DOMAIN L
    PROVE  /\ Lookup(d, p) = L[p].at[1] /\ Lookup(d, p) # NoSector
           /\ FetchFrom(d, Lookup(d, p)) = L[p].headers
           /\ Exists(d, p)
           /\ IsDirectory(d, p) <=> L[p].dir
           /\ p # Root => EntryAt(d, p) = EntryFor(L, p)
  <1>1. Shape(L, t) /\ p \in Paths \cup {Root} /\ Items(d, L) /\ ItemOK(d, L[p])
    BY DEF Rep, Shape, Items
  <1>2. \A i \in 0 .. Len(p) - 1 : UpTo(p, i) \in DOMAIN L /\ L[UpTo(p, i)].dir /\ UpTo(p, i) # t
    BY <1>1 DEF Shape
  <1>3. Lookup(d, p) = L[p].at[1] /\ Lookup(d, p) # NoSector
    BY <1>1, <1>2, WayOK, ItemRead
  <1>4. FetchFrom(d, Lookup(d, p)) = L[p].headers /\ Exists(d, p)
    BY <1>1, <1>3, ItemRead DEF Exists
  <1>5. ASSUME p # Root PROVE EntryAt(d, p) = EntryFor(L, p)
    <2> DEFINE u == Front(p)
    <2>1. /\ p \in Seq(Names) /\ u = UpTo(p, Len(p) - 1) /\ u \in Seq(Names)
          /\ Last(p) \in Names /\ p = Append(u, Last(p)) /\ u \in Paths \cup {Root}
          /\ Len(p) - 1 \in 0 .. Len(p) - 1
      BY <1>1, <1>5, FrontOK
    <2>2. u \in DOMAIN L /\ L[u].dir /\ u # t
      BY <1>2, <2>1
    <2>3. \A i \in 0 .. Len(u) - 1 : UpTo(u, i) \in DOMAIN L /\ L[UpTo(u, i)].dir /\ UpTo(u, i) # t
      BY <1>1, <2>2 DEF Shape
    <2>4. Lookup(d, u) = L[u].at[1]
      BY <2>1, <2>2, <2>3, WayOK
    <2>5. /\ ItemOK(d, L[u]) /\ d[TableData(L[u])].type = "table"
          /\ Listing(L, u, d[TableData(L[u])].table)
      BY <1>1, <2>2 DEF Rep, Items, Listed
    <2> HIDE DEF u
    <2>6. PICK table : table = TableAt(d, Lookup(d, u))
      OBVIOUS
    <2>7. Listing(L, u, table)
      BY <2>2, <2>4, <2>5, <2>6, TableRead
    <2>8. PICK n \in Names : n = Last(p) /\ p = Append(u, n)
      BY <2>1
    <2>9. PICK i \in 1 .. NumEntries : Min(EntryOf(table, n)) = i /\ table[i] = EntryFor(L, p)
      BY <1>1, <2>1, <2>7, <2>8, EntryFound
    <2> QED
      BY <2>6, <2>8, <2>9 DEF EntryAt, u
  <1>6. IsDirectory(d, p) <=> L[p].dir
    <2>1. L[Root].dir /\ L[p].dir \in BOOLEAN
      BY <1>1 DEF Shape, ItemOK
    <2> QED
      BY <1>4, <1>5, <2>1 DEF IsDirectory, EntryFor
  <1> QED
    BY <1>3, <1>4, <1>5, <1>6

(* A path that is not in the layout does not exist.                        *)
LEMMA PathNotFound ==
    ASSUME NEW d, NEW L, NEW t, Rep(d, L, t), NEW p \in Paths, p \notin DOMAIN L,
           \A i \in 1 .. Len(p) - 1 :
              /\ Exists(d, UpTo(p, i)) => IsDirectory(d, UpTo(p, i))
              /\ UpTo(p, i) # t,
           t # Root
    PROVE  ~Exists(d, p)
  <1>1. ASSUME NEW i \in 0 .. Len(p) - 1, UpTo(p, i) \in DOMAIN L
        PROVE  L[UpTo(p, i)].dir /\ UpTo(p, i) # t
    <2>1. CASE i = 0
      <3>1. UpTo(p, 0) = Root
        BY PathsAreSequences, WholeAndEmpty
      <3>2. L[Root].dir
        BY DEF Rep, Shape
      <3> QED
        BY <2>1, <3>1, <3>2
    <2>2. CASE i # 0
      <3>1. i \in 1 .. Len(p) - 1
        BY <2>2
      <3> QED
        BY <1>1, <3>1, PathFound
    <2> QED
      BY <2>1, <2>2
  <1> QED
    BY <1>1, WayOK DEF Exists

(* The bitmap's file.                                                      *)
LEMMA FreeMapRead ==
    ASSUME NEW d, BitmapOK(d)
    PROVE  /\ SectorsOf(FetchFrom(d, FreeMapSector)) = <<FreeMapData>>
           /\ FreeMap(d) = d[FreeMapData].marked
           /\ FreeMapOwned(d) = FreeMapSectors
           /\ FreeMapSectors \subseteq Sectors /\ FreeMapSectors \subseteq FreeMap(d)
           /\ \A m : FreeMapWrite(d, m) = [at |-> FreeMapData, is |-> BitmapSector(m)]
  <1> DEFINE h == HeaderSector(<<FreeMapData>>, NoSector)
             at == <<FreeMapSector>>
  <1>1. FreeMapSectors \subseteq Sectors /\ FreeMapData \in Sectors /\ FreeMapSector \in Sectors
    BY FileSysAssumption DEF FreeMapSectors, FreeMapSector, FreeMapData, Sectors
  <1>2. HeadersAt(d, at, <<h>>)
    <2>1. at \in Seq(Sectors) /\ Len(at) = 1 /\ at[1] = FreeMapSector /\ 1 \in 1 .. NumSectors
      BY <1>1, FileSysAssumption
    <2>2. d[FreeMapSector] = h /\ h.type = "header" /\ h.next = NoSector
      BY DEF BitmapOK, HeaderSector
    <2>3. <<h>> = [i \in 1 .. 1 |-> h]
      OBVIOUS
    <2> HIDE DEF h, at
    <2> QED
      BY <2>1, <2>2, <2>3 DEF HeadersAt
  <1>3. FetchFrom(d, FreeMapSector) = <<h>>
    <2>1. at[1] = FreeMapSector
      OBVIOUS
    <2> HIDE DEF h, at
    <2> QED
      BY <1>2, <2>1, FetchOK
  <1>4. SectorsOf(<<h>>) = <<FreeMapData>>
    BY <1>1, OneHeader
  <1>5. HeaderSectors(FreeMapSector, <<h>>) = {FreeMapSector}
    <2>1. h.next = NoSector /\ FreeMapSector # NoSector /\ DOMAIN <<h>> = {1} /\ <<h>>[1] = h
      BY DEF HeaderSector, NoSector, FreeMapSector
    <2> HIDE DEF h
    <2> QED
      BY <2>1 DEF HeaderSectors
  <1>6. ToSet(<<FreeMapData>>) = {FreeMapData}
    BY DEF ToSet
  <1> HIDE DEF h
  <1>7. FreeMapOwned(d) = FreeMapSectors
    BY <1>3, <1>4, <1>5, <1>6 DEF FreeMapOwned, FreeMapSectors
  <1>8. SectorsOf(FetchFrom(d, FreeMapSector)) = <<FreeMapData>>
    BY <1>3, <1>4
  <1>9. FreeMap(d) = d[FreeMapData].marked
    BY <1>8 DEF FreeMap
  <1>10. \A m : FreeMapWrite(d, m) = [at |-> FreeMapData, is |-> BitmapSector(m)]
    BY <1>8 DEF FreeMapWrite
  <1> QED
    BY <1>1, <1>7, <1>8, <1>9, <1>10 DEF BitmapOK

(* A prefix of a path, in the words of IsPrefix.                           *)
LEMMA IsPrefixOK ==
    ASSUME NEW p \in Seq(Names), NEW i \in 0 .. Len(p)
    PROVE  IsPrefix(UpTo(p, i), p)
  <1>1. Len(UpTo(p, i)) = i /\ UpTo(UpTo(p, i), i) = UpTo(p, i)
    <2>1. i \in 0 .. i
      OBVIOUS
    <2> QED
      BY <2>1, PrefixOK
  <1> QED
    BY <1>1 DEF IsPrefix, UpTo

(* A prefix of a path is one of its beginnings.                            *)
LEMMA PrefixUpTo ==
    ASSUME NEW p \in Seq(Names), NEW q \in Seq(Names), IsPrefix(p, q)
    PROVE  /\ Len(p) \in 0 .. Len(q) /\ p = UpTo(q, Len(p))
           /\ p # q => Len(p) \in 0 .. Len(q) - 1
  <1>1. Len(p) \in 0 .. Len(q) /\ UpTo(p, Len(p)) = UpTo(q, Len(p))
    BY DEF IsPrefix, UpTo
  <1>2. p = UpTo(q, Len(p))
    BY <1>1, WholeAndEmpty
  <1>3. Len(p) = Len(q) => p = q
    BY <1>2, WholeAndEmpty
  <1> QED
    BY <1>1, <1>2, <1>3

(* What can be reached, and is not below the path of an unfinished         *)
(* operation, is in the layout.                                            *)
LEMMA ReachableInLayout ==
    ASSUME NEW d, NEW L, NEW t, Rep(d, L, t), t # Root,
           NEW q \in Reachable(d) \cup {Root}, q = t \/ ~IsPrefix(t, q)
    PROVE  q \in DOMAIN L
  <1>1. Root \in DOMAIN L
    BY DEF Rep, Shape
  <1> SUFFICES ASSUME q # Root, q \notin DOMAIN L PROVE FALSE
    BY <1>1
  <1>2. /\ q \in Paths /\ Exists(d, q)
        /\ \A i \in 1 .. Len(q) - 1 : IsDirectory(d, UpTo(q, i))
    BY DEF Reachable, UpTo
  <1>3. q \in Seq(Names)
    BY <1>2, PathsAreSequences
  <1>4. ASSUME NEW i \in 1 .. Len(q) - 1 PROVE UpTo(q, i) # t
    <2>1. i \in 0 .. Len(q) /\ i # Len(q)
      BY <1>3
    <2>2. IsPrefix(UpTo(q, i), q) /\ Len(UpTo(q, i)) = i
      BY <1>3, <2>1, IsPrefixOK, PrefixOK
    <2> QED
      BY <2>1, <2>2
  <1> QED
    BY <1>2, <1>4, PathNotFound

(* What is in the layout can be reached.                                   *)
LEMMA LayoutReachable ==
    ASSUME NEW d, NEW L, NEW t, Rep(d, L, t), NEW q \in DOMAIN L, q # Root
    PROVE  q \in Reachable(d)
  <1>1. Shape(L, t) /\ q \in Paths /\ q \in Seq(Names)
    BY PathsAreSequences DEF Rep, Shape
  <1>2. ASSUME NEW i \in 1 .. Len(q) - 1 PROVE IsDirectory(d, UpTo(q, i))
    <2>1. i \in 0 .. Len(q) - 1
      BY <1>1
    <2>2. UpTo(q, i) \in DOMAIN L /\ L[UpTo(q, i)].dir
      BY <1>1, <2>1 DEF Shape
    <2> QED
      BY <2>2, PathFound
  <1> QED
    BY <1>1, <1>2, PathFound DEF Reachable, UpTo

(* The sectors of an item's headers are those the headers name.            *)
LEMMA ItemSectors ==
    ASSUME NEW d, NEW item, ItemOK(d, item)
    PROVE  HeaderSectors(item.at[1], item.headers) = ToSet(item.at)
  <1> DEFINE at == item.at
             h == item.headers
             n == Len(at)
  <1>1. /\ at \in Seq(Sectors) /\ n \in Nat \ {0} /\ DOMAIN at = 1 .. n /\ DOMAIN h = 1 .. n
        /\ \A i \in 1 .. n : h[i].next = IF i < n THEN at[i + 1] ELSE NoSector
        /\ \A i \in 1 .. n : at[i] \in Sectors
    BY DEF ItemOK, HeadersAt
  <1>2. NoSector \notin Sectors
    BY FileSysAssumption DEF Sectors, NoSector
  <1> HIDE DEF at, h, n
  <1>3. ASSUME NEW s \in HeaderSectors(at[1], h) PROVE s \in ToSet(at)
    <2>1. CASE s = at[1]
      BY <1>1, <2>1 DEF ToSet
    <2>2. CASE s # at[1]
      <3>1. PICK i \in 1 .. n : s = h[i].next /\ s # NoSector
        BY <1>1, <2>2 DEF HeaderSectors
      <3>2. i + 1 \in 1 .. n /\ s = at[i + 1]
        BY <1>1, <3>1
      <3> QED
        BY <1>1, <3>2 DEF ToSet
    <2> QED
      BY <2>1, <2>2
  <1>4. ASSUME NEW s \in ToSet(at) PROVE s \in HeaderSectors(at[1], h)
    <2>1. PICK i \in 1 .. n : s = at[i] /\ s # NoSector
      BY <1>1, <1>2 DEF ToSet
    <2>2. CASE i = 1
      BY <2>1, <2>2 DEF HeaderSectors
    <2>3. CASE i # 1
      <3>1. i - 1 \in 1 .. n /\ i - 1 < n /\ i - 1 + 1 = i
        BY <1>1, <2>3
      <3>2. h[i - 1].next = s
        BY <1>1, <2>1, <3>1
      <3> QED
        BY <1>1, <2>1, <3>1, <3>2 DEF HeaderSectors
    <2> QED
      BY <2>2, <2>3
  <1>5. HeaderSectors(at[1], h) = ToSet(at)
    BY <1>3, <1>4
  <1> QED
    BY <1>5 DEF at, h

(* What a path owns is what its item owns.                                 *)
LEMMA OwnedOK ==
    ASSUME NEW d, NEW L, NEW t, Rep(d, L, t), NEW p \in DOMAIN L
    PROVE  Owned(d, p) = Own(L[p])
  <1>1. ItemOK(d, L[p])
    BY DEF Rep, Items
  <1> QED
    BY <1>1, ItemSectors, PathFound DEF Owned, Own

(* Sectors have one owner on a disk that stands for a layout.              *)
LEMMA LayoutSafe ==
    ASSUME NEW L, Rep(disk, L, target), target # Root
    PROVE  SectorsInv
  <1> DEFINE counted == {q \in Existing : q = target \/ ~IsPrefix(target, q)}
  <1>1. counted \subseteq DOMAIN L
    BY ReachableInLayout DEF Existing
  <1>2. FreeMapOwned(disk) = FreeMapSectors /\ FreeMapSectors \subseteq FreeMap(disk)
        /\ FreeMap(disk) = disk[FreeMapData].marked
    BY FreeMapRead DEF Rep
  <1>3. /\ Apart(L)
        /\ \A p \in DOMAIN L : p # target => Own(L[p]) \subseteq disk[FreeMapData].marked
    BY DEF Rep, Marked
  <1>4. ASSUME NEW x \in Claims
        PROVE  \/ x[1] \in FreeMapSectors /\ x[2] = FreeMapFile
               \/ x[2] \in DOMAIN L /\ x[1] \in Own(L[x[2]])
    <2>1. CASE x \in FreeMapOwned(disk) \X {FreeMapFile}
      BY <1>2, <2>1
    <2>2. CASE x \notin FreeMapOwned(disk) \X {FreeMapFile}
      <3>1. PICK p \in counted : x \in Owned(disk, p) \X {p}
        BY <2>2 DEF Claims
      <3>2. p \in DOMAIN L
        BY <1>1
      <3>3. x[2] = p /\ x[1] \in Own(L[p])
        BY <3>1, <3>2, OwnedOK
      <3> QED
        BY <3>2, <3>3
    <2> QED
      BY <2>1, <2>2
  <1> HIDE DEF counted
  <1>5. ASSUME NEW x \in Claims, NEW y \in Claims, x[1] = y[1] PROVE x[2] = y[2]
    BY <1>3, <1>4, <1>5 DEF Apart
  <1>6. ASSUME NEW x \in Claims, x[2] # target PROVE x[1] \in FreeMap(disk)
    BY <1>2, <1>3, <1>4, <1>6
  <1> QED
    BY <1>5, <1>6 DEF SectorsInv

-----------------------------------------------------------------------------
(* The sectors FindAndSet hands out.                                       *)

LEMMA ClearFinite ==
    ASSUME NEW m
    PROVE  /\ IsFiniteSet(Clear(m)) /\ Cardinality(Clear(m)) \in Nat
           /\ Clear(m) \subseteq Sectors /\ Clear(m) \in SUBSET Nat
           /\ Cardinality(Clear(m)) <= NumSectors
           /\ \A s \in Sectors : s \in m => Cardinality(Clear(m)) < NumSectors
  <1>1. NumSectors \in Nat /\ NumSectors - 1 \in Int
    BY FileSysAssumption
  <1>2. IsFiniteSet(Sectors) /\ Cardinality(Sectors) = NumSectors
    BY <1>1, FS_Interval DEF Sectors
  <1>3. Clear(m) \subseteq Sectors /\ Clear(m) \in SUBSET Nat
    BY DEF Clear, Sectors
  <1>4. /\ IsFiniteSet(Clear(m)) /\ Cardinality(Clear(m)) <= NumSectors
        /\ Cardinality(Clear(m)) = NumSectors => Clear(m) = Sectors
    BY <1>2, <1>3, FS_Subset
  <1>5. Cardinality(Clear(m)) \in Nat
    BY <1>4, FS_CardinalityType
  <1>6. ASSUME NEW s \in Sectors, s \in m PROVE Cardinality(Clear(m)) < NumSectors
    <2>1. Clear(m) # Sectors
      BY <1>6 DEF Clear
    <2> QED
      BY <1>1, <1>4, <1>5, <2>1
  <1> QED
    BY <1>3, <1>4, <1>5, <1>6

Below(C, s) == {r \in C : r < s}

(* In a finite set of numbers each place is taken.                         *)
LEMMA NthExists ==
    ASSUME NEW C \in SUBSET Nat, IsFiniteSet(C), NEW k \in 0 .. Cardinality(C) - 1
    PROVE  \E s \in C : Cardinality(Below(C, s)) = k
  <1> DEFINE S == {j \in 0 .. Cardinality(C) - 1 : \E s \in C : Cardinality(Below(C, s)) = j}
  <1>0. Cardinality(C) \in Nat /\ Cardinality(C) - 1 \in Nat
    BY FS_CardinalityType
  <1>1. 0 \in S
    <2>1. C # {}
      BY <1>0, FS_EmptySet
    <2>2. PICK s \in C : \A r \in C : s <= r
      BY <2>1, LeastNumber
    <2>3. Below(C, s) = {}
      <3>1. \A r \in C : r \in Nat /\ s \in Nat /\ ~ (r < s)
        BY <2>2
      <3> QED
        BY <3>1 DEF Below
    <2> QED
      BY <1>0, <2>3, FS_EmptySet
  <1>2. ASSUME NEW j \in 0 .. Cardinality(C) - 1 - 1, j \in S PROVE j + 1 \in S
    <2>1. PICK s \in C : Cardinality(Below(C, s)) = j
      BY <1>2
    <2> DEFINE above == {r \in C : s < r}
    <2>2. Below(C, s) \in SUBSET C /\ s \notin Below(C, s)
      BY DEF Below
    <2>3. IsFiniteSet(Below(C, s))
      BY <2>2, FS_Subset
    <2>4. Cardinality(Below(C, s) \cup {s}) = j + 1
      BY <2>1, <2>2, <2>3, FS_AddElement
    <2>5. above # {}
      <3>1. SUFFICES ASSUME above = {} PROVE FALSE
        OBVIOUS
      <3>2. C = Below(C, s) \cup {s}
        <4>1. \A r \in C : r < s \/ r = s
          <5> SUFFICES ASSUME NEW r \in C PROVE r < s \/ r = s
            OBVIOUS
          <5>1. r \in Nat /\ s \in Nat /\ ~ (s < r)
            BY <3>1
          <5> QED
            BY <5>1
        <4> QED
          BY <4>1 DEF Below
      <3>3. Cardinality(C) = j + 1
        BY <2>4, <3>2
      <3> QED
        BY <1>0, <3>3
    <2>6. above \in SUBSET Nat
      OBVIOUS
    <2>7. PICK r \in above : \A x \in above : r <= x
      <3> HIDE DEF above
      <3> QED
        BY <2>5, <2>6, LeastNumber
    <2>8. Below(C, r) = Below(C, s) \cup {s}
      <3>1. \A x \in C : x < r <=> x < s \/ x = s
        <4> SUFFICES ASSUME NEW x \in C PROVE x < r <=> x < s \/ x = s
          OBVIOUS
        <4>1. x \in Nat /\ s \in Nat /\ r \in Nat /\ s < r /\ (s < x => r <= x)
          BY <2>7
        <4> QED
          BY <4>1
      <3> QED
        BY <3>1 DEF Below
    <2>9. j + 1 \in 0 .. Cardinality(C) - 1 /\ r \in C
      BY <1>0, <2>7
    <2> QED
      BY <2>4, <2>8, <2>9
  <1>3. \A j \in 0 .. Cardinality(C) - 1 : j \in S
    <2> HIDE DEF S
    <2> QED
      BY <1>0, <1>1, <1>2, Throughout
  <1> QED
    BY <1>3

(* NthClear has one clear sector fewer below it than its place says.       *)
LEMMA NthClearOK ==
    ASSUME NEW m, NEW i \in 1 .. Cardinality(Clear(m))
    PROVE  /\ NthClear(m, i) \in Clear(m)
           /\ Cardinality(Below(Clear(m), NthClear(m, i))) = i - 1
  <1>1. i - 1 \in 0 .. Cardinality(Clear(m)) - 1
    BY ClearFinite
  <1>2. \E s \in Clear(m) : Cardinality(Below(Clear(m), s)) = i - 1
    BY <1>1, ClearFinite, NthExists
  <1> QED
    BY <1>2 DEF NthClear, Below

(* Different calls of FindAndSet give different sectors.                   *)
LEMMA NthClearDistinct ==
    ASSUME NEW m, NEW i \in 1 .. Cardinality(Clear(m)), NEW j \in 1 .. Cardinality(Clear(m)),
           NthClear(m, i) = NthClear(m, j)
    PROVE  i = j
  <1>1. i - 1 = j - 1
    BY NthClearOK
  <1> QED
    BY <1>1, ClearFinite

(* FindAndSet finds the first of them.                                     *)
LEMMA FindAndSetOK ==
    ASSUME NEW m, FindAndSet(m) # NoSector
    PROVE  FindAndSet(m) \in Clear(m)
  <1>1. Clear(m) # {} /\ FindAndSet(m) = Min(Clear(m))
    BY DEF FindAndSet
  <1> QED
    BY <1>1, ClearFinite, MinOK

(* Products.                                                               *)
LEMMA Products ==
    ASSUME NEW a \in Nat, NEW b \in Nat, NEW k \in Nat
    PROVE  /\ a * k \in Nat
           /\ a <= b => a * k <= b * k
           /\ (a + 1) * k = a * k + k
           /\ a * (k + 1) = a * k + a
           /\ 0 * k = 0
  <1>1. a * k \in Nat /\ (a + 1) * k = a * k + k /\ a * (k + 1) = a * k + a /\ 0 * k = 0
    OBVIOUS
  <1>2. ASSUME a <= b PROVE a * k <= b * k
    <2>1. PICK c \in Nat : b = a + c
      BY <1>2
    <2>2. b * k = a * k + c * k /\ c * k \in Nat
      BY <2>1
    <2> QED
      BY <1>1, <2>2
  <1> QED
    BY <1>1, <1>2

(* A number between two multiples is not a multiple.                       *)
LEMMA BetweenMultiples ==
    ASSUME NEW a \in Nat, NEW b \in Nat, NEW k \in Nat, NEW j \in 1 .. k
    PROVE  a * (k + 1) + j # b * (k + 1)
  <1> DEFINE n == k + 1
  <1>0. n \in Nat /\ j < n /\ j > 0
    OBVIOUS
  <1>1. CASE a + 1 <= b
    <2>1. (a + 1) * n <= b * n /\ (a + 1) * n = a * n + n
      BY <1>0, <1>1, Products
    <2>2. a * n \in Nat /\ b * n \in Nat
      BY <1>0, Products
    <2> HIDE DEF n
    <2> QED
      BY <1>0, <2>1, <2>2 DEF n
  <1>2. CASE b <= a
    <2>1. b * n <= a * n /\ a * n \in Nat /\ b * n \in Nat
      BY <1>0, <1>2, Products
    <2> QED
      BY <1>0, <2>1
  <1> QED
    BY <1>1, <1>2

(* Quotient and remainder.                                                 *)
LEMMA Quotients ==
    ASSUME NEW i \in Nat, NEW k \in Nat \ {0}
    PROVE  \E q \in Nat, r \in 0 .. k - 1 :
              i \div k = q /\ i % k = r /\ q * k + r = i
  <1>1. i % k \in 0 .. k - 1 /\ i \div k \in Nat
    OBVIOUS
  <1>2. i = k * (i \div k) + (i % k)
    OBVIOUS
  <1>3. PICK q \in Nat : q = i \div k
    BY <1>1
  <1>4. PICK r \in 0 .. k - 1 : r = i % k
    BY <1>1
  <1>5. i = k * q + r
    BY <1>2, <1>3, <1>4
  <1>6. q * k + r = i
    BY <1>5
  <1>7. i \div k = q /\ i % k = r
    BY <1>3, <1>4
  <1> QED
    BY <1>6, <1>7, Zenon

-----------------------------------------------------------------------------
(* A file that Allocate has made.                                          *)

LEMMA HeadersForOK ==
    ASSUME NEW size \in Nat
    PROVE  \E n \in Nat \ {0} :
              /\ HeadersFor(size) = n /\ TakenFor(size) = size + n - 1
              /\ size <= n * NumDirect
              /\ (n - 1) * NumDirect <= size
              /\ n > 1 => (n - 1) * NumDirect < size
  <1> DEFINE S == {n \in 1 .. size + 1 : size <= n * NumDirect}
  <1>0. NumDirect \in Nat \ {0}
    BY FileSysAssumption
  <1>1. size + 1 \in S
    <2>1. (size + 1) * 1 = size + 1 /\ (size + 1) * NumDirect = size * NumDirect + NumDirect
      BY <1>0, Products
    <2>2. size * NumDirect >= size
      <3>1. PICK c \in Nat : NumDirect = c + 1
        BY <1>0
      <3>2. size * (c + 1) = size * c + size /\ size * c \in Nat
        BY Products
      <3> QED
        BY <3>1, <3>2
    <2>3. size * NumDirect \in Nat
      BY <1>0, Products
    <2> QED
      BY <1>0, <2>1, <2>2, <2>3
  <1>2. PICK n \in S : n = Min(S) /\ \A k \in S : n <= k
    <2>1. S \in SUBSET Nat /\ S # {}
      BY <1>1
    <2> HIDE DEF S
    <2> QED
      BY <2>1, MinOK
  <1>3. HeadersFor(size) = n /\ TakenFor(size) = size + n - 1
    BY <1>2 DEF HeadersFor, TakenFor
  <1>4. ASSUME n > 1 PROVE (n - 1) * NumDirect < size
    <2>1. n - 1 \in 1 .. size + 1 /\ n - 1 \notin S
      BY <1>2, <1>4
    <2>2. (n - 1) * NumDirect \in Nat
      BY <1>0, <1>2, <1>4
    <2> QED
      BY <2>1, <2>2
  <1>5. (n - 1) * NumDirect <= size
    <2>1. CASE n = 1
      <3>1. 0 * NumDirect = 0 /\ n - 1 = 0
        BY <1>0, <2>1
      <3> QED
        BY <3>1
    <2>2. CASE n > 1
      <3>1. (n - 1) * NumDirect \in Nat
        BY <1>0, <1>2
      <3> QED
        BY <1>4, <2>2, <3>1
    <2> QED
      BY <1>2, <2>1, <2>2
  <1>6. n \in Nat \ {0} /\ size <= n * NumDirect
    BY <1>2
  <1> HIDE DEF S
  <1> QED
    BY <1>3, <1>4, <1>5, <1>6, Zenon

(* The sectors of headers of which the first is in sector first.           *)
AtOf(first, headers) ==
    [i \in DOMAIN headers |-> IF i = 1 THEN first ELSE headers[i - 1].next]

Linked(at, headers) ==
    /\ at \in Seq(Sectors) /\ Len(at) \in 1 .. NumSectors
    /\ headers = [i \in 1 .. Len(at) |-> headers[i]]
    /\ \A i \in 1 .. Len(at) :
          /\ headers[i].type = "header"
          /\ headers[i].next = IF i < Len(at) THEN at[i + 1] ELSE NoSector

(* Headers that are linked and written can be fetched.                     *)
LEMMA LinkedOnDisk ==
    ASSUME NEW at, NEW headers, Linked(at, headers), NEW d,
           \A i \in 1 .. Len(at) : d[at[i]] = headers[i]
    PROVE  HeadersAt(d, at, headers)
  BY DEF Linked, HeadersAt

(* Headers that can be fetched are linked.                                 *)
LEMMA DiskLinked ==
    ASSUME NEW d, NEW at, NEW headers, HeadersAt(d, at, headers)
    PROVE  Linked(at, headers) /\ \A i \in 1 .. Len(at) : d[at[i]] = headers[i]
  BY DEF Linked, HeadersAt

(* What Allocate makes for a file of that size, from the sectors m leaves. *)
Made(m, size, first, new) ==
    LET headers == new.headers
        at == AtOf(first, headers)
    IN  /\ m \subseteq new.marked
        /\ new.marked \ m \subseteq Clear(m)
        /\ Linked(at, headers) /\ at[1] = first
        /\ SectorsOf(headers) \in Seq(Sectors) /\ Len(SectorsOf(headers)) = size
        /\ ToSet(SectorsOf(headers)) \subseteq Clear(m) \cap new.marked
        /\ ToSet(at) \subseteq {first} \cup (Clear(m) \cap new.marked)
        /\ ToSet(at) \cap ToSet(SectorsOf(headers)) = {}
        /\ \A i, j \in 1 .. Len(at) : at[i] = at[j] => i = j

(* Allocate links its headers and takes distinct clear sectors.            *)
LEMMA AllocateOK ==
    ASSUME NEW m, NEW size \in Nat, Allocate(m, size).ok,
           NEW first \in Sectors, first \in m
    PROVE  Made(m, size, first, Allocate(m, size))
  <1>1. PICK n \in Nat \ {0} :
              /\ HeadersFor(size) = n /\ TakenFor(size) = size + n - 1
              /\ size <= n * NumDirect
              /\ (n - 1) * NumDirect <= size
              /\ n > 1 => (n - 1) * NumDirect < size
    BY HeadersForOK
  <1>2. NumDirect \in Nat \ {0} /\ NumSectors \in Nat
    BY FileSysAssumption
  <1> DEFINE C == Cardinality(Clear(m))
             K == NumDirect + 1
             room(h) == IF h < n THEN NumDirect ELSE size - (h - 1) * NumDirect
             data(h) == [j \in 1 .. room(h) |-> NthClear(m, (h - 1) * K + j)]
             next(h) == IF h = n THEN NoSector ELSE NthClear(m, h * K)
             marked == m \cup {NthClear(m, i) : i \in 1 .. size + n - 1}
             headers == [h \in 1 .. n |-> HeaderSector(data(h), next(h))]
             at == AtOf(first, headers)
  <1>3. C \in Nat /\ C < NumSectors
    BY ClearFinite
  <1>4. C >= size + n - 1 /\ Allocate(m, size) = [ok |-> TRUE, marked |-> marked, headers |-> headers]
    <2>1. Cardinality(Clear(m)) < TakenFor(size) => Allocate(m, size) = NotAllocated
      BY DEF Allocate
    <2>2. ~(C < TakenFor(size))
      BY <2>1 DEF NotAllocated
    <2>3. C >= size + n - 1
      BY <1>1, <1>3, <2>2
    <2>4. \A h : room(h) = Room(size, h)
      BY <1>1 DEF Room
    <2> QED
      BY <1>1, <2>2, <2>3 DEF Allocate, Room
  (* The places of the sectors in the order in which they were given out. *)
  <1>5. ASSUME NEW h \in 1 .. n
        PROVE  /\ h < n => h * K \in 1 .. size + n - 1
               /\ room(h) \in Nat /\ room(h) <= NumDirect
               /\ \A j \in 1 .. room(h) : (h - 1) * K + j \in 1 .. size + n - 1
    <2>1. /\ h - 1 \in Nat /\ n - 1 \in Nat
          /\ (h - 1) * NumDirect \in Nat /\ h * NumDirect \in Nat /\ (n - 1) * NumDirect \in Nat
          /\ (h - 1) * K = (h - 1) * NumDirect + (h - 1)
          /\ h * K = h * NumDirect + h
          /\ h * NumDirect = (h - 1) * NumDirect + NumDirect
          /\ n * NumDirect = (n - 1) * NumDirect + NumDirect
      BY <1>2
    <2>2. h < n => h * NumDirect <= (n - 1) * NumDirect
      BY <1>2, <2>1, Products
    <2> HIDE DEF K
    <2>3. CASE h < n
      BY <1>1, <1>2, <2>1, <2>2, <2>3
    <2>4. CASE h = n
      BY <1>1, <1>2, <2>1, <2>4
    <2> QED
      BY <2>3, <2>4
  <1>6. \A i \in 1 .. size + n - 1 : NthClear(m, i) \in Clear(m) \cap marked
    <2> SUFFICES ASSUME NEW i \in 1 .. size + n - 1 PROVE NthClear(m, i) \in Clear(m) \cap marked
      OBVIOUS
    <2>1. i \in 1 .. Cardinality(Clear(m))
      BY <1>3, <1>4
    <2> QED
      BY <2>1, NthClearOK
  <1>7. \A i, j \in 1 .. size + n - 1 : NthClear(m, i) = NthClear(m, j) => i = j
    <2> SUFFICES ASSUME NEW i \in 1 .. size + n - 1, NEW j \in 1 .. size + n - 1,
                        NthClear(m, i) = NthClear(m, j)
                 PROVE  i = j
      OBVIOUS
    <2>1. i \in 1 .. Cardinality(Clear(m)) /\ j \in 1 .. Cardinality(Clear(m))
      BY <1>3, <1>4
    <2> QED
      BY <2>1, NthClearDistinct
  <1>8. \A s \in Clear(m) : s \in Sectors /\ s \notin m /\ s # first
    BY DEF Clear
  <1>9. /\ DOMAIN headers = 1 .. n
        /\ \A h \in 1 .. n : /\ headers[h].type = "header" /\ headers[h].next = next(h)
                             /\ headers[h].data = data(h)
    BY DEF HeaderSector
  <1>10. headers # <<>> /\ Len(headers) = n /\ headers = [h \in 1 .. n |-> headers[h]]
    <2>1. headers \in [1 .. n -> {headers[h] : h \in 1 .. n}]
      BY <1>9
    <2> HIDE DEF headers
    <2>2. headers \in Seq({headers[h] : h \in 1 .. n})
      BY <2>1
    <2> QED
      BY <1>9, <2>1, <2>2
  <1>11. ASSUME NEW h \in 1 .. n
         PROVE  /\ h < n => /\ next(h) = NthClear(m, h * K) /\ h * K \in 1 .. size + n - 1
                            /\ next(h) \in Clear(m) \cap marked
                /\ h = n => next(h) = NoSector
                /\ Len(data(h)) = room(h)
                /\ \A j \in 1 .. room(h) : data(h)[j] = NthClear(m, (h - 1) * K + j)
    <2>1. h < n => next(h) = NthClear(m, h * K) /\ h * K \in 1 .. size + n - 1
      BY <1>5
    <2>2. h = n => next(h) = NoSector
      OBVIOUS
    <2>3. /\ DOMAIN data(h) = 1 .. room(h)
          /\ \A j \in 1 .. room(h) : data(h)[j] = NthClear(m, (h - 1) * K + j)
      OBVIOUS
    <2>4. Len(data(h)) = room(h)
      <3>1. PICK r \in Nat : r = room(h)
        BY <1>5
      <3>2. PICK f : f = data(h)
        OBVIOUS
      <3>3. f = [j \in 1 .. r |-> f[j]]
        BY <3>1, <3>2
      <3>4. f \in Seq({f[j] : j \in 1 .. r})
        BY <3>3
      <3>5. Len(f) = r
        BY <3>3, <3>4
      <3> QED
        BY <3>1, <3>2, <3>5
    <2> HIDE DEF next, data, room, marked, K
    <2> QED
      BY <1>6, <2>1, <2>2, <2>3, <2>4
  <1> HIDE DEF next, data, headers, marked
  <1>12. /\ at = [i \in 1 .. n |-> IF i = 1 THEN first ELSE next(i - 1)]
         /\ \A i \in 1 .. n : at[i] = IF i = 1 THEN first ELSE next(i - 1)
    <2>1. \A i \in 1 .. n : i # 1 => headers[i - 1].next = next(i - 1)
      BY <1>9
    <2> QED
      BY <1>9, <2>1 DEF AtOf
  <1> HIDE DEF at
  <1>13. ASSUME NEW i \in 1 .. n
         PROVE  /\ at[i] \in {first} \cup (Clear(m) \cap marked)
                /\ \/ at[i] = first
                   \/ i - 1 \in Nat /\ (i - 1) * K \in 1 .. size + n - 1 /\ at[i] = NthClear(m, (i - 1) * K)
    <2>1. CASE i = 1
      BY <1>12, <2>1
    <2>2. CASE i # 1
      <3>1. i - 1 \in 1 .. n /\ i - 1 < n /\ i - 1 \in Nat
        BY <2>2
      <3>2. next(i - 1) = NthClear(m, (i - 1) * K) /\ (i - 1) * K \in 1 .. size + n - 1
            /\ next(i - 1) \in Clear(m) \cap marked
        BY <1>11, <3>1
      <3>3. at[i] = next(i - 1)
        BY <1>12, <2>2
      <3> HIDE DEF K
      <3> QED
        BY <3>1, <3>2, <3>3
    <2> QED
      BY <2>1, <2>2
  <1>14. at \in Seq(Sectors) /\ Len(at) = n /\ n \in 1 .. NumSectors /\ DOMAIN at = 1 .. n
    <2>1. \A i \in 1 .. n : at[i] \in Sectors
      BY <1>8, <1>13
    <2>2. at \in [1 .. n -> Sectors]
      BY <1>12, <2>1
    <2>3. at \in Seq(Sectors) /\ Len(at) = n /\ DOMAIN at = 1 .. n
      BY <2>2
    <2>4. C >= size + n - 1
      BY <1>4
    <2> HIDE DEF C
    <2>5. n \in 1 .. NumSectors
      BY <1>2, <1>3, <2>4
    <2> QED
      BY <2>3, <2>5
  <1>15. Linked(at, headers) /\ at[1] = first
    <2>1. ASSUME NEW i \in 1 .. n
          PROVE  headers[i].next = IF i < n THEN at[i + 1] ELSE NoSector
      <3>1. CASE i < n
        <4>1. i + 1 \in 1 .. n /\ i + 1 # 1 /\ i + 1 - 1 = i
          BY <3>1
        <4>2. at[i + 1] = next(i)
          BY <1>12, <4>1
        <4> QED
          BY <1>9, <3>1, <4>2
      <3>2. CASE i = n
        BY <1>9, <1>11, <3>2
      <3> QED
        BY <3>1, <3>2
    <2>2. at[1] = first
      BY <1>12
    <2> QED
      BY <1>9, <1>10, <1>14, <2>1, <2>2 DEF Linked
  <1>16. FileLength(headers) = size
    <2>1. n \in 1 .. n /\ room(n) = size - (n - 1) * NumDirect
      OBVIOUS
    <2>2. Last(headers).data = data(n) /\ Len(data(n)) = room(n)
      BY <1>9, <1>10, <1>11, <2>1 DEF Last
    <2>3. FileLength(headers) = (n - 1) * NumDirect + (size - (n - 1) * NumDirect)
      BY <1>10, <2>1, <2>2 DEF FileLength
    <2>4. (n - 1) * NumDirect \in Nat
      BY <1>2, Products
    <2> QED
      BY <2>3, <2>4
  <1> DEFINE file == SectorsOf(headers)
  <1>17. /\ DOMAIN file = 1 .. size
         /\ \A i \in 1 .. size : \E h \in 1 .. n : \E j \in 1 .. room(h) :
               file[i] = NthClear(m, (h - 1) * K + j)
    <2>1. file = [i \in 1 .. size |->
                    headers[((i - 1) \div NumDirect) + 1].data[((i - 1) % NumDirect) + 1]]
      BY <1>16 DEF SectorsOf
    <2> SUFFICES ASSUME NEW i \in 1 .. size
                 PROVE  \E h \in 1 .. n : \E j \in 1 .. room(h) :
                           file[i] = NthClear(m, (h - 1) * K + j)
      BY <2>1
    <2>2. PICK q \in Nat, r \in 0 .. NumDirect - 1 :
             (i - 1) \div NumDirect = q /\ (i - 1) % NumDirect = r /\ q * NumDirect + r = i - 1
      <3>1. i - 1 \in Nat
        OBVIOUS
      <3> QED
        BY <1>2, <3>1, Quotients
    <2>3. q < n
      <3>1. SUFFICES ASSUME n <= q PROVE FALSE
        OBVIOUS
      <3>2. n * NumDirect <= q * NumDirect /\ q * NumDirect \in Nat /\ n * NumDirect \in Nat
        BY <1>2, <3>1, Products
      <3> QED
        BY <1>1, <1>2, <2>2, <3>2
    <2>4. q + 1 \in 1 .. n /\ r + 1 \in Nat /\ q + 1 - 1 = q
      BY <1>2, <2>3
    <2>5. r + 1 \in 1 .. room(q + 1)
      <3>1. CASE q + 1 < n
        BY <1>2, <3>1
      <3>2. CASE q + 1 = n
        <4>1. room(q + 1) = size - q * NumDirect /\ q * NumDirect \in Nat
          BY <1>2, <3>2, Products
        <4> HIDE DEF room
        <4> QED
          BY <2>2, <4>1
      <3> QED
        BY <2>4, <3>1, <3>2
    <2>6. file[i] = headers[q + 1].data[r + 1]
      BY <2>1, <2>2
    <2> HIDE DEF file, room
    <2>7. data(q + 1)[r + 1] = NthClear(m, (q + 1 - 1) * K + (r + 1))
      BY <1>11, <2>4, <2>5
    <2>8. file[i] = NthClear(m, (q + 1 - 1) * K + (r + 1))
      BY <1>9, <2>4, <2>6, <2>7
    <2> QED
      BY <2>4, <2>5, <2>8
  <1>18. \A i \in 1 .. size : file[i] \in Clear(m) \cap marked
    <2> SUFFICES ASSUME NEW i \in 1 .. size PROVE file[i] \in Clear(m) \cap marked
      OBVIOUS
    <2>1. PICK h \in 1 .. n : \E j \in 1 .. room(h) : file[i] = NthClear(m, (h - 1) * K + j)
      BY <1>17
    <2>2. PICK j \in 1 .. room(h) : file[i] = NthClear(m, (h - 1) * K + j)
      BY <2>1
    <2>3. (h - 1) * K + j \in 1 .. size + n - 1
      BY <1>5
    <2> HIDE DEF K, file
    <2> QED
      BY <1>6, <2>2, <2>3
  <1>19. file \in Seq(Sectors) /\ Len(file) = size
    <2>1. file = [i \in 1 .. size |-> file[i]]
      BY <1>16 DEF SectorsOf
    <2> HIDE DEF file
    <2>2. file \in [1 .. size -> Sectors]
      BY <1>8, <1>18, <2>1
    <2> QED
      BY <2>2
  <1>20. \A s \in ToSet(at) : s \notin ToSet(file)
    <2> SUFFICES ASSUME NEW i \in 1 .. n, NEW k \in 1 .. size, at[i] = file[k] PROVE FALSE
      BY <1>14, <1>17 DEF ToSet
    <2>1. at[i] # first
      BY <1>8, <1>18
    <2>2. i - 1 \in Nat /\ (i - 1) * K \in 1 .. size + n - 1 /\ at[i] = NthClear(m, (i - 1) * K)
      BY <1>13, <2>1
    <2>3. PICK h \in 1 .. n : \E j \in 1 .. room(h) : file[k] = NthClear(m, (h - 1) * K + j)
      BY <1>17
    <2>4. PICK j \in 1 .. room(h) : file[k] = NthClear(m, (h - 1) * K + j)
      BY <2>3
    <2>5. (h - 1) * K + j \in 1 .. size + n - 1 /\ h - 1 \in Nat /\ j \in 1 .. NumDirect
      <3>1. h - 1 \in Nat /\ room(h) \in Nat /\ room(h) <= NumDirect
        BY <1>5
      <3>2. (h - 1) * K + j \in 1 .. size + n - 1
        BY <1>5
      <3> HIDE DEF room, K
      <3> QED
        BY <1>2, <3>1, <3>2
    <2>6. (h - 1) * K + j # (i - 1) * K
      BY <1>2, <2>2, <2>5, BetweenMultiples
    <2> HIDE DEF K, file
    <2> QED
      BY <1>7, <2>2, <2>4, <2>5, <2>6
  <1>21. /\ ToSet(file) \subseteq Clear(m) \cap marked
         /\ ToSet(at) \subseteq {first} \cup (Clear(m) \cap marked)
    BY <1>13, <1>14, <1>17, <1>18 DEF ToSet
  <1>22. m \subseteq marked /\ marked \ m \subseteq Clear(m)
    BY <1>6 DEF marked
  <1> HIDE DEF file
  <1>23. ASSUME NEW i \in 1 .. n, NEW j \in 1 .. n, at[i] = at[j], i # j PROVE FALSE
    <2>1. ASSUME NEW h \in 1 .. n, h # 1
          PROVE  /\ at[h] # first /\ h - 1 \in Nat
                 /\ (h - 1) * K \in 1 .. size + n - 1 /\ at[h] = NthClear(m, (h - 1) * K)
      <3>1. h - 1 \in 1 .. n /\ h - 1 < n /\ h - 1 \in Nat
        BY <2>1
      <3>2. next(h - 1) = NthClear(m, (h - 1) * K) /\ (h - 1) * K \in 1 .. size + n - 1
            /\ next(h - 1) \in Clear(m)
        BY <1>11, <3>1
      <3>3. at[h] = next(h - 1)
        BY <1>12, <2>1
      <3> HIDE DEF K
      <3> QED
        BY <1>8, <3>1, <3>2, <3>3
    <2>2. at[1] = first
      BY <1>12
    <2> HIDE DEF K
    <2>3. i # 1 /\ j # 1
      <3>1. i = 1 => j = 1
        BY <1>23, <2>1, <2>2
      <3>2. j = 1 => i = 1
        BY <1>23, <2>1, <2>2
      <3> QED
        BY <1>23, <3>1, <3>2
    <2>4. (i - 1) * K = (j - 1) * K
      <3>1. (i - 1) * K \in 1 .. size + n - 1 /\ at[i] = NthClear(m, (i - 1) * K)
        BY <2>1, <2>3
      <3>2. (j - 1) * K \in 1 .. size + n - 1 /\ at[j] = NthClear(m, (j - 1) * K)
        BY <2>1, <2>3
      <3> QED
        BY <1>7, <1>23, <3>1, <3>2
    <2>5. ASSUME NEW a \in Nat, NEW b \in Nat, a < b PROVE a * K # b * K
      <3>1. a * NumDirect <= b * NumDirect /\ a * NumDirect \in Nat /\ b * NumDirect \in Nat
        BY <1>2, <2>5, Products
      <3>2. a * K = a * NumDirect + a /\ b * K = b * NumDirect + b
        BY <1>2, Products DEF K
      <3> QED
        BY <2>5, <3>1, <3>2
    <2>6. i - 1 \in Nat /\ j - 1 \in Nat
      BY <2>1, <2>3
    <2>7. i - 1 < j - 1 \/ j - 1 < i - 1
      BY <1>23
    <2> QED
      BY <2>4, <2>5, <2>6, <2>7
  <1> QED
    BY <1>4, <1>14, <1>15, <1>19, <1>20, <1>21, <1>22, <1>23 DEF Made, at, file

-----------------------------------------------------------------------------
(* The disk after the first k of the pending writes.                       *)

Disk(d) == d = [s \in Sectors |-> d[s]]
Hits(W, k, s) == {i \in 1 .. k : W[i].at = s}
After(d, W, k) ==
    [s \in Sectors |-> IF Hits(W, k, s) = {} THEN d[s] ELSE W[Max(Hits(W, k, s))].is]

Writes(W) ==
    /\ W \in Seq(ToSet(W))
    /\ \A i \in 1 .. Len(W) : W[i].at \in Sectors

(* Max picks the greatest of some numbers.                                 *)
LEMMA MaxOK ==
    ASSUME NEW k \in Nat, NEW S \in SUBSET (1 .. k), S # {}
    PROVE  Max(S) \in S /\ \A y \in S : y <= Max(S)
  <1> DEFINE T == {k - i : i \in S}
  <1>0. \A i \in S : i \in Nat /\ i <= k /\ k - i \in Nat
    <2> SUFFICES ASSUME NEW i \in S PROVE i \in Nat /\ i <= k /\ k - i \in Nat
      OBVIOUS
    <2>1. i \in 1 .. k
      OBVIOUS
    <2> QED
      BY <2>1
  <1>1. T \in SUBSET Nat /\ T # {}
    BY <1>0
  <1>2. PICK x \in T : \A y \in T : x <= y
    <2> HIDE DEF T
    <2> QED
      BY <1>1, LeastNumber
  <1>3. PICK m \in S : x = k - m
    BY <1>2
  <1>4. \A y \in S : m >= y
    <2> SUFFICES ASSUME NEW y \in S PROVE m >= y
      OBVIOUS
    <2>1. k - y \in T /\ m \in Nat /\ y \in Nat
      BY <1>0
    <2>2. x <= k - y
      BY <1>2, <2>1
    <2> QED
      BY <1>3, <2>1, <2>2
  <1>5. Max(S) \in S /\ \A y \in S : Max(S) >= y
    BY <1>3, <1>4 DEF Max
  <1>6. \A y \in S : y \in Nat /\ Max(S) \in Nat
    BY <1>0, <1>5
  <1> QED
    BY <1>5, <1>6

(* A sector no write goes to keeps what it holds.                          *)
LEMMA AfterKept ==
    ASSUME NEW d, NEW W, NEW k \in Nat, NEW s \in Sectors, \A i \in 1 .. k : W[i].at # s
    PROVE  After(d, W, k)[s] = d[s]
  BY DEF After, Hits

(* A sector holds what it did, or what some write put there.               *)
LEMMA AfterSome ==
    ASSUME NEW d, NEW W, NEW k \in Nat, NEW s \in Sectors
    PROVE  \/ After(d, W, k)[s] = d[s]
           \/ \E i \in 1 .. k : W[i].at = s /\ After(d, W, k)[s] = W[i].is
  <1>1. CASE Hits(W, k, s) = {}
    BY <1>1 DEF After
  <1>2. CASE Hits(W, k, s) # {}
    <2>1. PICK m : m = Max(Hits(W, k, s)) /\ m \in Hits(W, k, s)
      <3>1. Hits(W, k, s) \in SUBSET (1 .. k)
        BY DEF Hits
      <3> QED
        BY <1>2, <3>1, MaxOK
    <2>2. m \in 1 .. k /\ W[m].at = s
      BY <2>1 DEF Hits
    <2>3. After(d, W, k)[s] = W[m].is
      BY <1>2, <2>1 DEF After
    <2> QED
      BY <2>2, <2>3
  <1> QED
    BY <1>1, <1>2

(* The last write to a sector decides.                                     *)
LEMMA AfterLast ==
    ASSUME NEW d, NEW W, NEW k \in Nat, NEW i \in 1 .. k, W[i].at \in Sectors,
           \A j \in 1 .. k : W[j].at = W[i].at => j <= i
    PROVE  After(d, W, k)[W[i].at] = W[i].is
  <1> DEFINE S == Hits(W, k, W[i].at)
  <1>1. S \in SUBSET (1 .. k) /\ i \in S /\ \A j \in S : j <= i
    BY DEF Hits
  <1>2. Max(S) \in S /\ i <= Max(S)
    <2> HIDE DEF S
    <2> QED
      BY <1>1, MaxOK
  <1>3. Max(S) = i
    <2>1. Max(S) <= i /\ Max(S) \in Nat
      BY <1>1, <1>2
    <2> HIDE DEF S
    <2> QED
      BY <1>2, <2>1
  <1> QED
    BY <1>1, <1>3 DEF After

(* No writes, no change.                                                   *)
LEMMA AfterNone ==
    ASSUME NEW d, Disk(d), NEW W
    PROVE  After(d, W, 0) = d
  BY DEF After, Hits, Disk

(* Writes leave a disk.                                                    *)
LEMMA AfterDisk ==
    ASSUME NEW d, NEW W, NEW k
    PROVE  Disk(After(d, W, k))
  BY DEF After, Disk

(* The writes that remain after the first.                                 *)
LEMMA WritesTail ==
    ASSUME NEW W, Writes(W), W # <<>>
    PROVE  /\ Writes(Tail(W)) /\ Len(W) \in Nat \ {0} /\ Len(Tail(W)) = Len(W) - 1
           /\ Head(W) = W[1] /\ Head(W).at \in Sectors
           /\ \A i \in 1 .. Len(W) - 1 : Tail(W)[i] = W[i + 1]
           /\ Tail(W) = <<>> <=> Len(W) = 1
  <1>1. W \in Seq(ToSet(W)) /\ \A i \in 1 .. Len(W) : W[i].at \in Sectors
    BY DEF Writes
  <1> DEFINE S == ToSet(W)
             V == Tail(W)
  <1> HIDE DEF S
  <1>2. W \in Seq(S)
    BY <1>1 DEF S
  <1>3. /\ Len(W) \in Nat \ {0} /\ V \in Seq(S) /\ Len(V) = Len(W) - 1 /\ Head(W) = W[1]
        /\ \A i \in 1 .. Len(W) - 1 : V[i] = W[i + 1]
        /\ DOMAIN V = 1 .. Len(V)
        /\ V = <<>> <=> Len(W) = 1
    <2>1. /\ Len(W) \in Nat \ {0} /\ V \in Seq(S) /\ Len(V) = Len(W) - 1 /\ Head(W) = W[1]
          /\ \A i \in 1 .. Len(W) - 1 : V[i] = W[i + 1]
      BY <1>2
    <2> HIDE DEF V
    <2>2. V = <<>> <=> Len(V) = 0
      BY <2>1
    <2>3. DOMAIN V = 1 .. Len(V)
      BY <2>1
    <2> QED
      BY <2>1, <2>2, <2>3
  <1> HIDE DEF V
  <1>4. V \in Seq(ToSet(V))
    <2>1. V = [i \in 1 .. Len(V) |-> V[i]]
      BY <1>3
    <2>2. V \in [1 .. Len(V) -> ToSet(V)]
      BY <1>3, <2>1 DEF ToSet
    <2> QED
      BY <1>3, <2>2
  <1>5. \A i \in 1 .. Len(V) : V[i].at \in Sectors
    <2> SUFFICES ASSUME NEW i \in 1 .. Len(V) PROVE V[i].at \in Sectors
      OBVIOUS
    <2>1. i \in 1 .. Len(W) - 1 /\ i + 1 \in 1 .. Len(W)
      BY <1>3
    <2> QED
      BY <1>1, <1>3, <2>1
  <1>6. Head(W).at \in Sectors
    BY <1>1, <1>3
  <1> QED
    BY <1>3, <1>4, <1>5, <1>6 DEF Writes, V

(* One write made, and the others still to make.                           *)
LEMMA AfterOne ==
    ASSUME NEW d, Disk(d), NEW W, Writes(W), W # <<>>, NEW k \in 0 .. Len(W) - 1
    PROVE  After([d EXCEPT ![Head(W).at] = Head(W).is], Tail(W), k) = After(d, W, k + 1)
  <1> DEFINE e == [d EXCEPT ![Head(W).at] = Head(W).is]
             V == Tail(W)
  <1>0. /\ Len(W) \in Nat \ {0} /\ Head(W) = W[1] /\ W[1].at \in Sectors /\ k \in Nat
        /\ \A i \in 1 .. Len(W) - 1 : V[i] = W[i + 1]
    BY WritesTail
  <1>1. \A s \in Sectors : e[s] = IF s = W[1].at THEN W[1].is ELSE d[s]
    BY <1>0 DEF Disk
  <1> HIDE DEF e, V
  <1>2. ASSUME NEW s \in Sectors PROVE After(e, V, k)[s] = After(d, W, k + 1)[s]
    <2>1. \A i \in 1 .. k : V[i].at = s <=> W[i + 1].at = s
      <3> SUFFICES ASSUME NEW i \in 1 .. k PROVE V[i] = W[i + 1]
        OBVIOUS
      <3>1. i \in 1 .. Len(W) - 1
        BY <1>0
      <3> QED
        BY <1>0, <3>1
    <2>2. CASE Hits(V, k, s) = {}
      <3>1. After(e, V, k)[s] = e[s]
        BY <2>2 DEF After
      <3>2. \A j \in 1 .. k + 1 : W[j].at = s => j = 1
        <4> SUFFICES ASSUME NEW j \in 1 .. k + 1, W[j].at = s, j # 1 PROVE FALSE
          OBVIOUS
        <4>1. j - 1 \in 1 .. k /\ j - 1 + 1 = j
          BY <1>0
        <4>2. V[j - 1].at = s
          BY <2>1, <4>1
        <4> QED
          BY <2>2, <4>1, <4>2 DEF Hits
      <3>3. CASE s = W[1].at
        <4>1. 1 \in 1 .. k + 1 /\ \A j \in 1 .. k + 1 : W[j].at = W[1].at => j <= 1
          BY <1>0, <3>2, <3>3
        <4>2. After(d, W, k + 1)[W[1].at] = W[1].is
          BY <1>0, <4>1, AfterLast
        <4> QED
          BY <1>1, <3>1, <3>3, <4>2
      <3>4. CASE s # W[1].at
        <4>1. \A j \in 1 .. k + 1 : W[j].at # s
          BY <3>2, <3>4
        <4> QED
          BY <1>0, <1>1, <3>1, <3>4, <4>1, AfterKept
      <3> QED
        BY <3>3, <3>4
    <2>3. CASE Hits(V, k, s) # {}
      <3>1. Hits(V, k, s) \in SUBSET (1 .. k)
        BY DEF Hits
      <3>2. PICK m : m = Max(Hits(V, k, s)) /\ m \in Hits(V, k, s) /\ \A y \in Hits(V, k, s) : y <= m
        BY <1>0, <2>3, <3>1, MaxOK
      <3>3. m \in 1 .. k /\ V[m].at = s /\ After(e, V, k)[s] = V[m].is
        BY <2>3, <3>2 DEF Hits, After
      <3>4. m + 1 \in 1 .. k + 1 /\ m \in 1 .. Len(W) - 1 /\ W[m + 1] = V[m]
        BY <1>0, <3>3
      <3>5. \A j \in 1 .. k + 1 : W[j].at = W[m + 1].at => j <= m + 1
        <4> SUFFICES ASSUME NEW j \in 1 .. k + 1, W[j].at = s, ~ (j <= m + 1) PROVE FALSE
          BY <3>3, <3>4
        <4>1. j - 1 \in 1 .. k /\ j - 1 + 1 = j /\ ~ (j - 1 <= m)
          BY <1>0, <3>3
        <4>2. j - 1 \in Hits(V, k, s)
          BY <2>1, <4>1 DEF Hits
        <4> QED
          BY <3>2, <4>1, <4>2
      <3>6. After(d, W, k + 1)[W[m + 1].at] = W[m + 1].is
        BY <1>0, <3>3, <3>4, <3>5, AfterLast
      <3> QED
        BY <3>3, <3>4, <3>6
    <2> QED
      BY <2>2, <2>3
  <1>3. After(e, V, k) = After(d, W, k + 1)
    <2>1. /\ After(e, V, k) = [s \in Sectors |-> After(e, V, k)[s]]
          /\ After(d, W, k + 1) = [s \in Sectors |-> After(d, W, k + 1)[s]]
      BY DEF After
    <2> QED
      BY <1>2, <2>1
  <1> QED
    BY <1>3 DEF e, V

-----------------------------------------------------------------------------
(* What a write does to the layout.                                        *)

LEMMA AtInItem ==
    ASSUME NEW d, NEW item, ItemOK(d, item)
    PROVE  \A i \in 1 .. Len(item.at) :
              item.at[i] \in ToSet(item.at) /\ item.at[i] \in Own(item) /\ item.at[i] \in Sectors
  <1>1. item.at \in Seq(Sectors)
    BY ItemRead
  <1> QED
    BY <1>1 DEF Own, ToSet

(* An item is as it was when its headers are.                              *)
LEMMA ItemKept ==
    ASSUME NEW d, NEW e, NEW item, ItemOK(d, item), \A s \in ToSet(item.at) : e[s] = d[s]
    PROVE  ItemOK(e, item)
  <1>1. HeadersAt(d, item.at, item.headers)
    BY DEF ItemOK
  <1>2. \A i \in 1 .. Len(item.at) : e[item.at[i]] = item.headers[i]
    BY <1>1, AtInItem, DiskLinked
  <1>3. HeadersAt(e, item.at, item.headers)
    BY <1>1, <1>2, DiskLinked, LinkedOnDisk
  <1> QED
    BY <1>3 DEF ItemOK

(* Nothing that is read on the way to an item changes.                     *)
LEMMA LayoutKept ==
    ASSUME NEW d, NEW e, NEW L, NEW t, Rep(d, L, t),
           \A p \in DOMAIN L : \A s \in ToSet(L[p].at) : e[s] = d[s],
           \A p \in DOMAIN L : L[p].dir /\ p # t => e[TableData(L[p])] = d[TableData(L[p])],
           \A s \in FreeMapSectors : e[s] = d[s]
    PROVE  Rep(e, L, t)
  <1>1. Shape(L, t) /\ Items(d, L) /\ Apart(L) /\ Listed(d, L, t) /\ BitmapOK(d) /\ Marked(d, L, t)
    BY DEF Rep
  <1>2. e[FreeMapSector] = d[FreeMapSector] /\ e[FreeMapData] = d[FreeMapData]
    BY DEF FreeMapSectors
  <1>3. BitmapOK(e) /\ Marked(e, L, t)
    BY <1>1, <1>2 DEF BitmapOK, Marked
  <1>4. Listed(e, L, t)
    BY <1>1 DEF Listed
  <1>5. Items(e, L)
    BY <1>1, ItemKept DEF Items
  <1> QED
    BY <1>1, <1>3, <1>4, <1>5 DEF Rep

(* An operation may begin on a path with nothing below it.                 *)
LEMMA LayoutWeaker ==
    ASSUME NEW d, NEW L, Rep(d, L, Nothing), NEW t,
           t \in DOMAIN L => ~L[t].dir
    PROVE  Rep(d, L, t)
  <1>1. /\ Shape(L, Nothing) /\ Items(d, L) /\ Apart(L)
        /\ Listed(d, L, Nothing) /\ BitmapOK(d) /\ Marked(d, L, Nothing)
    BY DEF Rep
  <1>2. \A p \in DOMAIN L : p # Nothing
    BY <1>1, PathsAreSequences DEF Shape
  <1>3. Listed(d, L, t) /\ Marked(d, L, t)
    BY <1>1, <1>2 DEF Listed, Marked
  <1>4. Shape(L, t)
    BY <1>1 DEF Shape
  <1> QED
    BY <1>1, <1>3, <1>4 DEF Rep

-----------------------------------------------------------------------------
(* An item that is not on the disk yet.                                    *)
NewItem(item) ==
    /\ Linked(item.at, item.headers)
    /\ SectorsOf(item.headers) \in Seq(Sectors)
    /\ ToSet(item.at) \cap ToSet(SectorsOf(item.headers)) = {}
    /\ item.dir \in BOOLEAN
    /\ item.dir => Len(SectorsOf(item.headers)) = 1

With(L, p, item) == [q \in DOMAIN L \cup {p} |-> IF q = p THEN item ELSE L[q]]

(* A name below a path.                                                    *)
LEMMA AppendPath ==
    ASSUME NEW q \in Seq(Names), NEW n \in Names
    PROVE  /\ Append(q, n) \in Seq(Names) /\ Len(Append(q, n)) = Len(q) + 1
           /\ UpTo(Append(q, n), Len(q)) = q
           /\ Append(q, n) # q /\ Append(q, n) # Root
           /\ \A p \in Paths : Append(q, n) = p => q = Front(p) /\ n = Last(p)
  <1>1. /\ Append(q, n) \in Seq(Names) /\ Len(Append(q, n)) = Len(q) + 1
        /\ Append(q, n)[Len(q) + 1] = n /\ Len(q) \in Nat
        /\ \A i \in 1 .. Len(q) : Append(q, n)[i] = q[i]
    OBVIOUS
  <1>2. UpTo(Append(q, n), Len(q)) = q
    <2>1. PICK a \in Seq(Names) : a = Append(q, n)
      BY <1>1
    <2>2. PICK b : b = UpTo(a, Len(q))
      OBVIOUS
    <2>3. Len(q) \in 0 .. Len(a)
      BY <1>1, <2>1
    <2>4. b \in Seq(Names) /\ Len(b) = Len(q) /\ \A i \in 1 .. Len(q) : b[i] = q[i]
      BY <1>1, <2>1, <2>2, <2>3, PrefixOK
    <2>5. b = q
      BY <2>4, SeqEqual
    <2> QED
      BY <2>1, <2>2, <2>5
  <1>3. Append(q, n) # q /\ Append(q, n) # Root
    <2>1. Len(Append(q, n)) # Len(q) /\ Len(Append(q, n)) # 0
      BY <1>1
    <2>2. Len(Root) = 0
      BY DEF Root
    <2> QED
      BY <2>1, <2>2
  <1>4. ASSUME NEW p \in Paths, Append(q, n) = p PROVE q = Front(p) /\ n = Last(p)
    <2>1. Len(p) = Len(q) + 1 /\ p[Len(q) + 1] = n /\ UpTo(p, Len(q)) = q
      BY <1>1, <1>2, <1>4
    <2>2. Front(p) = UpTo(p, Len(p) - 1) /\ Len(p) - 1 = Len(q)
      BY <1>1, <2>1, FrontOK
    <2> QED
      BY <2>1, <2>2 DEF Last
  <1> QED
    BY <1>1, <1>2, <1>3, <1>4

(* The listing of a directory, when an item is added to the layout.        *)
LEMMA ListingElsewhere ==
    ASSUME NEW L, NEW q \in Seq(Names), NEW table, Listing(L, q, table),
           NEW p \in Paths, p \notin DOMAIN L, q # Front(p), NEW item
    PROVE  Listing(With(L, p, item), q, table)
  <1> DEFINE M == With(L, p, item)
  <1>1. /\ DOMAIN M = DOMAIN L \cup {p}
        /\ \A r \in DOMAIN L : M[r] = L[r] /\ EntryFor(M, r) = EntryFor(L, r)
    BY DEF With, EntryFor
  <1>2. \A n \in Names : Append(q, n) # p
    BY AppendPath
  <1> HIDE DEF M
  <1>3. \A n \in Names : Append(q, n) \in DOMAIN M =>
           Append(q, n) \in DOMAIN L /\ EntryFor(M, Append(q, n)) = EntryFor(L, Append(q, n))
    BY <1>1, <1>2
  <1>4. Listing(M, q, table)
    BY <1>1, <1>3 DEF Listing
  <1> QED
    BY <1>4 DEF M

(* The new entry in the table of the directory above it.                   *)
LEMMA ListingAdded ==
    ASSUME NEW d, NEW L, Items(d, L), NEW p \in Paths, p \notin DOMAIN L,
           NEW table, Listing(L, Front(p), table),
           NEW i \in FreeEntries(table),
           NEW item, item.at[1] \in Sectors, item.dir \in BOOLEAN
    PROVE  Listing(With(L, p, item), Front(p),
                   [table EXCEPT ![i] = [name |-> Last(p), sector |-> item.at[1], dir |-> item.dir]])
  <1> DEFINE M == With(L, p, item)
             u == Front(p)
             e == [name |-> Last(p), sector |-> item.at[1], dir |-> item.dir]
             new == [table EXCEPT ![i] = e]
  <1>1. u \in Seq(Names) /\ Last(p) \in Names /\ p = Append(u, Last(p))
    BY FrontOK
  <1>2. /\ DOMAIN M = DOMAIN L \cup {p}
        /\ \A r \in DOMAIN L : M[r] = L[r] /\ EntryFor(M, r) = EntryFor(L, r)
        /\ EntryFor(M, p) = e
    BY DEF With, EntryFor
  <1>3. e \in Entries /\ e # NoEntry /\ e.name = Last(p)
    BY <1>1, InUse DEF Entries
  <1>4. /\ table \in Tables /\ DOMAIN table = 1 .. NumEntries
        /\ i \in 1 .. NumEntries /\ table[i] = NoEntry
        /\ \A j \in 1 .. NumEntries : table[j] \in Entries \cup {NoEntry}
    BY DEF Listing, Tables, FreeEntries
  <1>5. /\ new \in Tables /\ new[i] = e
        /\ \A j \in 1 .. NumEntries : j # i => new[j] = table[j]
    BY <1>3, <1>4 DEF Tables
  <1> HIDE DEF M, u, e, new
  <1>6. ASSUME NEW j \in 1 .. NumEntries, table[j] # NoEntry
        PROVE  /\ table[j].name \in Names /\ table[j].name # Last(p)
               /\ Append(u, table[j].name) \in DOMAIN L
               /\ table[j] = EntryFor(L, Append(u, table[j].name))
    <2>1. table[j].name \in Names
      BY <1>4, <1>6 DEF Entries
    <2>2. Append(u, table[j].name) \in DOMAIN L /\ table[j] = EntryFor(L, Append(u, table[j].name))
      BY <1>6 DEF Listing, u
    <2>3. table[j].name # Last(p)
      BY <1>1, <2>2
    <2> QED
      BY <2>1, <2>2, <2>3
  <1>7. ASSUME NEW j \in 1 .. NumEntries, new[j] # NoEntry
        PROVE  /\ Append(u, new[j].name) \in DOMAIN M
               /\ new[j] = EntryFor(M, Append(u, new[j].name))
    <2>1. CASE j = i
      BY <1>1, <1>2, <1>3, <1>5, <2>1
    <2>2. CASE j # i
      BY <1>2, <1>5, <1>6, <1>7, <2>2
    <2> QED
      BY <2>1, <2>2
  <1>8. ASSUME NEW j \in 1 .. NumEntries, NEW k \in 1 .. NumEntries,
               new[j] # NoEntry, new[k] # NoEntry, new[j].name = new[k].name
        PROVE  j = k
    <2>1. CASE j = i \/ k = i
      BY <1>3, <1>5, <1>6, <1>8, <2>1
    <2>2. CASE j # i /\ k # i
      BY <1>5, <1>8, <2>2 DEF Listing
    <2> QED
      BY <2>1, <2>2
  <1>9. ASSUME NEW n \in Names, Append(u, n) \in DOMAIN M
        PROVE  \E j \in 1 .. NumEntries : new[j] = EntryFor(M, Append(u, n))
    <2>1. CASE Append(u, n) = p
      BY <1>2, <1>4, <1>5, <2>1
    <2>2. CASE Append(u, n) # p
      <3>1. Append(u, n) \in DOMAIN L
        BY <1>2, <1>9, <2>2
      <3>2. PICK j \in 1 .. NumEntries : table[j] = EntryFor(L, Append(u, n))
        BY <3>1 DEF Listing, u
      <3>3. EntryFor(L, Append(u, n)) \in Entries
        BY <1>1, <3>1, EntryForOK
      <3>4. j # i
        BY <1>4, <3>2, <3>3, InUse
      <3> QED
        BY <1>2, <1>5, <3>1, <3>2, <3>4
    <2> QED
      BY <2>1, <2>2
  <1>10. Listing(M, u, new)
    BY <1>5, <1>7, <1>8, <1>9 DEF Listing
  <1> QED
    BY <1>10 DEF M, u, e, new

(* An empty table lists an empty directory.                                *)
LEMMA EmptyListing ==
    ASSUME NEW L, NEW p, \A n \in Names : Append(p, n) \notin DOMAIN L
    PROVE  Listing(L, p, EmptyTable)
  BY DEF Listing, EmptyTable, Tables

(* Where the new item's headers are written, its parent's table changes    *)
(* and sectors are marked.  It is on the disk for good when its own        *)
(* sectors are marked too and, if it is a directory, it is empty.          *)
Added(d, e, L, p, item, i) ==
    /\ \A j \in 1 .. Len(item.at) : e[item.at[j]] = item.headers[j]
    /\ \A s \in FreeMap(d) \cap Sectors : s # TableData(L[Front(p)]) /\ s # FreeMapData => e[s] = d[s]
    /\ e[TableData(L[Front(p)])] =
          TableSector([d[TableData(L[Front(p)])].table EXCEPT
                         ![i] = [name |-> Last(p), sector |-> item.at[1], dir |-> item.dir]])
    /\ e[FreeMapData].type = "bitmap" /\ FreeMap(d) \subseteq e[FreeMapData].marked

Complete(e, item) ==
    /\ Own(item) \subseteq e[FreeMapData].marked
    /\ item.dir => e[TableData(item)] = TableSector(EmptyTable)

(* With the entry written the new item is in the layout: in doubt until    *)
(* the rest is written, and then like any other.                           *)
LEMMA ItemAdded ==
    ASSUME NEW d, NEW L, Rep(d, L, Nothing),
           NEW p \in Paths, p \notin DOMAIN L, Front(p) \in DOMAIN L, L[Front(p)].dir,
           NEW i \in FreeEntries(d[TableData(L[Front(p)])].table),
           NEW item, NewItem(item), Own(item) \cap FreeMap(d) = {},
           NEW e, Added(d, e, L, p, item, i),
           NEW t, t = p \/ (t = Nothing /\ Complete(e, item))
    PROVE  Rep(e, With(L, p, item), t)
  <1> DEFINE M == With(L, p, item)
             u == Front(p)
             marked == FreeMap(d)
  <1>1. /\ Shape(L, Nothing) /\ Items(d, L) /\ Apart(L)
        /\ Listed(d, L, Nothing) /\ BitmapOK(d) /\ Marked(d, L, Nothing)
    BY DEF Rep
  <1>2. /\ DOMAIN M = DOMAIN L \cup {p} /\ M[p] = item
        /\ \A q \in DOMAIN L : M[q] = L[q] /\ q # p
    BY DEF With
  <1>3. /\ p \in Seq(Names) /\ Len(p) \in Nat \ {0} /\ u = UpTo(p, Len(p) - 1)
        /\ u \in Seq(Names) /\ Len(u) = Len(p) - 1
    BY FrontOK
  <1>4. FreeMapSectors \subseteq marked /\ marked = d[FreeMapData].marked
    BY <1>1, FreeMapRead
  <1>5. ASSUME NEW q \in DOMAIN L
        PROVE  /\ q # Nothing /\ q \in Seq(Names) /\ ItemOK(d, L[q])
               /\ Own(L[q]) \subseteq marked /\ Own(L[q]) \subseteq Sectors /\ Own(L[q]) \cap FreeMapSectors = {}
               /\ q # u => Own(L[q]) \cap Own(L[u]) = {}
               /\ L[q].dir => TableData(L[q]) \in Own(L[q])
    <2>1. q # Nothing /\ q \in Seq(Names)
      BY <1>1, PathsAreSequences DEF Shape
    <2>2. ItemOK(d, L[q]) /\ Own(L[q]) \subseteq Sectors /\ (L[q].dir => TableData(L[q]) \in Own(L[q]))
      BY <1>1, ItemRead DEF Items
    <2>3. Own(L[q]) \subseteq marked
      BY <1>1, <1>4, <2>1 DEF Marked
    <2>4. Own(L[q]) \cap FreeMapSectors = {} /\ (q # u => Own(L[q]) \cap Own(L[u]) = {})
      BY <1>1 DEF Apart
    <2> QED
      BY <2>1, <2>2, <2>3, <2>4
  <1> HIDE DEF M, u, marked
  <1>6. TableData(L[u]) \in Own(L[u]) /\ u \in DOMAIN L /\ L[u].dir
    BY <1>5 DEF u
  <1>7. /\ \A s \in marked \cap Sectors : s # TableData(L[u]) /\ s # FreeMapData => e[s] = d[s]
        /\ \A j \in 1 .. Len(item.at) : e[item.at[j]] = item.headers[j]
        /\ e[FreeMapData].type = "bitmap" /\ marked \subseteq e[FreeMapData].marked
    BY DEF Added, u, marked
  <1>8. Shape(M, t)
    <2>1. ASSUME NEW q \in DOMAIN M, NEW j \in 0 .. Len(q) - 1
          PROVE  UpTo(q, j) \in DOMAIN L /\ L[UpTo(q, j)].dir
      <3>1. CASE q # p
        BY <1>1, <1>2, <3>1 DEF Shape
      <3>2. CASE q = p /\ j = Len(p) - 1
        BY <1>3, <1>6, <3>2
      <3>3. CASE q = p /\ j # Len(p) - 1
        <4>1. j \in 0 .. Len(u) - 1 /\ j \in 0 .. Len(p) - 1
              /\ Len(p) - 1 \in 0 .. Len(p)
          BY <1>3, <3>3
        <4>2. UpTo(u, j) = UpTo(p, j)
          <5>1. j \in 0 .. Len(p) - 1
            BY <4>1
          <5> QED
            BY <1>3, <4>1, <5>1, PrefixOK
        <4>3. UpTo(u, j) \in DOMAIN L /\ L[UpTo(u, j)].dir
          BY <1>1, <1>6, <4>1 DEF Shape
        <4> QED
          BY <3>3, <4>2, <4>3
      <3> QED
        BY <3>1, <3>2, <3>3
    <2>2. \A q \in DOMAIN L : q # t
      BY <1>2, <1>5
    <2>3. Root \in DOMAIN L /\ M[Root] = L[Root] /\ L[Root].at = <<DirectorySector>> /\ L[Root].dir
      BY <1>1, <1>2 DEF Shape
    <2>4. DOMAIN M \subseteq Paths \cup {Root}
      BY <1>1, <1>2 DEF Shape
    <2> QED
      BY <1>2, <2>1, <2>2, <2>3, <2>4 DEF Shape
  <1>9. Items(e, M)
    <2>1. ASSUME NEW q \in DOMAIN L PROVE ItemOK(e, L[q])
      <3>1. \A s \in ToSet(L[q].at) : s \in Own(L[q]) /\ s \in marked /\ s # FreeMapData
        BY <1>5 DEF Own, FreeMapSectors
      <3>2. \A s \in ToSet(L[q].at) : s # TableData(L[u])
        <4>1. CASE q # u
          BY <1>5, <1>6, <3>1, <4>1
        <4>2. CASE q = u
          <5>1. /\ ToSet(L[u].at) \cap ToSet(SectorsOf(L[u].headers)) = {}
                /\ SectorsOf(L[u].headers) \in Seq(Sectors) /\ Len(SectorsOf(L[u].headers)) = 1
            BY <1>5, <1>6 DEF ItemOK
          <5>2. TableData(L[u]) \in ToSet(SectorsOf(L[u].headers))
            BY <5>1 DEF TableData, ToSet
          <5> QED
            BY <4>2, <5>1, <5>2
        <4> QED
          BY <4>1, <4>2
      <3>3. \A s \in ToSet(L[q].at) : e[s] = d[s]
        BY <1>5, <1>7, <3>1, <3>2 DEF Own
      <3> QED
        BY <1>5, <3>3, ItemKept
    <2>2. ItemOK(e, item)
      <3>1. HeadersAt(e, item.at, item.headers)
        BY <1>7, LinkedOnDisk DEF NewItem
      <3> QED
        BY <3>1 DEF NewItem, ItemOK
    <2> QED
      BY <1>2, <2>1, <2>2 DEF Items
  <1>10. Apart(M)
    <2>1. \A q \in DOMAIN L : Own(L[q]) \cap Own(item) = {}
      BY <1>5 DEF marked
    <2>2. Own(item) \cap FreeMapSectors = {}
      BY <1>4 DEF marked
    <2>3. \A q, r \in DOMAIN L : q # r => Own(L[q]) \cap Own(L[r]) = {}
      BY <1>1 DEF Apart
    <2> QED
      BY <1>2, <1>5, <2>1, <2>2, <2>3 DEF Apart
  <1>11. Listed(e, M, t)
    <2>1. ASSUME NEW q \in DOMAIN L, L[q].dir, q # u
          PROVE  /\ e[TableData(L[q])].type = "table"
                 /\ Listing(M, q, e[TableData(L[q])].table)
      <3>1. d[TableData(L[q])].type = "table" /\ Listing(L, q, d[TableData(L[q])].table)
        BY <1>1, <1>5, <2>1 DEF Listed
      <3>2. /\ TableData(L[q]) \in marked /\ TableData(L[q]) # FreeMapData
            /\ TableData(L[q]) # TableData(L[u])
        BY <1>5, <1>6, <2>1 DEF FreeMapSectors
      <3>3. e[TableData(L[q])] = d[TableData(L[q])]
        BY <1>5, <1>7, <2>1, <3>2
      <3>4. Listing(M, q, d[TableData(L[q])].table)
        BY <1>5, <2>1, <3>1, ListingElsewhere DEF M, u
      <3> QED
        BY <3>1, <3>3, <3>4
    <2>2. /\ e[TableData(L[u])].type = "table"
          /\ Listing(M, u, e[TableData(L[u])].table)
      <3>1. Listing(L, u, d[TableData(L[u])].table)
        BY <1>1, <1>5, <1>6 DEF Listed
      <3>2. item.at[1] \in Sectors /\ item.dir \in BOOLEAN
        BY DEF NewItem, Linked
      <3>3. Listing(M, u, [d[TableData(L[u])].table EXCEPT
                             ![i] = [name |-> Last(p), sector |-> item.at[1], dir |-> item.dir]])
        BY <1>1, <3>1, <3>2, ListingAdded DEF M, u
      <3> QED
        BY <3>3 DEF Added, u, TableSector
    <2>3. ASSUME item.dir, p # t
          PROVE  /\ e[TableData(item)].type = "table"
                 /\ Listing(M, p, e[TableData(item)].table)
      <3>1. e[TableData(item)] = TableSector(EmptyTable)
        BY <2>3 DEF Complete
      <3>2. ASSUME NEW n \in Names, Append(p, n) \in DOMAIN M PROVE FALSE
        <4>1. Append(p, n) \in DOMAIN L
          BY <1>2, <1>3, <3>2, AppendPath
        <4>2. /\ Len(Append(p, n)) = Len(p) + 1 /\ UpTo(Append(p, n), Len(p)) = p
              /\ Len(p) \in 0 .. Len(Append(p, n)) - 1
          BY <1>3, AppendPath
        <4>3. p \in DOMAIN L
          BY <1>1, <4>1, <4>2 DEF Shape
        <4> QED
          BY <1>2, <4>3
      <3>3. Listing(M, p, EmptyTable)
        BY <3>2, EmptyListing
      <3> QED
        BY <3>1, <3>3 DEF TableSector
    <2> QED
      BY <1>2, <2>1, <2>2, <2>3 DEF Listed
  <1>12. BitmapOK(e)
    <2>1. FreeMapSector \in marked /\ FreeMapSector # FreeMapData /\ FreeMapSector # TableData(L[u])
      BY <1>4, <1>5, <1>6 DEF FreeMapSectors, FreeMapSector, FreeMapData
    <2>2. e[FreeMapSector] = d[FreeMapSector]
      BY <1>1, <1>7, <2>1, FreeMapRead DEF FreeMapSectors
    <2> QED
      BY <1>1, <1>4, <1>7, <2>2 DEF BitmapOK
  <1>13. Marked(e, M, t)
    <2>1. \A q \in DOMAIN L : Own(L[q]) \subseteq e[FreeMapData].marked
      BY <1>5, <1>7
    <2>2. p # t => Own(item) \subseteq e[FreeMapData].marked
      BY DEF Complete
    <2> QED
      BY <1>2, <2>1, <2>2 DEF Marked
  <1>14. Rep(e, M, t)
    BY <1>8, <1>9, <1>10, <1>11, <1>12, <1>13 DEF Rep
  <1> QED
    BY <1>14 DEF M

-----------------------------------------------------------------------------
(* When a path is removed, what is below it goes first.                    *)
Pruned(L, p) == [q \in {r \in DOMAIN L : r = p \/ ~IsPrefix(p, r)} |-> L[q]]
Without(L, p) == [q \in DOMAIN L \ {p} |-> L[q]]

(* With its sectors clear in the bitmap a path is in doubt, and what is    *)
(* below it is no longer counted.                                          *)
LEMMA BelowGone ==
    ASSUME NEW d, NEW L, Rep(d, L, Nothing), NEW p \in DOMAIN L, p # Root,
           NEW e, \A s \in Sectors : s # FreeMapData => e[s] = d[s],
           e[FreeMapData].type = "bitmap", FreeMap(d) \ Own(L[p]) \subseteq e[FreeMapData].marked
    PROVE  Rep(e, Pruned(L, p), p)
  <1> DEFINE M == Pruned(L, p)
  <1>1. /\ Shape(L, Nothing) /\ Items(d, L) /\ Apart(L)
        /\ Listed(d, L, Nothing) /\ BitmapOK(d) /\ Marked(d, L, Nothing)
    BY DEF Rep
  <1>2. /\ DOMAIN M \subseteq DOMAIN L /\ \A q \in DOMAIN M : M[q] = L[q]
        /\ \A q \in DOMAIN L : q \in DOMAIN M <=> q = p \/ ~IsPrefix(p, q)
    BY DEF Pruned
  <1>3. p \in Paths /\ p \in Seq(Names) /\ Len(p) > 0
    BY <1>1, PathsAreSequences DEF Shape
  <1>4. FreeMapSectors \subseteq FreeMap(d) /\ FreeMap(d) = d[FreeMapData].marked
        /\ FreeMapSectors \subseteq Sectors
    BY <1>1, FreeMapRead
  <1>5. ASSUME NEW q \in DOMAIN L
        PROVE  /\ q # Nothing /\ q \in Seq(Names) /\ ItemOK(d, L[q]) /\ Own(L[q]) \subseteq Sectors
               /\ Own(L[q]) \subseteq FreeMap(d) /\ Own(L[q]) \cap FreeMapSectors = {}
               /\ L[q].dir => TableData(L[q]) \in Own(L[q])
    <2>1. q # Nothing /\ q \in Seq(Names)
      BY <1>1, PathsAreSequences DEF Shape
    <2>2. /\ ItemOK(d, L[q]) /\ (L[q].dir => TableData(L[q]) \in Own(L[q]))
          /\ Own(L[q]) \subseteq Sectors
      BY <1>1, ItemRead DEF Items
    <2>3. Own(L[q]) \subseteq FreeMap(d)
      BY <1>1, <1>4, <2>1 DEF Marked
    <2>4. Own(L[q]) \cap FreeMapSectors = {}
      BY <1>1 DEF Apart
    <2> QED
      BY <2>1, <2>2, <2>3, <2>4
  <1> HIDE DEF M
  <1>6. ASSUME NEW q \in DOMAIN M, NEW j \in 0 .. Len(q) - 1
        PROVE  UpTo(q, j) \in DOMAIN M /\ UpTo(q, j) # p /\ L[UpTo(q, j)].dir
    <2>1. q \in DOMAIN L /\ q \in Seq(Names) /\ j \in 0 .. Len(q) /\ j < Len(q)
      BY <1>2, <1>5
    <2>2. UpTo(q, j) \in DOMAIN L /\ L[UpTo(q, j)].dir
      BY <1>1, <2>1 DEF Shape
    <2>3. ~IsPrefix(p, UpTo(q, j))
      <3>1. SUFFICES ASSUME IsPrefix(p, UpTo(q, j)) PROVE FALSE
        OBVIOUS
      <3>2. UpTo(q, j) \in Seq(Names) /\ Len(UpTo(q, j)) = j
        BY <2>1, PrefixOK
      <3>3. Len(p) \in 0 .. j /\ p = UpTo(UpTo(q, j), Len(p))
        BY <1>3, <3>1, <3>2, PrefixUpTo
      <3>4. p = UpTo(q, Len(p)) /\ Len(p) \in 0 .. Len(q) /\ Len(p) # Len(q)
        BY <2>1, <3>3, PrefixOK
      <3>5. IsPrefix(p, q)
        BY <2>1, <3>4, IsPrefixOK
      <3>6. q = p
        BY <1>2, <3>5
      <3> QED
        BY <3>4, <3>6
    <2>4. IsPrefix(p, p)
      BY <1>3 DEF IsPrefix
    <2> QED
      BY <1>2, <2>2, <2>3, <2>4
  <1>7. Shape(M, p)
    <2>1. IsPrefix(p, Root) => FALSE
      <3>1. Len(Root) = 0
        BY DEF Root
      <3> QED
        BY <1>3, <3>1 DEF IsPrefix
    <2>2. Root \in DOMAIN L /\ L[Root].at = <<DirectorySector>> /\ L[Root].dir
          /\ DOMAIN L \subseteq Paths \cup {Root}
      BY <1>1 DEF Shape
    <2> QED
      BY <1>2, <1>6, <2>1, <2>2 DEF Shape
  <1>8. Items(e, M)
    <2> SUFFICES ASSUME NEW q \in DOMAIN L PROVE ItemOK(e, L[q])
      BY <1>2 DEF Items
    <2>1. \A s \in ToSet(L[q].at) : e[s] = d[s]
      BY <1>5 DEF Own, FreeMapSectors
    <2> QED
      BY <1>5, <2>1, ItemKept
  <1>9. Apart(M)
    BY <1>1, <1>2 DEF Apart
  <1>10. Listed(e, M, p)
    <2> SUFFICES ASSUME NEW q \in DOMAIN M, L[q].dir, q # p
                 PROVE  /\ e[TableData(L[q])].type = "table"
                        /\ Listing(M, q, e[TableData(L[q])].table)
      BY <1>2 DEF Listed
    <2>0. q \in DOMAIN L /\ ~IsPrefix(p, q) /\ q \in Seq(Names)
      BY <1>2, <1>5
    <2>1. d[TableData(L[q])].type = "table" /\ Listing(L, q, d[TableData(L[q])].table)
      BY <1>1, <1>5, <2>0 DEF Listed
    <2>2. e[TableData(L[q])] = d[TableData(L[q])]
      BY <1>5, <2>0 DEF FreeMapSectors
    <2>3. ASSUME NEW n \in Names, Append(q, n) \in DOMAIN L PROVE Append(q, n) \in DOMAIN M
      <3> SUFFICES ASSUME IsPrefix(p, Append(q, n)), p # Append(q, n) PROVE FALSE
        BY <1>2, <2>3
      <3>1. /\ Append(q, n) \in Seq(Names) /\ Len(Append(q, n)) = Len(q) + 1
            /\ UpTo(Append(q, n), Len(q)) = q
        BY <2>0, AppendPath
      <3>2. p = UpTo(Append(q, n), Len(p)) /\ Len(p) \in 0 .. Len(Append(q, n)) - 1
        BY <1>3, <3>1, PrefixUpTo
      <3>3. Len(p) \in 0 .. Len(q) /\ Len(q) \in 0 .. Len(Append(q, n))
        BY <2>0, <3>1, <3>2
      <3>4. UpTo(q, Len(p)) = p
        BY <3>1, <3>2, <3>3, PrefixOK
      <3> QED
        BY <2>0, <3>3, <3>4, IsPrefixOK
    <2>4. \A n \in Names : Append(q, n) \in DOMAIN M => Append(q, n) \in DOMAIN L
             /\ EntryFor(M, Append(q, n)) = EntryFor(L, Append(q, n))
      BY <1>2 DEF EntryFor
    <2>5. PICK table : table = d[TableData(L[q])].table
      OBVIOUS
    <2>6. \A j \in 1 .. NumEntries : table[j] # NoEntry => table[j].name \in Names
      BY <2>1, <2>5 DEF Listing, Tables, Entries
    <2>7. Listing(L, q, table)
      BY <2>1, <2>5
    <2>8. Listing(M, q, table)
      BY <2>3, <2>4, <2>6, <2>7 DEF Listing
    <2> QED
      BY <2>1, <2>2, <2>5, <2>8
  <1>11. BitmapOK(e)
    <2>1. e[FreeMapSector] = d[FreeMapSector]
      BY <1>4 DEF FreeMapSectors, FreeMapSector, FreeMapData
    <2>2. FreeMapSectors \subseteq e[FreeMapData].marked
      BY <1>4, <1>5
    <2> QED
      BY <1>1, <2>1, <2>2 DEF BitmapOK
  <1>12. Marked(e, M, p)
    <2> SUFFICES ASSUME NEW q \in DOMAIN L, q # p PROVE Own(L[q]) \subseteq e[FreeMapData].marked
      BY <1>2 DEF Marked
    <2>1. Own(L[q]) \cap Own(L[p]) = {}
      BY <1>1 DEF Apart
    <2> QED
      BY <1>5, <2>1
  <1>13. Rep(e, M, p)
    BY <1>7, <1>8, <1>9, <1>10, <1>11, <1>12 DEF Rep
  <1> QED
    BY <1>13 DEF M

(* With its entry cleared the path is gone.                                *)
LEMMA EntryGone ==
    ASSUME NEW d, NEW L, NEW p \in DOMAIN L, p # Root, Rep(d, L, p),
           NEW i \in 1 .. NumEntries,
           d[TableData(L[Front(p)])].table[i] # NoEntry,
           d[TableData(L[Front(p)])].table[i].name = Last(p),
           NEW e, \A s \in Sectors : s # TableData(L[Front(p)]) => e[s] = d[s],
           e[TableData(L[Front(p)])] =
              TableSector([d[TableData(L[Front(p)])].table EXCEPT ![i] = NoEntry])
    PROVE  Rep(e, Without(L, p), Nothing)
  <1> DEFINE M == Without(L, p)
             u == Front(p)
             table == d[TableData(L[u])].table
             new == [table EXCEPT ![i] = NoEntry]
  <1>1. /\ Shape(L, p) /\ Items(d, L) /\ Apart(L)
        /\ Listed(d, L, p) /\ BitmapOK(d) /\ Marked(d, L, p)
    BY DEF Rep
  <1>2. /\ DOMAIN M = DOMAIN L \ {p} /\ \A q \in DOMAIN M : M[q] = L[q]
    BY DEF Without
  <1>3. /\ p \in Paths /\ p \in Seq(Names) /\ Len(p) \in Nat \ {0} /\ u = UpTo(p, Len(p) - 1)
        /\ u \in Seq(Names) /\ Last(p) \in Names /\ p = Append(u, Last(p))
    <2>1. p \in Paths
      BY <1>1 DEF Shape
    <2> QED
      BY <2>1, FrontOK
  <1>4. FreeMapSectors \subseteq Sectors
    BY <1>1, FreeMapRead
  <1>5. ASSUME NEW q \in DOMAIN L
        PROVE  /\ q # Nothing /\ q \in Seq(Names) /\ ItemOK(d, L[q]) /\ Own(L[q]) \subseteq Sectors
               /\ Own(L[q]) \cap FreeMapSectors = {}
               /\ q # u => Own(L[q]) \cap Own(L[u]) = {}
               /\ L[q].dir => TableData(L[q]) \in Own(L[q])
    <2>1. q # Nothing /\ q \in Seq(Names)
      BY <1>1, PathsAreSequences DEF Shape
    <2>2. /\ ItemOK(d, L[q]) /\ (L[q].dir => TableData(L[q]) \in Own(L[q]))
          /\ Own(L[q]) \subseteq Sectors
      BY <1>1, ItemRead DEF Items
    <2>3. Own(L[q]) \cap FreeMapSectors = {} /\ (q # u => Own(L[q]) \cap Own(L[u]) = {})
      <3>1. u \in DOMAIN L
        BY <1>1, <1>3 DEF Shape
      <3> QED
        BY <1>1, <3>1 DEF Apart
    <2> QED
      BY <2>1, <2>2, <2>3
  <1>6. u \in DOMAIN L /\ L[u].dir /\ u # p
    BY <1>1, <1>3 DEF Shape
  <1>7. TableData(L[u]) \in Own(L[u])
    BY <1>5, <1>6
  <1> HIDE DEF M, u
  <1>8. Shape(M, Nothing)
    <2>1. ASSUME NEW q \in DOMAIN M, NEW j \in 0 .. Len(q) - 1
          PROVE  UpTo(q, j) \in DOMAIN M /\ M[UpTo(q, j)].dir
      BY <1>1, <1>2 DEF Shape
    <2>2. \A q \in DOMAIN M : q # Nothing
      BY <1>2, <1>5
    <2>3. Root \in DOMAIN L /\ L[Root].at = <<DirectorySector>> /\ L[Root].dir
          /\ DOMAIN L \subseteq Paths \cup {Root}
      BY <1>1 DEF Shape
    <2> QED
      BY <1>2, <2>1, <2>2, <2>3 DEF Shape
  <1>9. \A q \in DOMAIN L : \A s \in ToSet(L[q].at) : s # TableData(L[u])
    <2> SUFFICES ASSUME NEW q \in DOMAIN L, NEW s \in ToSet(L[q].at) PROVE s # TableData(L[u])
      OBVIOUS
    <2>1. CASE q # u
      BY <1>5, <1>7, <2>1 DEF Own
    <2>2. CASE q = u
      <3>1. /\ ToSet(L[u].at) \cap ToSet(SectorsOf(L[u].headers)) = {}
            /\ SectorsOf(L[u].headers) \in Seq(Sectors) /\ Len(SectorsOf(L[u].headers)) = 1
        BY <1>5, <1>6 DEF ItemOK
      <3>2. TableData(L[u]) \in ToSet(SectorsOf(L[u].headers))
        BY <3>1 DEF TableData, ToSet
      <3> QED
        BY <2>2, <3>1, <3>2
    <2> QED
      BY <2>1, <2>2
  <1>10. Items(e, M)
    <2> SUFFICES ASSUME NEW q \in DOMAIN L PROVE ItemOK(e, L[q])
      BY <1>2 DEF Items
    <2>1. \A s \in ToSet(L[q].at) : s \in Sectors /\ e[s] = d[s]
      BY <1>5, <1>9 DEF Own, u
    <2> QED
      BY <1>5, <2>1, ItemKept
  <1>11. Apart(M)
    BY <1>1, <1>2 DEF Apart
  <1>12. Listed(e, M, Nothing)
    <2>0. \A q \in DOMAIN M : EntryFor(M, q) = EntryFor(L, q)
      BY <1>2 DEF EntryFor
    <2>1. ASSUME NEW q \in DOMAIN M, L[q].dir, q # u
          PROVE  /\ e[TableData(L[q])].type = "table"
                 /\ Listing(M, q, e[TableData(L[q])].table)
      <3>0. q \in DOMAIN L /\ q # p /\ q \in Seq(Names)
        BY <1>2, <1>5
      <3>1. PICK old : old = d[TableData(L[q])].table
        OBVIOUS
      <3>2. d[TableData(L[q])].type = "table" /\ Listing(L, q, old)
        BY <1>1, <2>1, <3>0, <3>1 DEF Listed
      <3>3. TableData(L[q]) \in Sectors /\ TableData(L[q]) # TableData(L[u])
        BY <1>5, <1>7, <2>1, <3>0
      <3>4. e[TableData(L[q])] = d[TableData(L[q])]
        BY <3>3 DEF u
      <3>5. \A n \in Names : Append(q, n) # p
        BY <1>3, <2>1, <3>0, AppendPath DEF u
      <3>6. \A j \in 1 .. NumEntries : old[j] # NoEntry => old[j].name \in Names
        BY <3>2 DEF Listing, Tables, Entries
      <3>7. Listing(M, q, old)
        BY <1>2, <2>0, <3>2, <3>5, <3>6 DEF Listing
      <3> QED
        BY <3>1, <3>2, <3>4, <3>7
    <2>2. e[TableData(L[u])].type = "table" /\ Listing(M, u, e[TableData(L[u])].table)
      <3>1. d[TableData(L[u])].type = "table" /\ Listing(L, u, table)
        BY <1>1, <1>6 DEF Listed
      <3>2. e[TableData(L[u])].type = "table" /\ e[TableData(L[u])].table = new
        BY DEF TableSector, u
      <3>3. table[i] # NoEntry /\ table[i].name = Last(p)
        BY DEF u
      <3> HIDE DEF table
      <3>4. /\ table \in Tables
            /\ \A j \in 1 .. NumEntries : table[j] # NoEntry => table[j].name \in Names
        BY <3>1 DEF Listing, Tables, Entries
      <3>5. /\ new \in Tables /\ new[i] = NoEntry
            /\ \A j \in 1 .. NumEntries : j # i => new[j] = table[j]
        BY <3>4 DEF Tables
      <3> HIDE DEF new
      <3>6. \A j \in 1 .. NumEntries : j # i /\ table[j] # NoEntry => table[j].name # Last(p)
        BY <3>1, <3>3 DEF Listing
      <3>7. \A n \in Names : n # Last(p) => Append(u, n) # p
        BY <1>3, AppendPath
      <3>8. \A j \in 1 .. NumEntries : new[j] # NoEntry =>
               /\ Append(u, new[j].name) \in DOMAIN M
               /\ new[j] = EntryFor(M, Append(u, new[j].name))
        <4> SUFFICES ASSUME NEW j \in 1 .. NumEntries, new[j] # NoEntry
                     PROVE  /\ Append(u, new[j].name) \in DOMAIN M
                            /\ new[j] = EntryFor(M, Append(u, new[j].name))
          OBVIOUS
        <4>1. j # i /\ new[j] = table[j]
          BY <3>5
        <4>2. Append(u, table[j].name) \in DOMAIN L /\ table[j] = EntryFor(L, Append(u, table[j].name))
          BY <3>1, <4>1 DEF Listing
        <4>3. Append(u, table[j].name) # p
          BY <3>4, <3>6, <3>7, <4>1
        <4> QED
          BY <1>2, <2>0, <4>1, <4>2, <4>3
      <3>9. ASSUME NEW n \in Names, Append(u, n) \in DOMAIN M
            PROVE  \E j \in 1 .. NumEntries : new[j] = EntryFor(M, Append(u, n))
        <4>1. Append(u, n) \in DOMAIN L /\ Append(u, n) # p
          BY <1>2, <3>9
        <4>2. PICK j \in 1 .. NumEntries : table[j] = EntryFor(L, Append(u, n))
          BY <3>1, <4>1 DEF Listing
        <4>3. table[j].name = n
          BY <1>1, <1>3, <4>1, <4>2, EntryForOK
        <4>4. j # i
          BY <1>3, <3>3, <4>1, <4>3
        <4> QED
          BY <2>0, <3>5, <3>9, <4>2, <4>4
      <3>10. \A j, k \in 1 .. NumEntries :
                new[j] # NoEntry /\ new[k] # NoEntry /\ new[j].name = new[k].name => j = k
        BY <3>1, <3>5 DEF Listing
      <3>11. Listing(M, u, new)
        BY <3>5, <3>8, <3>9, <3>10 DEF Listing
      <3> QED
        BY <3>2, <3>11
    <2> QED
      BY <1>2, <2>1, <2>2 DEF Listed
  <1>13. TableData(L[u]) \notin FreeMapSectors /\ \A s \in FreeMapSectors : e[s] = d[s]
    BY <1>4, <1>5, <1>6, <1>7 DEF u
  <1>14. BitmapOK(e)
    BY <1>1, <1>13 DEF BitmapOK, FreeMapSectors
  <1>15. Marked(e, M, Nothing)
    BY <1>1, <1>2, <1>13 DEF Marked, FreeMapSectors
  <1>16. Rep(e, M, Nothing)
    BY <1>8, <1>10, <1>11, <1>12, <1>14, <1>15 DEF Rep
  <1> QED
    BY <1>16 DEF M

-----------------------------------------------------------------------------
(* What a program can rely on while t is the path of an operation that is  *)
(* not completed: there is a layout of the disk, and the file that is open *)
(* is in it, with the headers that the descriptor caches.                  *)
OpenIn(L, desc, path) ==
    desc # NoFile => path \in DOMAIN L /\ ~L[path].dir /\ desc.headers = L[path].headers
StateOK(d, t, desc, path) == \E L : Rep(d, L, t) /\ OpenIn(L, desc, path)

(* The writes W take the disk d to one on which the operation is complete, *)
(* and are safe to cut short at any moment.                                *)
Proceeds(d, W, t, desc, path) ==
    /\ Writes(W) /\ W # <<>>
    /\ \A k \in 0 .. Len(W) - 1 : t # Root => StateOK(After(d, W, k), t, desc, path)
    /\ StateOK(After(d, W, Len(W)), Nothing, desc, path)

(* A path means the same on disk e with layout M as on d with L: the same  *)
(* item and, when it is a file, the same data.                             *)
SameAt(d, L, e, M, q) ==
    /\ q \in DOMAIN L <=> q \in DOMAIN M
    /\ q \in DOMAIN L =>
          /\ M[q] = L[q]
          /\ ~L[q].dir => \A s \in ToSet(SectorsOf(L[q].headers)) : e[s] = d[s]

(* Until the last of the writes, only t and what is below it may change.   *)
OthersKept(d, L, W, t) ==
    \A k \in 0 .. Len(W) - 1 : \E M :
        /\ Rep(After(d, W, k), M, t)
        /\ \A q \in Paths : ~IsPrefix(t, q) => SameAt(d, L, After(d, W, k), M, q)

(* What programs find in files is what programs write, or Junk.            *)
Blocks == Values \cup {Junk}
GoodSector(sector) == sector.type = "data" => sector.value \in Blocks
GoodDisk(d) == \A s \in Sectors : GoodSector(d[s])
GoodWrites(W) == \A i \in 1 .. Len(W) : GoodSector(W[i].is)

(* Headers, tables and the bitmap are no data of programs.                 *)
LEMMA NoData ==
    /\ \A table : GoodSector(TableSector(table))
    /\ \A marked : GoodSector(BitmapSector(marked))
    /\ \A header : header.type = "header" => GoodSector(header)
    /\ \A value \in Blocks : GoodSector(DataSector(value))
  <1>1. \A table : TableSector(table).type = "table"
    BY DEF TableSector
  <1>2. \A marked : BitmapSector(marked).type = "bitmap"
    BY DEF BitmapSector
  <1>3. \A value : DataSector(value).value = value
    BY DEF DataSector
  <1> QED
    BY <1>1, <1>2, <1>3 DEF GoodSector

(* Good writes leave a good disk.                                          *)
LEMMA GoodAfter ==
    ASSUME NEW d, GoodDisk(d), NEW W, GoodWrites(W), Len(W) \in Nat, NEW k \in 0 .. Len(W)
    PROVE  GoodDisk(After(d, W, k))
  <1> SUFFICES ASSUME NEW s \in Sectors PROVE GoodSector(After(d, W, k)[s])
    BY DEF GoodDisk
  <1>1. CASE After(d, W, k)[s] = d[s]
    BY <1>1 DEF GoodDisk
  <1>2. ASSUME NEW i \in 1 .. k, After(d, W, k)[s] = W[i].is PROVE GoodSector(After(d, W, k)[s])
    BY <1>2 DEF GoodWrites
  <1> QED
    BY <1>1, <1>2, AfterSome

(* A sequence of writes from what each of them is.                         *)
LEMMA WritesFromParts ==
    ASSUME NEW n \in Nat, NEW W, W = [i \in 1 .. n |-> W[i]],
           \A i \in 1 .. n : W[i].at \in Sectors
    PROVE  Writes(W) /\ Len(W) = n
  <1>1. PICK S : S = {W[i] : i \in 1 .. n}
    OBVIOUS
  <1>2. W \in [1 .. n -> S]
    BY <1>1
  <1>3. W \in Seq(S) /\ Len(W) = n
    BY <1>2
  <1>4. ToSet(W) = S
    BY <1>1, <1>2 DEF ToSet
  <1> QED
    BY <1>3, <1>4 DEF Writes

(* What is made for a file is a new item of the layout, on sectors that    *)
(* were clear.                                                             *)
ItemMade(F, s, new, item) ==
    /\ NewItem(item) /\ Own(item) \subseteq Clear(F) /\ Own(item) \subseteq new.marked
    /\ item.at[1] = s /\ F \subseteq new.marked
    /\ \A i, j \in 1 .. Len(item.at) : item.at[i] = item.at[j] => i = j
    /\ \A i \in 1 .. Len(item.at) : item.at[i] \in ToSet(item.at)
    /\ DOMAIN item.headers = 1 .. Len(item.at) /\ Len(item.at) \in Nat \ {0}
    /\ item.dir => TableData(item) \in Own(item) /\ TableData(item) \notin ToSet(item.at)

(* What Allocate makes is such an item.                                    *)
LEMMA MadeItem ==
    ASSUME NEW F, NEW s \in Clear(F), NEW size \in Nat, NEW new, NEW m, m = F \cup {s},
           Made(m, size, s, new),
           NEW item, item.at = AtOf(s, new.headers), item.headers = new.headers,
           item.dir \in BOOLEAN, item.dir => size = 1
    PROVE  ItemMade(F, s, new, item)
  <1> DEFINE at == AtOf(s, new.headers)
             file == SectorsOf(new.headers)
  <1>1. /\ F \cup {s} \subseteq new.marked
        /\ Linked(at, new.headers) /\ at[1] = s
        /\ file \in Seq(Sectors) /\ Len(file) = size
        /\ ToSet(file) \subseteq Clear(F \cup {s}) \cap new.marked
        /\ ToSet(at) \subseteq {s} \cup (Clear(F \cup {s}) \cap new.marked)
        /\ ToSet(at) \cap ToSet(file) = {}
        /\ \A i, j \in 1 .. Len(at) : at[i] = at[j] => i = j
    BY Zenon DEF Made
  <1>2. Clear(F \cup {s}) \subseteq Clear(F)
    BY DEF Clear
  <1>3. /\ item.at = at /\ item.headers = new.headers
        /\ Own(item) = ToSet(at) \cup ToSet(file)
    BY DEF Own
  <1>4. NewItem(item)
    BY <1>1, <1>3 DEF NewItem
  <1>5. Own(item) \subseteq Clear(F) /\ Own(item) \subseteq new.marked
    BY <1>1, <1>2, <1>3
  <1>6. /\ at \in Seq(Sectors) /\ Len(at) \in 1 .. NumSectors
        /\ new.headers = [i \in 1 .. Len(at) |-> new.headers[i]]
    BY <1>1 DEF Linked
  <1>7. DOMAIN new.headers = 1 .. Len(at)
    BY <1>6
  <1>8. Len(at) \in Nat \ {0} /\ \A i \in 1 .. Len(at) : at[i] \in ToSet(at)
    BY <1>6, FileSysAssumption DEF ToSet
  <1>9. ASSUME item.dir PROVE TableData(item) \in Own(item) /\ TableData(item) \notin ToSet(item.at)
    <2>1. 1 \in DOMAIN file /\ TableData(item) = file[1]
      BY <1>1, <1>3, <1>9 DEF TableData
    <2>2. TableData(item) \in ToSet(file)
      BY <2>1 DEF ToSet
    <2> QED
      BY <1>1, <1>3, <2>2
  <1> HIDE DEF at, file
  <1> QED
    BY <1>1, <1>3, <1>4, <1>5, <1>7, <1>8, <1>9 DEF ItemMade

(* The writes that make a new item known: its headers, the entry in the    *)
(* table of the directory above it, its own table, and the bitmap.         *)
EntryWrites(d, L, p, item, i, marked, W) ==
    LET n == Len(item.at)
        table == d[TableData(L[Front(p)])].table
    IN  /\ \A j \in 1 .. n : W[j] = [at |-> item.at[j], is |-> item.headers[j]]
        /\ W[n + 1] = [at |-> TableData(L[Front(p)]),
                       is |-> TableSector([table EXCEPT
                          ![i] = [name |-> Last(p), sector |-> item.at[1], dir |-> item.dir]])]
        /\ item.dir => W[n + 2] = [at |-> TableData(item), is |-> TableSector(EmptyTable)]
        /\ Len(W) = IF item.dir THEN n + 3 ELSE n + 2
        /\ W[Len(W)] = [at |-> FreeMapData, is |-> BitmapSector(marked)]

(* The entry is there, and nothing else has changed.                       *)
EntryMade(d, L, W, p, item) ==
    /\ Rep(After(d, W, Len(W)), With(L, p, item), Nothing)
    /\ \A q \in Paths : q # p => SameAt(d, L, After(d, W, Len(W)), With(L, p, item), q)

(* After any number of these writes there is a layout: the old one, the    *)
(* one with the new path in doubt, and in the end the one with it.         *)
LEMMA NewEntryProceeds ==
    ASSUME NEW d, NEW L, Rep(d, L, Nothing), Disk(d), NEW desc, NEW op, OpenIn(L, desc, op),
           NEW p \in Paths, p \notin DOMAIN L, Front(p) \in DOMAIN L, L[Front(p)].dir,
           NEW i \in FreeEntries(d[TableData(L[Front(p)])].table),
           NEW s \in Clear(FreeMap(d)), NEW size \in Nat, NEW new,
           Made(FreeMap(d) \cup {s}, size, s, new), NEW item, item.at = AtOf(s, new.headers), item.headers = new.headers,
           item.dir \in BOOLEAN, item.dir => size = 1,
           NEW W, Writes(W), EntryWrites(d, L, p, item, i, new.marked, W)
    PROVE  /\ Proceeds(d, W, p, desc, op) /\ GoodWrites(W)
           /\ OthersKept(d, L, W, p) /\ EntryMade(d, L, W, p, item)
  <1> DEFINE F == FreeMap(d)
             n == Len(item.at)
             T == TableData(L[Front(p)])
             table == d[T].table
             row == [name |-> Last(p), sector |-> item.at[1], dir |-> item.dir]
  <1>1. /\ NewItem(item) /\ Own(item) \subseteq Clear(F) /\ Own(item) \subseteq new.marked
        /\ item.at[1] = s /\ F \subseteq new.marked
        /\ \A a, b \in 1 .. n : item.at[a] = item.at[b] => a = b
        /\ \A a \in 1 .. n : item.at[a] \in ToSet(item.at)
        /\ n \in Nat \ {0}
        /\ item.dir => TableData(item) \in Own(item) /\ TableData(item) \notin ToSet(item.at)
    <2>1. ItemMade(FreeMap(d), s, new, item)
      BY MadeItem
    <2> QED
      BY <2>1 DEF ItemMade
  <1>2. /\ \A x \in Clear(F) : x \in Sectors /\ x \notin F
        /\ ToSet(item.at) \subseteq Own(item)
    BY DEF Clear, Own
  <1>3. /\ F = d[FreeMapData].marked /\ FreeMapData \in F /\ FreeMapSector \in F
        /\ FreeMapData \in Sectors /\ FreeMapSectors \subseteq Sectors /\ FreeMapSectors \subseteq F
        /\ d[FreeMapData].type = "bitmap"
    BY FreeMapRead DEF Rep, BitmapOK, FreeMapSectors
  <1>4. \A q \in DOMAIN L : Own(L[q]) \subseteq F /\ Own(L[q]) \cap FreeMapSectors = {}
                            /\ ItemOK(d, L[q])
    <2>1. Nothing \notin DOMAIN L
      BY PathsAreSequences DEF Rep, Shape
    <2> QED
      BY <1>3, <2>1 DEF Rep, Marked, Apart, Items
  <1>5. T \in Own(L[Front(p)]) /\ T \in F /\ T # FreeMapData /\ T # FreeMapSector /\ T \in Sectors
    <2>1. T \in Own(L[Front(p)]) /\ Own(L[Front(p)]) \subseteq Sectors
      BY <1>4, ItemRead
    <2> QED
      BY <1>4, <2>1 DEF FreeMapSectors
  <1>6. OpenIn(With(L, p, item), desc, op)
    BY DEF OpenIn, With
  <1>7. p # Root /\ p # Nothing /\ Nothing # Root
    BY PathsAreSequences
  <1>8. /\ \A j \in 1 .. n : W[j].at = item.at[j] /\ W[j].is = item.headers[j]
        /\ W[n + 1].at = T /\ W[n + 1].is = TableSector([table EXCEPT ![i] = row])
        /\ item.dir => W[n + 2].at = TableData(item) /\ W[n + 2].is = TableSector(EmptyTable)
        /\ Len(W) = IF item.dir THEN n + 3 ELSE n + 2
        /\ W[Len(W)].at = FreeMapData /\ W[Len(W)].is = BitmapSector(new.marked)
    <2>1. /\ \A j \in 1 .. n : W[j] = [at |-> item.at[j], is |-> item.headers[j]]
          /\ W[n + 1] = [at |-> T, is |-> TableSector([table EXCEPT ![i] = row])]
          /\ item.dir => W[n + 2] = [at |-> TableData(item), is |-> TableSector(EmptyTable)]
          /\ Len(W) = IF item.dir THEN n + 3 ELSE n + 2
          /\ W[Len(W)] = [at |-> FreeMapData, is |-> BitmapSector(new.marked)]
      BY Zenon DEF EntryWrites
    <2> HIDE DEF row, table, T, F, n
    <2>2. PICK R : R = TableSector([table EXCEPT ![i] = row])
      OBVIOUS
    <2>3. W[n + 1] = [at |-> T, is |-> R]
      BY <2>1, <2>2, Zenon
    <2>4. W[n + 1].at = T /\ W[n + 1].is = R
      BY <2>3
    <2>5. ASSUME NEW j \in 1 .. n PROVE W[j].at = item.at[j] /\ W[j].is = item.headers[j]
      <3>1. PICK x, y : x = item.at[j] /\ y = item.headers[j]
        OBVIOUS
      <3>2. W[j] = [at |-> x, is |-> y]
        BY <2>1, <3>1, Zenon
      <3> QED
        BY <3>1, <3>2
    <2>6. item.dir => W[n + 2].at = TableData(item) /\ W[n + 2].is = TableSector(EmptyTable)
      BY <2>1
    <2>7. W[Len(W)].at = FreeMapData /\ W[Len(W)].is = BitmapSector(new.marked)
      BY <2>1
    <2> QED
      BY <2>1, <2>2, <2>4, <2>5, <2>6, <2>7, Zenon
  <1> HIDE DEF row, table, T, F, n
  (* Where a write goes says which write it is. *)
  <1>9. ASSUME NEW k \in 1 .. Len(W)
        PROVE  \/ k \in 1 .. n /\ W[k].at = item.at[k] /\ W[k].at \in ToSet(item.at)
                  /\ W[k].at \in Own(item)
               \/ k = n + 1 /\ W[k].at = T
               \/ k = n + 2 /\ item.dir /\ W[k].at = TableData(item) /\ W[k].at \in Own(item)
                  /\ W[k].at \notin ToSet(item.at)
               \/ k = Len(W) /\ W[k].at = FreeMapData /\ Len(W) > n + 1
    <2>1. k \in 1 .. n \/ k = n + 1 \/ (k = n + 2 /\ item.dir) \/ k = Len(W)
      BY <1>1, <1>8
    <2>2. CASE k \in 1 .. n
      BY <1>1, <1>2, <1>8, <2>2
    <2>3. CASE k = n + 1
      BY <1>8, <2>3
    <2>4. CASE k = n + 2 /\ item.dir
      BY <1>1, <1>8, <2>4
    <2>5. CASE k = Len(W)
      <3>1. Len(W) > n + 1
        BY <1>1, <1>8
      <3> QED
        BY <1>8, <2>5, <3>1
    <2> QED
      BY <2>1, <2>2, <2>3, <2>4, <2>5
  <1>10. \A x \in Own(item) : x \notin F /\ x # T /\ x # FreeMapData /\ x \in Sectors
    BY <1>1, <1>2, <1>3, <1>5
  <1>11. Len(W) \in Nat /\ Len(W) > n + 1 /\ W # <<>>
    BY <1>1, <1>8
  (* Only headers were written. *)
  <1>12. ASSUME NEW k \in 0 .. n PROVE Rep(After(d, W, k), L, p)
    <2> DEFINE e == After(d, W, k)
    <2>1. \A x \in F : x \in Sectors => e[x] = d[x]
      <3> SUFFICES ASSUME NEW x \in F, x \in Sectors PROVE e[x] = d[x]
        OBVIOUS
      <3>1. \A j \in 1 .. k : W[j].at # x
        BY <1>1, <1>8, <1>2, <1>10
      <3>2. k \in Nat
        BY <1>1
      <3> QED
        BY <3>1, <3>2, AfterKept
    <2> HIDE DEF e
    <2>2. \A q \in DOMAIN L : \A x \in ToSet(L[q].at) : e[x] = d[x]
      <3> SUFFICES ASSUME NEW q \in DOMAIN L, NEW x \in ToSet(L[q].at) PROVE e[x] = d[x]
        OBVIOUS
      <3>1. x \in Own(L[q]) /\ Own(L[q]) \subseteq Sectors
        BY <1>4, ItemRead DEF Own
      <3> QED
        BY <1>4, <2>1, <3>1
    <2>3. \A q \in DOMAIN L : L[q].dir /\ q # Nothing => e[TableData(L[q])] = d[TableData(L[q])]
      <3> SUFFICES ASSUME NEW q \in DOMAIN L, L[q].dir
                   PROVE  e[TableData(L[q])] = d[TableData(L[q])]
        OBVIOUS
      <3>1. TableData(L[q]) \in Own(L[q]) /\ Own(L[q]) \subseteq Sectors
        BY <1>4, ItemRead
      <3> QED
        BY <1>4, <2>1, <3>1
    <2>4. \A x \in FreeMapSectors : e[x] = d[x]
      BY <1>3, <2>1
    <2>5. Rep(e, L, Nothing)
      BY <2>2, <2>3, <2>4, LayoutKept
    <2>6. Rep(e, L, p)
      BY <2>5, LayoutWeaker
    <2> QED
      BY <2>6 DEF e
  (* The entry was written too. *)
  <1>13. ASSUME NEW k \in n + 1 .. Len(W)
         PROVE  /\ \A j \in 1 .. n : After(d, W, k)[item.at[j]] = item.headers[j]
                /\ \A x \in F : x # T /\ x # FreeMapData /\ x \in Sectors => After(d, W, k)[x] = d[x]
                /\ After(d, W, k)[T] = TableSector([table EXCEPT ![i] = row])
    <2>1. k \in Nat /\ n + 1 \in 1 .. k
      BY <1>1, <1>11
    <2>2. ASSUME NEW j \in 1 .. n PROVE After(d, W, k)[item.at[j]] = item.headers[j]
      <3>1. j \in 1 .. k /\ W[j].at = item.at[j] /\ W[j].is = item.headers[j]
        BY <1>1, <1>8, <1>11, <2>1
      <3>2. W[j].at \in Sectors /\ W[j].at \in Own(item) /\ W[j].at \in ToSet(item.at)
        BY <1>1, <1>2, <3>1
      <3>3. ASSUME NEW h \in 1 .. k, W[h].at = W[j].at PROVE h <= j
        <4>1. h \in 1 .. Len(W)
          BY <1>11
        <4>2. h \in 1 .. n /\ W[h].at = item.at[h]
          BY <1>9, <1>10, <3>2, <3>3, <4>1
        <4>3. h = j
          BY <1>1, <3>1, <3>3, <4>2
        <4> QED
          BY <4>3
      <3> QED
        BY <2>1, <3>1, <3>2, <3>3, AfterLast
    <2>3. ASSUME NEW x \in F, x # T, x # FreeMapData, x \in Sectors
          PROVE  After(d, W, k)[x] = d[x]
      <3>1. \A h \in 1 .. k : W[h].at # x
        <4> SUFFICES ASSUME NEW h \in 1 .. k, W[h].at = x PROVE FALSE
          OBVIOUS
        <4>1. h \in 1 .. Len(W)
          BY <1>11
        <4> QED
          BY <1>9, <1>10, <2>3, <4>1
      <3> QED
        BY <2>1, <2>3, <3>1, AfterKept
    <2>4. After(d, W, k)[T] = TableSector([table EXCEPT ![i] = row])
      <3>1. ASSUME NEW h \in 1 .. k, W[h].at = W[n + 1].at PROVE h <= n + 1
        <4>1. h \in 1 .. Len(W) /\ W[h].at = T
          BY <1>8, <1>11, <3>1
        <4>2. h \in 1 .. n \/ h = n + 1
          BY <1>5, <1>9, <1>10, <4>1
        <4> QED
          BY <1>1, <4>2
      <3>2. W[n + 1].at = T /\ T \in Sectors /\ W[n + 1].is = TableSector([table EXCEPT ![i] = row])
        BY <1>5, <1>8
      <3>3. After(d, W, k)[W[n + 1].at] = W[n + 1].is
        BY <2>1, <3>1, <3>2, AfterLast
      <3> QED
        BY <3>2, <3>3
    <2> QED
      BY <2>2, <2>3, <2>4
  <1>14. ASSUME NEW k \in n + 1 .. Len(W),
                After(d, W, k)[FreeMapData].type = "bitmap",
                F \subseteq After(d, W, k)[FreeMapData].marked
         PROVE  Added(d, After(d, W, k), L, p, item, i)
    BY <1>13, <1>14 DEF Added, F, T, n, table, row
  <1>15. Own(item) \cap FreeMap(d) = {}
    BY <1>10 DEF F
  <1>16. i \in FreeEntries(d[TableData(L[Front(p)])].table)
    OBVIOUS
  (* Before the last write the bitmap is what it was. *)
  <1>17. ASSUME NEW k \in n + 1 .. Len(W) - 1 PROVE Rep(After(d, W, k), With(L, p, item), p)
    <2>1. k \in Nat /\ k \in n + 1 .. Len(W)
      BY <1>1, <1>11
    <2>2. \A h \in 1 .. k : W[h].at # FreeMapData
      <3> SUFFICES ASSUME NEW h \in 1 .. k, W[h].at = FreeMapData PROVE FALSE
        OBVIOUS
      <3>1. h \in 1 .. Len(W) /\ h # Len(W)
        BY <1>11
      <3> QED
        BY <1>5, <1>9, <1>10, <3>1
    <2>3. After(d, W, k)[FreeMapData] = d[FreeMapData]
      BY <1>3, <2>1, <2>2, AfterKept
    <2>4. Added(d, After(d, W, k), L, p, item, i)
      BY <1>3, <1>14, <2>1, <2>3
    <2> QED
      BY <1>1, <1>15, <2>4, ItemAdded
  <1>18. Rep(After(d, W, Len(W)), With(L, p, item), Nothing)
    <2> DEFINE k == Len(W)
               e == After(d, W, k)
    <2>1. k \in Nat /\ k \in 1 .. k /\ k \in n + 1 .. Len(W)
      BY <1>1, <1>11
    <2>2. e[FreeMapData] = BitmapSector(new.marked)
      <3>1. W[k].at = FreeMapData /\ W[k].is = BitmapSector(new.marked)
        BY <1>8
      <3>2. \A h \in 1 .. k : W[h].at = W[k].at => h <= k
        BY <2>1
      <3>3. After(d, W, k)[W[k].at] = W[k].is
        BY <1>3, <2>1, <3>1, <3>2, AfterLast
      <3> QED
        BY <3>1, <3>3
    <2>3. e[FreeMapData].type = "bitmap" /\ e[FreeMapData].marked = new.marked
      BY <2>2 DEF BitmapSector
    <2>4. Added(d, e, L, p, item, i)
      BY <1>1, <1>14, <2>1, <2>3
    <2>5. ASSUME item.dir PROVE e[TableData(item)] = TableSector(EmptyTable)
      <3>1. /\ n + 2 \in 1 .. k /\ W[n + 2].at = TableData(item)
            /\ W[n + 2].is = TableSector(EmptyTable) /\ k = n + 3
        BY <1>1, <1>8, <2>5
      <3>2. /\ TableData(item) \in Own(item) /\ TableData(item) \notin ToSet(item.at)
            /\ TableData(item) \in Sectors
        BY <1>1, <1>10, <2>5
      <3>3. ASSUME NEW h \in 1 .. k, W[h].at = W[n + 2].at PROVE h <= n + 2
        <4>1. h \in 1 .. Len(W) /\ W[h].at = TableData(item)
          BY <3>1, <3>3
        <4>2. h = n + 2
          BY <1>9, <1>10, <3>2, <4>1
        <4> QED
          BY <1>1, <4>2
      <3>4. After(d, W, k)[W[n + 2].at] = W[n + 2].is
        BY <2>1, <3>1, <3>2, <3>3, AfterLast
      <3> QED
        BY <3>1, <3>4
    <2>6. Complete(e, item)
      <3>1. Own(item) \subseteq e[FreeMapData].marked
        BY <1>1, <2>3
      <3>2. item.dir => e[TableData(item)] = TableSector(EmptyTable)
        BY <1>1, <2>5
      <3> HIDE DEF e
      <3> QED
        BY <3>1, <3>2 DEF Complete
    <2> QED
      BY <1>1, <1>15, <2>4, <2>6, ItemAdded
  <1>19. ASSUME NEW k \in 0 .. Len(W) - 1 PROVE StateOK(After(d, W, k), p, desc, op)
    <2>1. CASE k \in 0 .. n
      BY <1>12, <2>1 DEF StateOK
    <2>2. CASE k \in n + 1 .. Len(W) - 1
      BY <1>6, <1>17, <2>2 DEF StateOK
    <2> QED
      BY <1>1, <1>11, <2>1, <2>2
  <1>20. StateOK(After(d, W, Len(W)), Nothing, desc, op)
    BY <1>6, <1>18 DEF StateOK
  <1>21. Proceeds(d, W, p, desc, op)
    BY <1>11, <1>19, <1>20 DEF Proceeds
  (* No file but the new one has other data than before. *)
  <1>22. ASSUME NEW k \in 0 .. Len(W), NEW q \in DOMAIN L, ~L[q].dir,
                NEW x \in ToSet(SectorsOf(L[q].headers))
         PROVE  After(d, W, k)[x] = d[x]
    <2>1. x \in Own(L[q]) /\ Own(L[q]) \subseteq Sectors
      BY <1>4, ItemRead DEF Own
    <2>2. x \in F /\ x # FreeMapData /\ x \in Sectors
      BY <1>4, <2>1 DEF FreeMapSectors
    <2>3. x # T
      <3>1. q # Front(p) => Own(L[q]) \cap Own(L[Front(p)]) = {}
        BY DEF Rep, Apart
      <3> QED
        BY <1>5, <1>22, <2>1, <3>1
    <2>4. \A h \in 1 .. k : W[h].at # x
      <3> SUFFICES ASSUME NEW h \in 1 .. k, W[h].at = x PROVE FALSE
        OBVIOUS
      <3>1. h \in 1 .. Len(W)
        BY <1>11
      <3> QED
        BY <1>9, <1>10, <2>2, <2>3, <3>1
    <2>5. k \in Nat
      BY <1>11
    <2> QED
      BY <2>2, <2>4, <2>5, AfterKept
  <1>23. ASSUME NEW k \in 0 .. Len(W), NEW q \in Paths, q # p
         PROVE  /\ SameAt(d, L, After(d, W, k), L, q)
                /\ SameAt(d, L, After(d, W, k), With(L, p, item), q)
    <2>1. /\ q \in DOMAIN With(L, p, item) <=> q \in DOMAIN L
          /\ q \in DOMAIN L => With(L, p, item)[q] = L[q]
      BY <1>23 DEF With
    <2> QED
      BY <1>22, <2>1 DEF SameAt
  <1>24. OthersKept(d, L, W, p)
    <2> SUFFICES ASSUME NEW k \in 0 .. Len(W) - 1
                 PROVE  \E M : /\ Rep(After(d, W, k), M, p)
                               /\ \A q \in Paths : ~IsPrefix(p, q) =>
                                     SameAt(d, L, After(d, W, k), M, q)
      BY DEF OthersKept
    <2>1. \A q \in Paths : ~IsPrefix(p, q) => q # p
      <3>1. p \in Seq(Names) /\ Len(p) \in 0 .. Len(p) /\ UpTo(p, Len(p)) = p
        BY PathsAreSequences, WholeAndEmpty
      <3> QED
        BY <3>1, IsPrefixOK
    <2>2. k \in 0 .. Len(W)
      BY <1>11
    <2>3. CASE k \in 0 .. n
      BY <1>12, <1>23, <2>1, <2>2, <2>3
    <2>4. CASE k \in n + 1 .. Len(W) - 1
      BY <1>17, <1>23, <2>1, <2>2, <2>4
    <2> QED
      BY <1>1, <1>11, <2>3, <2>4
  <1>25. EntryMade(d, L, W, p, item)
    <2>1. Len(W) \in 0 .. Len(W)
      BY <1>11
    <2> QED
      BY <1>18, <1>23, <2>1 DEF EntryMade
  <1>26. GoodWrites(W)
    <2> SUFFICES ASSUME NEW k \in 1 .. Len(W) PROVE GoodSector(W[k].is)
      BY DEF GoodWrites
    <2>1. k \in 1 .. n \/ k = n + 1 \/ (k = n + 2 /\ item.dir) \/ k = Len(W)
      BY <1>1, <1>8
    <2>2. CASE k \in 1 .. n
      <3>1. item.headers[k].type = "header"
        BY <1>1, <2>2 DEF NewItem, Linked, n
      <3> QED
        BY <1>8, <2>2, <3>1, NoData
    <2>3. CASE k # Len(W) /\ k \notin 1 .. n
      BY <1>8, <2>1, <2>3, NoData
    <2>4. CASE k = Len(W)
      BY <1>8, <2>4, NoData
    <2> QED
      BY <2>2, <2>3, <2>4
  <1> QED
    BY <1>21, <1>24, <1>25, <1>26

(* A path that exists, below directories only, is in the layout.           *)
InDirectories(d, p) ==
    \A i \in 1 .. Len(p) - 1 : Exists(d, UpTo(p, i)) => IsDirectory(d, UpTo(p, i))

(* A path that exists below directories is in the layout.                  *)
LEMMA ExistingInLayout ==
    ASSUME NEW d, NEW L, Rep(d, L, Nothing), NEW p \in Paths \cup {Root},
           Exists(d, p), InDirectories(d, p)
    PROVE  p \in DOMAIN L
  <1>1. CASE p = Root
    BY <1>1 DEF Rep, Shape
  <1>2. CASE p # Root
    <2>1. p \in Paths /\ p \in Seq(Names) /\ Nothing \notin Paths \cup {Root}
      BY <1>2, PathsAreSequences DEF Paths
    <2>2. ASSUME NEW i \in 1 .. Len(p) - 1 PROVE UpTo(p, i) # Nothing
      <3>1. i \in 0 .. Len(p) /\ Len(p) \in 0 .. MaxDepth /\ MaxDepth \in Nat
        BY <2>1, PathsAreSequences, FileSysAssumption
      <3>2. UpTo(p, i) \in Seq(Names) /\ Len(UpTo(p, i)) = i
        BY <2>1, <3>1, PrefixOK
      <3>3. UpTo(p, i) \in Paths \cup {Root}
        BY <3>1, <3>2, PathsAreSequences
      <3> QED
        BY <2>1, <3>3
    <2>3. Nothing # Root
      BY <2>1
    <2> SUFFICES ASSUME p \notin DOMAIN L PROVE FALSE
      OBVIOUS
    <2>4. ~Exists(d, p)
      BY <2>1, <2>2, <2>3, PathNotFound DEF InDirectories
    <2> QED
      BY <2>4
  <1> QED
    BY <1>1, <1>2

(* What the commands find out about a path before they write.              *)
LEMMA ParentInLayout ==
    ASSUME NEW L, Rep(disk, L, Nothing), NEW p \in Paths, ProperPath(p)
    PROVE  /\ InDirectories(disk, p)
           /\ Exists(disk, p) <=> p \in DOMAIN L
           /\ Exists(disk, Front(p)) => Front(p) \in DOMAIN L /\ L[Front(p)].dir
           /\ Exists(disk, p) => Exists(disk, Front(p))
  <1>1. /\ p \in Seq(Names) /\ Len(p) \in 1 .. MaxDepth /\ MaxDepth \in Nat
        /\ Front(p) = UpTo(p, Len(p) - 1) /\ Front(p) \in Paths \cup {Root}
        /\ Len(Front(p)) = Len(p) - 1
    BY FrontOK, FileSysAssumption
  <1>2. InDirectories(disk, p)
    BY DEF ProperPath, InDirectories, UpTo
  <1>3. Exists(disk, p) <=> p \in DOMAIN L
    BY <1>2, ExistingInLayout, PathFound
  <1>4. ASSUME Exists(disk, Front(p))
        PROVE  Front(p) \in DOMAIN L /\ L[Front(p)].dir
    <2>1. \A i \in 1 .. Len(p) - 2 : UpTo(Front(p), i) = UpTo(p, i)
      <3> SUFFICES ASSUME NEW i \in 1 .. Len(p) - 2 PROVE UpTo(Front(p), i) = UpTo(p, i)
        OBVIOUS
      <3>1. Len(p) - 1 \in 0 .. Len(p) /\ i \in 0 .. Len(p) - 1
        BY <1>1
      <3> QED
        BY <1>1, <3>1, PrefixOK
    <2>2. InDirectories(disk, Front(p))
      <3>1. \A i \in 1 .. Len(p) - 2 :
               Exists(disk, UpTo(p, i)) => IsDirectory(disk, UpTo(p, i))
        BY <1>1, <1>2 DEF InDirectories
      <3>2. Len(Front(p)) - 1 = Len(p) - 2
        BY <1>1
      <3> QED
        BY <2>1, <3>1, <3>2 DEF InDirectories
    <2>3. Front(p) \in DOMAIN L
      BY <1>1, <1>4, <2>2, ExistingInLayout
    <2>4. IsDirectory(disk, Front(p))
      <3>1. CASE Len(p) = 1
        <4>1. Front(p) = Root
          BY <1>1, <3>1, WholeAndEmpty
        <4> QED
          BY <4>1 DEF IsDirectory
      <3>2. CASE Len(p) # 1
        <4>1. Len(p) - 1 \in 1 .. Len(p) - 1
          BY <1>1, <3>2
        <4> QED
          BY <1>1, <1>2, <1>4, <4>1 DEF InDirectories
      <3> QED
        BY <3>1, <3>2
    <2> QED
      BY <2>3, <2>4, PathFound
  <1>5. ASSUME Exists(disk, p) PROVE Exists(disk, Front(p))
    <2>1. p \in DOMAIN L
      BY <1>3, <1>5
    <2>2. Len(p) - 1 \in 0 .. Len(p) - 1
      BY <1>1
    <2>3. Front(p) \in DOMAIN L
      BY <1>1, <2>1, <2>2 DEF Rep, Shape
    <2> QED
      BY <2>3, PathFound
  <1> QED
    BY <1>2, <1>3, <1>4, <1>5

(* A sequence, one more element, perhaps another, and a last one.          *)
LEMMA OneMore ==
    ASSUME NEW S, NEW A \in Seq(S), NEW b \in S
    PROVE  /\ A \o <<b>> \in Seq(S) /\ Len(A \o <<b>>) = Len(A) + 1
           /\ \A i \in 1 .. Len(A) : (A \o <<b>>)[i] = A[i]
           /\ (A \o <<b>>)[Len(A) + 1] = b
           /\ A \o <<>> = A
  <1>1. A \o <<b>> \in Seq(S) /\ Len(A \o <<b>>) = Len(A) + 1
    OBVIOUS
  <1>2. \A i \in 1 .. Len(A) : (A \o <<b>>)[i] = A[i]
    OBVIOUS
  <1>3. (A \o <<b>>)[Len(A) + 1] = b
    OBVIOUS
  <1>4. A \o <<>> = A
    OBVIOUS
  <1> QED
    BY <1>1, <1>2, <1>3, <1>4

Joined(W, A, b, C, z) == W = A \o <<b>> \o C \o <<z>>

(* Two elements more.                                                      *)
LEMMA TwoMore ==
    ASSUME NEW S, NEW A \in Seq(S), NEW b \in S, NEW z \in S,
           NEW W, Joined(W, A, b, <<>>, z)
    PROVE  /\ W \in Seq(S) /\ Len(W) = Len(A) + 2 /\ \A i \in 1 .. Len(A) : W[i] = A[i]
           /\ W[Len(A) + 1] = b /\ W[Len(A) + 2] = z
  <1>1. PICK B : B = A \o <<b>>
    OBVIOUS
  <1>2. /\ B \in Seq(S) /\ Len(B) = Len(A) + 1 /\ B[Len(A) + 1] = b
        /\ \A i \in 1 .. Len(A) : B[i] = A[i]
    BY <1>1, OneMore
  <1>3. W = B \o <<z>>
    <2>1. B \o <<>> = B
      BY <1>2, OneMore
    <2> QED
      BY <1>1, <2>1 DEF Joined
  <1>4. /\ W \in Seq(S) /\ Len(W) = Len(B) + 1 /\ W[Len(B) + 1] = z
        /\ \A i \in 1 .. Len(B) : W[i] = B[i]
    BY <1>2, <1>3, OneMore
  <1> QED
    BY <1>2, <1>4

(* Three elements more.                                                    *)
LEMMA ThreeMore ==
    ASSUME NEW S, NEW A \in Seq(S), NEW b \in S, NEW c \in S, NEW z \in S,
           NEW W, Joined(W, A, b, <<c>>, z)
    PROVE  /\ W \in Seq(S) /\ Len(W) = Len(A) + 3 /\ \A i \in 1 .. Len(A) : W[i] = A[i]
           /\ W[Len(A) + 1] = b /\ W[Len(A) + 2] = c /\ W[Len(A) + 3] = z
  <1>1. PICK B : B = A \o <<b>>
    OBVIOUS
  <1>2. /\ B \in Seq(S) /\ Len(B) = Len(A) + 1 /\ B[Len(A) + 1] = b
        /\ \A i \in 1 .. Len(A) : B[i] = A[i]
    BY <1>1, OneMore
  <1>3. Joined(W, B, c, <<>>, z)
    <2>1. B \o <<c>> \in Seq(S)
      BY <1>2, OneMore
    <2>2. B \o <<c>> \o <<>> = B \o <<c>>
      BY <2>1, OneMore
    <2> QED
      BY <1>1, <2>2 DEF Joined
  <1>4. /\ W \in Seq(S) /\ Len(W) = Len(B) + 2 /\ \A i \in 1 .. Len(B) : W[i] = B[i]
        /\ W[Len(B) + 1] = c /\ W[Len(B) + 2] = z
    BY <1>2, <1>3, TwoMore
  <1>5. Len(A) \in Nat
    OBVIOUS
  <1>6. \A i \in 1 .. Len(A) : W[i] = A[i]
    BY <1>2, <1>4, <1>5
  <1>7. /\ W[Len(A) + 1] = b /\ W[Len(A) + 2] = c /\ W[Len(A) + 3] = z
    BY <1>2, <1>4, <1>5
  <1> QED
    BY <1>2, <1>4, <1>5, <1>6, <1>7

(* What the writes come to: a new item of that kind and size.              *)
EntryPlanned(L, p, size, dir, W) ==
    /\ GoodWrites(W) /\ OthersKept(disk, L, W, p)
    /\ p \notin DOMAIN L /\ Front(p) \in DOMAIN L /\ L[Front(p)].dir
    /\ \E item : /\ item.dir = dir
                 /\ SectorsOf(item.headers) \in Seq(Sectors) /\ Len(SectorsOf(item.headers)) = size
                 /\ EntryMade(disk, L, W, p, item)

(* The writes of Create and of CreateDirectory.                            *)
LEMMA CreateProceeds ==
    ASSUME NEW L, Rep(disk, L, Nothing), Disk(disk), OpenIn(L, descriptor, opened),
           NEW p \in Paths, ProperPath(p), ~NameTaken(p),
           NEW size \in Nat, HasRoom(p, size),
           NEW dir \in BOOLEAN, dir => size = DirectorySize,
           NEW contents, contents = IF dir THEN NewTableWrite ELSE <<>>
    PROVE  /\ Proceeds(disk, NewEntryWrites(p, size, dir, contents), p, descriptor, opened)
           /\ EntryPlanned(L, p, size, dir, NewEntryWrites(p, size, dir, contents))
  <1>1. /\ p \notin DOMAIN L /\ Front(p) \in DOMAIN L /\ L[Front(p)].dir
    BY ParentInLayout DEF NameTaken
  <1> DEFINE u == Front(p)
             item == [at |-> AtOf(FindAndSet(FreeMap(disk)), Allocation(size).headers),
                      headers |-> Allocation(size).headers, dir |-> dir]
             table == disk[TableData(L[u])].table
             i == Min(FreeEntries(table))
             A == HeaderWrites(FindAndSet(FreeMap(disk)), Allocation(size).headers)
             b == TableWrite(disk, u, Add(ParentTable(p), Last(p), FindAndSet(FreeMap(disk)), dir))
             z == FreeMapWrite(disk, Allocation(size).marked)
             W == NewEntryWrites(p, size, dir, contents)
  <1>2. PICK s : s = FindAndSet(FreeMap(disk))
    OBVIOUS
  <1>3. PICK new : new = Allocation(size)
    OBVIOUS
  <1>4. s \in Clear(FreeMap(disk)) /\ s \in Sectors
    BY <1>2, FindAndSetOK DEF HasRoom, Clear
  <1>5. Made(FreeMap(disk) \cup {s}, size, s, new)
    <2>1. PICK m : m = FreeMap(disk) \cup {s}
      OBVIOUS
    <2>2. new = Allocate(m, size) /\ Allocate(m, size).ok
      BY <1>2, <1>3, <2>1 DEF Allocation, MarkedWithHeader, HasRoom
    <2>3. Made(m, size, s, Allocate(m, size))
      BY <1>4, <2>1, <2>2, AllocateOK
    <2> QED
      BY <2>1, <2>2, <2>3
  <1>6. /\ item.at = AtOf(s, new.headers) /\ item.headers = new.headers
        /\ item.dir = dir
    BY <1>2, <1>3
  <1>7. TableAt(disk, Lookup(disk, u)) = table /\ TableSectorOf(disk, Lookup(disk, u)) = TableData(L[u])
        /\ table \in Tables
    <2>1. /\ ItemOK(disk, L[u]) /\ u # Nothing
          /\ disk[TableData(L[u])].type = "table" /\ Listing(L, u, disk[TableData(L[u])].table)
      BY <1>1, PathsAreSequences DEF Rep, Shape, Items, Listed
    <2>2. Lookup(disk, u) = L[u].at[1] /\ FetchFrom(disk, Lookup(disk, u)) = L[u].headers
      BY <1>1, PathFound
    <2>3. TableSectorOf(disk, Lookup(disk, u)) = TableData(L[u])
      BY <2>2 DEF TableSectorOf, TableData
    <2> QED
      BY <1>1, <2>1, <2>2, <2>3, TableRead DEF Listing
  <1> HIDE DEF item, table
  <1>8. i \in FreeEntries(table)
    <2>1. DOMAIN table = 1 .. NumEntries /\ FreeEntries(table) # {}
      BY <1>7 DEF Tables, HasRoom, ParentTable
    <2>2. FreeEntries(table) \in SUBSET Nat
      BY <2>1 DEF FreeEntries
    <2> QED
      BY <2>1, <2>2, MinOK
  <1>9. /\ NewItem(item) /\ Own(item) \subseteq Clear(FreeMap(disk))
        /\ item.at[1] = s
        /\ DOMAIN item.headers = 1 .. Len(item.at) /\ Len(item.at) \in Nat \ {0}
        /\ \A j \in 1 .. Len(item.at) : item.at[j] \in ToSet(item.at)
        /\ item.dir => TableData(item) \in Own(item)
    <2>1. item.dir \in BOOLEAN /\ (item.dir => size = 1)
      BY <1>6 DEF DirectorySize
    <2>2. ItemMade(FreeMap(disk), s, new, item)
      BY <1>4, <1>5, <1>6, <2>1, MadeItem
    <2> QED
      BY <2>2 DEF ItemMade
  (* The writes one by one. *)
  <1>10. b = [at |-> TableData(L[u]),
              is |-> TableSector([table EXCEPT
                       ![i] = [name |-> Last(p), sector |-> item.at[1], dir |-> item.dir]])]
    BY <1>2, <1>6, <1>7, <1>9 DEF TableWrite, ParentTable, Add
  <1>11. z = [at |-> FreeMapData, is |-> BitmapSector(new.marked)]
    BY <1>3, FreeMapRead DEF Rep
  <1>12. A = [j \in 1 .. Len(item.at) |-> [at |-> item.at[j], is |-> item.headers[j]]]
    <2>1. A = [j \in DOMAIN new.headers |->
                 [at |-> IF j = 1 THEN s ELSE new.headers[j - 1].next, is |-> new.headers[j]]]
      BY <1>2, <1>3 DEF HeaderWrites
    <2>2. DOMAIN new.headers = 1 .. Len(item.at)
      BY <1>6, <1>9
    <2>3. \A j \in DOMAIN new.headers :
             item.at[j] = IF j = 1 THEN s ELSE new.headers[j - 1].next
      BY <1>6 DEF AtOf
    <2> QED
      BY <1>6, <2>1, <2>2, <2>3
  <1>13. dir => contents = <<[at |-> TableData(item), is |-> TableSector(EmptyTable)]>>
    BY <1>3, <1>6 DEF NewTableWrite, TableData, DirectorySize
  <1> DEFINE c == [at |-> TableData(item), is |-> TableSector(EmptyTable)]
             n == Len(item.at)
  <1>14. Joined(W, A, b, IF dir THEN <<c>> ELSE <<>>, z)
    BY <1>13 DEF Joined, NewEntryWrites
  <1>15. b.at = TableData(L[u]) /\ z.at = FreeMapData /\ c.at = TableData(item)
    <2>1. PICK x : x = TableSector([table EXCEPT
                       ![i] = [name |-> Last(p), sector |-> item.at[1], dir |-> item.dir]])
      OBVIOUS
    <2>2. b = [at |-> TableData(L[u]), is |-> x]
      BY <1>10, <2>1, Zenon
    <2> HIDE DEF b, z
    <2>3. z.at = FreeMapData
      BY <1>11
    <2> QED
      BY <2>2, <2>3
  <1> HIDE DEF A, b, z, c, W, i, u
  <1>16. PICK S : S = {A[j] : j \in 1 .. n} \cup {b, c, z}
    OBVIOUS
  <1> HIDE DEF n
  <1>17. A \in Seq(S) /\ Len(A) = n /\ b \in S /\ c \in S /\ z \in S /\ n \in Nat \ {0}
    <2>1. A = [j \in 1 .. n |-> A[j]]
      BY <1>12 DEF n
    <2>2. A \in [1 .. n -> S]
      BY <1>16, <2>1
    <2>3. n \in Nat \ {0}
      BY <1>9 DEF n
    <2> QED
      BY <1>16, <2>2, <2>3
  <1>18. /\ W \in Seq(S) /\ Len(W) = IF dir THEN n + 3 ELSE n + 2
         /\ \A j \in 1 .. n : W[j] = A[j]
         /\ W[n + 1] = b /\ W[Len(W)] = z /\ (dir => W[n + 2] = c)
    <2>1. CASE dir
      <3>1. Joined(W, A, b, <<c>>, z)
        BY <1>14, <2>1
      <3> QED
        BY <1>17, <2>1, <3>1, ThreeMore
    <2>2. CASE ~dir
      <3>1. Joined(W, A, b, <<>>, z)
        BY <1>14, <2>2
      <3> QED
        BY <1>17, <2>2, <3>1, TwoMore
    <2> QED
      BY <2>1, <2>2
  <1>19. \A j \in 1 .. n : A[j] = [at |-> item.at[j], is |-> item.headers[j]]
    BY <1>12 DEF n
  <1>20. EntryWrites(disk, L, p, item, i, new.marked, W)
    <2>1. \A j \in 1 .. n : W[j] = [at |-> item.at[j], is |-> item.headers[j]]
      BY <1>18, <1>19, Zenon
    <2>2. W[n + 1] = [at |-> TableData(L[Front(p)]),
                      is |-> TableSector([disk[TableData(L[Front(p)])].table EXCEPT
                        ![i] = [name |-> Last(p), sector |-> item.at[1], dir |-> item.dir]])]
      BY <1>10, <1>18, Zenon DEF u, table
    <2>3. item.dir => W[n + 2] = [at |-> TableData(item), is |-> TableSector(EmptyTable)]
      BY <1>6, <1>18, Zenon DEF c
    <2>4. Len(W) = IF item.dir THEN n + 3 ELSE n + 2
      BY <1>6, <1>18, Zenon
    <2>5. W[Len(W)] = [at |-> FreeMapData, is |-> BitmapSector(new.marked)]
      BY <1>11, <1>18, Zenon
    <2> QED
      BY <2>1, <2>2, <2>3, <2>4, <2>5, Zenon DEF EntryWrites, n
  <1>21. Writes(W)
    <2>1. \A j \in 1 .. n : A[j].at \in Sectors
      <3> SUFFICES ASSUME NEW j \in 1 .. n PROVE A[j].at \in Sectors
        OBVIOUS
      <3>1. A[j] = [at |-> item.at[j], is |-> item.headers[j]]
        BY <1>19
      <3>2. item.at[j] \in ToSet(item.at)
        BY <1>9 DEF n
      <3>3. item.at[j] \in Sectors
        BY <1>9, <3>2 DEF Own, Clear
      <3> QED
        BY <3>1, <3>3
    <2>2. b.at \in Sectors /\ z.at \in Sectors
      <3>1. ItemOK(disk, L[u])
        BY <1>1 DEF Rep, Items, u
      <3>2. TableData(L[u]) \in Sectors
        BY <1>1, <3>1, ItemRead DEF u
      <3>3. FreeMapData \in Sectors
        BY FileSysAssumption DEF FreeMapData, Sectors
      <3> QED
        BY <1>15, <3>2, <3>3
    <2>3. dir => c.at \in Sectors
      BY <1>6, <1>9, <1>15 DEF Clear
    <2>4. Len(W) \in Nat
      BY <1>18
    <2>5. ASSUME NEW j \in 1 .. Len(W) PROVE W[j].at \in Sectors
      <3>1. j \in 1 .. n \/ j = n + 1 \/ (dir /\ j = n + 2) \/ j = Len(W)
        BY <1>17, <1>18
      <3> QED
        BY <1>18, <2>1, <2>2, <2>3, <3>1
    <2>6. W = [j \in 1 .. Len(W) |-> W[j]]
      BY <1>18
    <2> QED
      BY <2>4, <2>5, <2>6, WritesFromParts
  <1>22. i \in FreeEntries(disk[TableData(L[Front(p)])].table)
    BY <1>8 DEF u, table
  <1>23. item.dir \in BOOLEAN /\ (item.dir => size = 1)
    BY <1>6 DEF DirectorySize
  <1>24. /\ Proceeds(disk, W, p, descriptor, opened) /\ GoodWrites(W)
         /\ OthersKept(disk, L, W, p) /\ EntryMade(disk, L, W, p, item)
    BY <1>1, <1>4, <1>5, <1>6, <1>20, <1>21, <1>22, <1>23, NewEntryProceeds
  <1>25. SectorsOf(item.headers) \in Seq(Sectors) /\ Len(SectorsOf(item.headers)) = size
    BY <1>5, <1>6 DEF Made
  <1>26. EntryPlanned(L, p, size, dir, W)
    BY <1>1, <1>6, <1>24, <1>25 DEF EntryPlanned
  <1> QED
    BY <1>24, <1>26 DEF W

(* The writes of Remove, from the first one on.                            *)
LEMMA ReleasedOnDisk ==
    ASSUME NEW L, Rep(disk, L, Nothing), NEW p \in Paths, p \in DOMAIN L, NEW e,
           \A s \in Sectors : s # FreeMapData => e[s] = disk[s],
           \/ e[FreeMapData] = disk[FreeMapData]
           \/ e[FreeMapData] = BitmapSector(Released(p))
    PROVE  Rep(e, Pruned(L, p), p)
  <1>1. FreeMap(disk) = disk[FreeMapData].marked /\ disk[FreeMapData].type = "bitmap"
    BY FreeMapRead DEF Rep, BitmapOK
  <1>2. /\ Lookup(disk, p) = L[p].at[1] /\ FetchFrom(disk, Lookup(disk, p)) = L[p].headers
        /\ p # Root
    BY PathFound, PathsAreSequences
  <1>3. L[p].at[1] \in Own(L[p])
    <2>1. ItemOK(disk, L[p])
      BY DEF Rep, Items
    <2>2. 1 \in 1 .. Len(L[p].at)
      BY <2>1, ItemRead
    <2> QED
      BY <2>1, <2>2, AtInItem
  <1>4. FreeMap(disk) \ Own(L[p]) \subseteq Released(p)
    BY <1>2, <1>3 DEF Released, Deallocate, Own
  <1>5. e[FreeMapData].type = "bitmap" /\ FreeMap(disk) \ Own(L[p]) \subseteq e[FreeMapData].marked
    BY <1>1, <1>4 DEF BitmapSector
  <1> QED
    BY <1>2, <1>5, BelowGone

(* What the writes come to: the path and what is below it are gone.        *)
RemovalPlanned(L, p, W) ==
    /\ GoodWrites(W) /\ OthersKept(disk, L, W, p) /\ Len(W) = 2 /\ p \in DOMAIN L
    /\ LET M == Without(Pruned(L, p), p)
           e == After(disk, W, Len(W))
       IN  /\ Rep(e, M, Nothing)
           /\ \A q \in Paths : ~IsPrefix(p, q) => SameAt(disk, L, e, M, q)
           /\ \A q \in Paths : IsPrefix(p, q) => q \notin DOMAIN M

(* The two writes of Remove, and the first of them alone, which is all     *)
(* that is known to happen when the root's table goes astray.              *)
LEMMA RemoveProceeds ==
    ASSUME NEW L, Rep(disk, L, Nothing), Disk(disk), NEW op,
           NEW p \in Paths, ProperPath(p), Exists(disk, p)
    PROVE  /\ Proceeds(disk, RemoveWrites(p), p, NoFile, op)
           /\ RemovalPlanned(L, p, RemoveWrites(p))
           /\ [disk EXCEPT ![RemoveWrites(p)[1].at] = RemoveWrites(p)[1].is]
                 = After(disk, RemoveWrites(p), 1)
           /\ Disk([disk EXCEPT ![RemoveWrites(p)[1].at] = RemoveWrites(p)[1].is])
           /\ StateOK([disk EXCEPT ![RemoveWrites(p)[1].at] = RemoveWrites(p)[1].is], p, NoFile, op)
  <1> DEFINE u == Front(p)
             T == TableData(L[u])
             table == disk[T].table
             i == Min(EntryOf(table, Last(p)))
             a == BitmapSector(Released(p))
             b == TableSector([table EXCEPT ![i] = NoEntry])
             W == RemoveWrites(p)
  <1>1. p \in DOMAIN L /\ u \in DOMAIN L /\ L[u].dir /\ p # Root /\ p # Nothing /\ Nothing # Root
    BY ParentInLayout, PathsAreSequences
  <1>2. /\ p \in Seq(Names) /\ Len(p) \in Nat \ {0} /\ u \in Seq(Names) /\ Len(u) = Len(p) - 1
        /\ Last(p) \in Names /\ p = Append(u, Last(p)) /\ u \in Paths \cup {Root}
    BY FrontOK
  <1>3. /\ ItemOK(disk, L[u]) /\ u # Nothing /\ Items(disk, L)
        /\ disk[T].type = "table" /\ Listing(L, u, table)
    BY <1>1, PathsAreSequences DEF Rep, Shape, Items, Listed
  <1>4. TableAt(disk, Lookup(disk, u)) = table /\ TableSectorOf(disk, Lookup(disk, u)) = T
    <2>1. Lookup(disk, u) = L[u].at[1] /\ FetchFrom(disk, Lookup(disk, u)) = L[u].headers
      BY <1>1, PathFound
    <2>2. TableSectorOf(disk, Lookup(disk, u)) = T
      BY <2>1 DEF TableSectorOf, TableData
    <2> QED
      BY <1>1, <1>3, <2>1, <2>2, TableRead
  <1>5. T \in Sectors /\ T # FreeMapData /\ FreeMapData \in Sectors
    <2>1. T \in Own(L[u]) /\ Own(L[u]) \subseteq Sectors
      BY <1>1, <1>3, ItemRead
    <2>2. Own(L[u]) \cap FreeMapSectors = {}
      BY <1>1 DEF Rep, Apart
    <2>3. FreeMapData \in Sectors
      BY FileSysAssumption DEF FreeMapData, Sectors
    <2> QED
      BY <2>1, <2>2, <2>3 DEF FreeMapSectors
  <1>6. W[1] = [at |-> FreeMapData, is |-> a] /\ W[2] = [at |-> T, is |-> b] /\ Len(W) = 2
        /\ W = [j \in 1 .. 2 |-> W[j]]
    <2>1. FreeMapWrite(disk, Released(p)) = [at |-> FreeMapData, is |-> a]
      BY FreeMapRead DEF Rep
    <2>2. TableWrite(disk, u, RemoveEntry(ParentTable(p), Last(p))) = [at |-> T, is |-> b]
      BY <1>4 DEF TableWrite, RemoveEntry, ParentTable
    <2>3. PICK x : x = [at |-> FreeMapData, is |-> a]
      OBVIOUS
    <2>4. PICK y : y = [at |-> T, is |-> b]
      OBVIOUS
    <2>5. W = <<x, y>>
      BY <2>1, <2>2, <2>3, <2>4, Zenon DEF RemoveWrites
    <2> HIDE DEF W
    <2>6. W[1] = x /\ W[2] = y /\ Len(W) = 2 /\ W = [j \in 1 .. 2 |-> W[j]]
      BY <2>5
    <2> QED
      BY <2>3, <2>4, <2>6, Zenon
  <1>7. \E j \in 1 .. NumEntries : i = j /\ table[j] # NoEntry /\ table[j].name = Last(p)
    <2> HIDE DEF table, u
    <2>0. PICK n \in Names : n = Last(p) /\ p = Append(u, n)
      BY <1>2
    <2>1. PICK j \in 1 .. NumEntries : /\ EntryOf(table, n) = {j}
                                       /\ Min(EntryOf(table, n)) = j
      <3>1. Append(u, n) \in DOMAIN L
        BY <1>1, <2>0
      <3>2. PICK j \in 1 .. NumEntries : /\ EntryOf(table, n) = {j}
                                         /\ Min(EntryOf(table, n)) = j
                                         /\ table[j] = EntryFor(L, Append(u, n))
        BY <1>2, <1>3, <3>1, EntryFound
      <3> QED
        BY <3>2
    <2>2. j \in EntryOf(table, n)
      BY <2>1
    <2>3. table[j] # NoEntry /\ table[j].name = n
      BY <2>2 DEF EntryOf
    <2>4. i = j
      BY <2>0, <2>1
    <2>5. n = Last(p)
      BY <2>0
    <2> HIDE DEF i
    <2> QED
      BY <2>3, <2>4, <2>5, Zenon
  <1> HIDE DEF W, a, b
  <1>8. W[1].at = FreeMapData /\ W[1].is = a /\ W[2].at = T /\ W[2].is = b
    <2> HIDE DEF T
    <2> QED
      BY <1>6
  <1> HIDE DEF i, table
  <1>9. Writes(W)
    <2>1. \A j \in 1 .. 2 : W[j].at \in Sectors
      BY <1>5, <1>8
    <2> HIDE DEF T
    <2> QED
      BY <1>6, <2>1, WritesFromParts
  (* The first write. *)
  <1>10. After(disk, W, 0) = disk
    BY AfterNone
  <1>11. /\ After(disk, W, 1)[FreeMapData] = a
         /\ \A s \in Sectors : s # FreeMapData => After(disk, W, 1)[s] = disk[s]
    <2> HIDE DEF T
    <2>1. After(disk, W, 1)[W[1].at] = W[1].is
      <3>1. \A j \in 1 .. 1 : W[j].at = W[1].at => j <= 1
        OBVIOUS
      <3> QED
        BY <1>5, <1>8, <3>1, AfterLast
    <2>2. ASSUME NEW s \in Sectors, s # FreeMapData PROVE After(disk, W, 1)[s] = disk[s]
      <3>1. \A j \in 1 .. 1 : W[j].at # s
        BY <1>8, <2>2
      <3> QED
        BY <3>1, AfterKept
    <2> QED
      BY <1>8, <2>1, <2>2
  <1>12. Rep(disk, Pruned(L, p), p) /\ Rep(After(disk, W, 1), Pruned(L, p), p)
    BY <1>1, <1>11, ReleasedOnDisk DEF a
  (* The second one. *)
  <1>13. /\ After(disk, W, 2)[T] = b
         /\ \A s \in Sectors : s # T => After(disk, W, 2)[s] = After(disk, W, 1)[s]
    <2> HIDE DEF T
    <2>1. After(disk, W, 2)[W[2].at] = W[2].is
      <3>1. \A j \in 1 .. 2 : W[j].at = W[2].at => j <= 2
        OBVIOUS
      <3> QED
        BY <1>5, <1>8, <3>1, AfterLast
    <2>2. ASSUME NEW s \in Sectors, s # T PROVE After(disk, W, 2)[s] = After(disk, W, 1)[s]
      <3>1. CASE s = FreeMapData
        <4>1. \A j \in 1 .. 2 : W[j].at = W[1].at => j <= 1
          BY <1>5, <1>8
        <4>2. After(disk, W, 2)[W[1].at] = W[1].is
          BY <1>5, <1>8, <4>1, AfterLast
        <4> QED
          BY <1>8, <1>11, <3>1, <4>2
      <3>2. CASE s # FreeMapData
        <4>1. \A j \in 1 .. 2 : W[j].at # s
          BY <1>8, <2>2, <3>2
        <4>2. After(disk, W, 2)[s] = disk[s]
          BY <4>1, AfterKept
        <4> QED
          BY <1>11, <3>2, <4>2
      <3> QED
        BY <3>1, <3>2
    <2> QED
      BY <1>8, <2>1, <2>2
  <1>14. p \in DOMAIN Pruned(L, p) /\ Pruned(L, p)[u] = L[u]
    <2>1. ~IsPrefix(p, u)
      BY <1>2, PrefixUpTo
    <2> QED
      BY <1>1, <2>1 DEF Pruned
  <1>15. Rep(After(disk, W, 2), Without(Pruned(L, p), p), Nothing)
    <2>1. PICK d1 : d1 = After(disk, W, 1)
      OBVIOUS
    <2>2. PICK d2 : d2 = After(disk, W, 2)
      OBVIOUS
    <2>3. PICK M : M = Pruned(L, p)
      OBVIOUS
    <2>4. d1[T] = disk[T] /\ T = TableData(M[Front(p)])
      BY <1>5, <1>11, <1>14, <2>1, <2>3
    <2>5. PICK j \in 1 .. NumEntries : i = j /\ table[j] # NoEntry /\ table[j].name = Last(p)
      BY <1>7
    <2>6. d1[TableData(M[Front(p)])].table = table
      BY <2>4 DEF table
    <2>7. d2[TableData(M[Front(p)])] =
             TableSector([d1[TableData(M[Front(p)])].table EXCEPT ![j] = NoEntry])
      BY <1>13, <2>2, <2>4, <2>5, <2>6, Zenon DEF b
    <2>8. \A s \in Sectors : s # TableData(M[Front(p)]) => d2[s] = d1[s]
      BY <1>13, <2>1, <2>2, <2>4
    <2>9. Rep(d1, M, p) /\ p \in DOMAIN M
      BY <1>12, <1>14, <2>1, <2>3
    <2>10. Rep(d2, Without(M, p), Nothing)
      BY <1>1, <2>5, <2>6, <2>7, <2>8, <2>9, EntryGone
    <2> QED
      BY <2>2, <2>3, <2>10
  <1>16. \A M : OpenIn(M, NoFile, op)
    BY DEF OpenIn
  <1>17. StateOK(After(disk, W, 0), p, NoFile, op) /\ StateOK(After(disk, W, 1), p, NoFile, op)
         /\ StateOK(After(disk, W, 2), Nothing, NoFile, op)
    BY <1>10, <1>12, <1>15, <1>16 DEF StateOK
  <1>18. Proceeds(disk, W, p, NoFile, op)
    <2>1. \A k \in 0 .. 1 : StateOK(After(disk, W, k), p, NoFile, op)
      BY <1>17
    <2>2. W # <<>> /\ Len(W) - 1 = 1
      BY <1>6
    <2> QED
      BY <1>6, <1>9, <1>17, <2>1, <2>2 DEF Proceeds
  <1>19. [disk EXCEPT ![W[1].at] = W[1].is] = After(disk, W, 1)
    <2>1. disk = [s \in Sectors |-> disk[s]] /\ After(disk, W, 1) = [s \in Sectors |-> After(disk, W, 1)[s]]
      BY AfterDisk DEF Disk
    <2> QED
      BY <1>8, <1>11, <2>1
  <1>20. Disk([disk EXCEPT ![W[1].at] = W[1].is])
    <2>1. Disk(After(disk, W, 1))
      BY AfterDisk
    <2> QED
      BY <1>19, <2>1, Zenon
  <1>21. StateOK([disk EXCEPT ![W[1].at] = W[1].is], p, NoFile, op)
    BY <1>17, <1>19
  (* No file has other data than before. *)
  <1>22. ASSUME NEW k \in 0 .. 2, NEW q \in DOMAIN L, ~L[q].dir,
                NEW x \in ToSet(SectorsOf(L[q].headers))
         PROVE  After(disk, W, k)[x] = disk[x]
    <2>1. x \in Own(L[q]) /\ x \in Sectors
      BY <1>3, ItemRead DEF Own, Items
    <2>2. x # FreeMapData
      BY <2>1 DEF Rep, Apart, FreeMapSectors
    <2>3. T \in Own(L[u]) /\ q # u
      BY <1>1, <1>3, <1>22, ItemRead
    <2>4. Own(L[q]) \cap Own(L[u]) = {}
      BY <1>1, <2>3 DEF Rep, Apart
    <2>5. x # T
      BY <2>1, <2>3, <2>4
    <2> HIDE DEF T, u
    <2> QED
      BY <1>10, <1>11, <1>13, <2>1, <2>2, <2>5
  <1> DEFINE M == Pruned(L, p)
             N == Without(M, p)
  <1>23. ASSUME NEW k \in 0 .. 2, NEW q \in Paths, ~IsPrefix(p, q)
         PROVE  SameAt(disk, L, After(disk, W, k), M, q) /\ SameAt(disk, L, After(disk, W, k), N, q)
    <2>1. q # p
      <3>1. Len(p) \in 0 .. Len(p) /\ UpTo(p, Len(p)) = p
        BY <1>2, WholeAndEmpty
      <3> QED
        BY <1>2, <1>23, <3>1, IsPrefixOK
    <2>2. /\ q \in DOMAIN M <=> q \in DOMAIN L
          /\ q \in DOMAIN L => M[q] = L[q]
      BY <1>23 DEF Pruned
    <2>3. /\ q \in DOMAIN N <=> q \in DOMAIN M
          /\ q \in DOMAIN M => N[q] = M[q]
      BY <2>1 DEF Without
    <2> HIDE DEF M, N, u
    <2> QED
      BY <1>22, <2>2, <2>3 DEF SameAt
  <1>24. ASSUME NEW q \in Paths, IsPrefix(p, q) PROVE q \notin DOMAIN N
    BY <1>24 DEF Pruned, Without
  <1>25. OthersKept(disk, L, W, p)
    <2> SUFFICES ASSUME NEW k \in 0 .. 1
                 PROVE  /\ Rep(After(disk, W, k), M, p)
                        /\ \A q \in Paths : ~IsPrefix(p, q) => SameAt(disk, L, After(disk, W, k), M, q)
      <3>1. Len(W) - 1 = 1
        BY <1>6
      <3> HIDE DEF M
      <3> QED
        BY <3>1, Zenon DEF OthersKept
    <2>1. Rep(After(disk, W, k), M, p)
      <3>1. k = 0 \/ k = 1
        OBVIOUS
      <3> QED
        BY <1>10, <1>12, <3>1
    <2> QED
      BY <1>23, <2>1
  <1>26. GoodWrites(W)
    <2>1. ASSUME NEW k \in 1 .. 2 PROVE GoodSector(W[k].is)
      <3>1. k = 1 \/ k = 2
        OBVIOUS
      <3> QED
        BY <1>8, <3>1, NoData DEF a, b
    <2> QED
      BY <1>6, <2>1 DEF GoodWrites
  <1>27. RemovalPlanned(L, p, W)
    <2>1. 2 \in 0 .. 2 /\ Len(W) = 2 /\ Rep(After(disk, W, 2), N, Nothing)
      BY <1>6, <1>15
    <2>2. \A q \in Paths : ~IsPrefix(p, q) => SameAt(disk, L, After(disk, W, 2), N, q)
      BY <1>23, <2>1
    <2>3. \A q \in Paths : IsPrefix(p, q) => q \notin DOMAIN N
      BY <1>24
    <2> QED
      BY <1>1, <1>25, <1>26, <2>1, <2>2, <2>3, Zenon DEF RemovalPlanned
  <1> QED
    BY <1>18, <1>19, <1>20, <1>21, <1>27 DEF W

(* The descriptor of a file that is open.                                  *)
DescriptorOK(desc) ==
    desc # NoFile =>
        \E headers, seek :
            /\ desc = [headers |-> headers, seek |-> seek]
            /\ seek \in 0 .. Len(SectorsOf(headers))

(* An access ends between seekPosition and the end of the file.            *)
LEMMA EndOK ==
    ASSUME NEW size \in Nat, descriptor # NoFile, DescriptorOK(descriptor),
           FileSectors \in Seq(Sectors)
    PROVE  /\ descriptor.seek \in 0 .. Len(FileSectors) /\ Len(FileSectors) \in Nat
           /\ End(size) \in descriptor.seek .. Len(FileSectors)
           /\ DescriptorOK([descriptor EXCEPT !.seek = End(size)])
           /\ [descriptor EXCEPT !.seek = End(size)] # NoFile
           /\ [descriptor EXCEPT !.seek = End(size)].headers = descriptor.headers
  <1>1. PICK headers, seek : /\ descriptor = [headers |-> headers, seek |-> seek]
                             /\ seek \in 0 .. Len(SectorsOf(headers))
    BY Zenon DEF DescriptorOK
  <1>2. FileSectors = SectorsOf(headers) /\ descriptor.seek = seek /\ descriptor.headers = headers
    BY <1>1 DEF FileSectors
  <1>3. Len(FileSectors) \in Nat
    OBVIOUS
  <1>4. End(size) \in descriptor.seek .. Len(FileSectors)
    BY <1>1, <1>2, <1>3 DEF End
  <1>5. PICK e : e = End(size)
    OBVIOUS
  <1>6. [descriptor EXCEPT !.seek = e] = [headers |-> headers, seek |-> e]
    BY <1>1
  <1>7. e \in 0 .. Len(SectorsOf(headers))
    BY <1>1, <1>2, <1>3, <1>4, <1>5
  <1>8. [headers |-> headers, seek |-> e] # NoFile
    <2>1. DOMAIN [headers |-> headers, seek |-> e] = {"headers", "seek"}
      OBVIOUS
    <2>2. DOMAIN NoFile = 1 .. 0
      BY DEF NoFile
    <2>3. "seek" \notin DOMAIN NoFile
      BY <2>2
    <2> QED
      BY <2>1, <2>3
  <1>9. DescriptorOK([descriptor EXCEPT !.seek = e])
    BY <1>6, <1>7, Zenon DEF DescriptorOK
  <1>10. [descriptor EXCEPT !.seek = e].headers = descriptor.headers
    BY <1>2, <1>6
  <1> QED
    BY <1>1, <1>2, <1>3, <1>4, <1>5, <1>6, <1>8, <1>9, <1>10

(* What the writes come to: nothing but data of that file changes.         *)
WritePlanned(L, W) ==
    /\ GoodWrites(W) /\ OthersKept(disk, L, W, opened)
    /\ opened \in DOMAIN L /\ ~L[opened].dir
    /\ Rep(After(disk, W, Len(W)), L, Nothing)
    /\ \A q \in Paths : q # opened => SameAt(disk, L, After(disk, W, Len(W)), L, q)

(* The writes of Write go to the data of the file that is open.            *)
LEMMA WriteProceeds ==
    ASSUME NEW L, Rep(disk, L, Nothing), Disk(disk), OpenIn(L, descriptor, opened),
           descriptor # NoFile, DescriptorOK(descriptor),
           NEW size \in Nat, NEW value, DataWrites(size, value) # <<>>,
           NEW desc, desc.headers = descriptor.headers
    PROVE  /\ Proceeds(disk, DataWrites(size, value), opened, desc, opened)
           /\ value \in Blocks => WritePlanned(L, DataWrites(size, value))
  <1> DEFINE item == L[opened]
             n == End(size) - descriptor.seek
             W == DataWrites(size, value)
  <1>1. /\ opened \in DOMAIN L /\ ~item.dir /\ descriptor.headers = item.headers
        /\ ItemOK(disk, item)
    BY DEF OpenIn, Rep, Items
  <1>2. FileSectors = SectorsOf(item.headers) /\ FileSectors \in Seq(Sectors)
    BY <1>1 DEF FileSectors, ItemOK
  <1>3. n \in Nat /\ \A j \in 1 .. n : descriptor.seek + j \in 1 .. Len(FileSectors)
    <2>1. /\ descriptor.seek \in 0 .. Len(FileSectors) /\ Len(FileSectors) \in Nat
          /\ End(size) \in descriptor.seek .. Len(FileSectors)
      BY <1>2, EndOK
    <2> QED
      BY <2>1
  <1>4. /\ W = [j \in 1 .. n |-> W[j]]
        /\ \A j \in 1 .. n : W[j].at \in ToSet(SectorsOf(item.headers)) /\ W[j].at \in Sectors
    <2>1. W = [j \in 1 .. n |->
                 [at |-> FileSectors[descriptor.seek + j], is |-> DataSector(value)]]
      BY DEF DataWrites
    <2>2. ASSUME NEW j \in 1 .. n
          PROVE  W[j].at \in ToSet(SectorsOf(item.headers)) /\ W[j].at \in Sectors
      <3>1. W[j].at = FileSectors[descriptor.seek + j]
        BY <2>1
      <3>2. descriptor.seek + j \in 1 .. Len(FileSectors)
        BY <1>3
      <3> HIDE DEF W
      <3> QED
        BY <1>2, <3>1, <3>2 DEF ToSet
    <2> HIDE DEF n
    <2>3. W = [j \in 1 .. n |-> W[j]]
      BY <2>1
    <2> QED
      BY <2>2, <2>3
  <1> HIDE DEF W, n
  <1>5. Writes(W) /\ Len(W) = n
    BY <1>3, <1>4, WritesFromParts
  <1>6. ASSUME NEW k \in 0 .. n PROVE Rep(After(disk, W, k), L, Nothing)
    <2> DEFINE e == After(disk, W, k)
    <2>1. \A s \in Sectors : s \notin ToSet(SectorsOf(item.headers)) => e[s] = disk[s]
      <3> SUFFICES ASSUME NEW s \in Sectors, s \notin ToSet(SectorsOf(item.headers))
                   PROVE  e[s] = disk[s]
        OBVIOUS
      <3>1. \A j \in 1 .. k : W[j].at # s
        BY <1>3, <1>4
      <3> QED
        BY <1>3, <3>1, AfterKept
    <2> HIDE DEF e, item
    <2>2. \A q \in DOMAIN L : ItemOK(disk, L[q]) /\ Own(L[q]) \subseteq Sectors
      BY ItemRead DEF Rep, Items
    <2>3. \A q \in DOMAIN L : q # opened => Own(L[q]) \cap ToSet(SectorsOf(item.headers)) = {}
      BY <1>1 DEF Rep, Apart, Own, item
    <2>4. \A q \in DOMAIN L : \A s \in ToSet(L[q].at) : e[s] = disk[s]
      <3> SUFFICES ASSUME NEW q \in DOMAIN L, NEW s \in ToSet(L[q].at) PROVE e[s] = disk[s]
        OBVIOUS
      <3>1. s \in Own(L[q]) /\ s \in Sectors
        BY <2>2 DEF Own
      <3>2. CASE q # opened
        BY <2>1, <2>3, <3>1, <3>2
      <3>3. CASE q = opened
        <4>1. ToSet(item.at) \cap ToSet(SectorsOf(item.headers)) = {}
          BY <1>1 DEF ItemOK
        <4> QED
          BY <2>1, <3>1, <3>3, <4>1 DEF item
      <3> QED
        BY <3>2, <3>3
    <2>5. \A q \in DOMAIN L : L[q].dir /\ q # Nothing => e[TableData(L[q])] = disk[TableData(L[q])]
      <3> SUFFICES ASSUME NEW q \in DOMAIN L, L[q].dir
                   PROVE  e[TableData(L[q])] = disk[TableData(L[q])]
        OBVIOUS
      <3>1. TableData(L[q]) \in Own(L[q]) /\ TableData(L[q]) \in Sectors /\ q # opened
        BY <1>1, <2>2, ItemRead DEF item
      <3> QED
        BY <2>1, <2>3, <3>1
    <2>6. \A s \in FreeMapSectors : e[s] = disk[s]
      <3>1. FreeMapSectors \subseteq Sectors
        BY FreeMapRead DEF Rep
      <3>2. Own(item) \cap FreeMapSectors = {}
        BY <1>1 DEF Rep, Apart, item
      <3> QED
        BY <2>1, <3>1, <3>2 DEF Own
    <2> QED
      BY <2>4, <2>5, <2>6, LayoutKept DEF e
  <1>7. ASSUME NEW k \in 0 .. n PROVE Rep(After(disk, W, k), L, opened)
    BY <1>1, <1>6, <1>7, LayoutWeaker
  <1>8. OpenIn(L, desc, opened)
    BY <1>1 DEF OpenIn
  <1>9. \A k \in 0 .. n : /\ StateOK(After(disk, W, k), Nothing, desc, opened)
                          /\ StateOK(After(disk, W, k), opened, desc, opened)
    BY <1>6, <1>7, <1>8 DEF StateOK
  <1>10. W # <<>>
    BY DEF W
  <1>11. n \in 0 .. n /\ \A k \in 0 .. n - 1 : k \in 0 .. n
    BY <1>3
  <1>12. Proceeds(disk, W, opened, desc, opened)
    BY <1>3, <1>5, <1>9, <1>10, <1>11 DEF Proceeds
  <1>13. ASSUME NEW k \in 0 .. n, NEW q \in Paths, q # opened
         PROVE  SameAt(disk, L, After(disk, W, k), L, q)
    <2> SUFFICES ASSUME q \in DOMAIN L, NEW x \in ToSet(SectorsOf(L[q].headers))
                 PROVE  After(disk, W, k)[x] = disk[x]
      BY DEF SameAt
    <2>1. x \in Own(L[q]) /\ Own(L[q]) \subseteq Sectors
      BY ItemRead DEF Own, Rep, Items
    <2>2. Own(L[q]) \cap Own(item) = {}
      BY <1>1, <1>13 DEF Rep, Apart
    <2>3. x \notin ToSet(SectorsOf(item.headers)) /\ x \in Sectors
      BY <2>1, <2>2 DEF Own
    <2> HIDE DEF item
    <2>4. \A j \in 1 .. k : W[j].at # x
      BY <1>3, <1>4, <2>3
    <2> QED
      BY <1>3, <2>3, <2>4, AfterKept
  <1>14. OthersKept(disk, L, W, opened)
    <2>1. \A q \in Paths : ~IsPrefix(opened, q) => q # opened
      <3> SUFFICES ASSUME NEW q \in Paths, q = opened PROVE IsPrefix(opened, q)
        OBVIOUS
      <3>1. q \in Seq(Names) /\ Len(q) \in 0 .. Len(q) /\ UpTo(q, Len(q)) = q
        BY PathsAreSequences, WholeAndEmpty
      <3> QED
        BY <3>1, IsPrefixOK
    <2> HIDE DEF item
    <2> QED
      BY <1>5, <1>7, <1>11, <1>13, <2>1 DEF OthersKept
  <1>15. ASSUME value \in Blocks PROVE GoodWrites(W)
    <2>1. ASSUME NEW j \in 1 .. n PROVE W[j].is = DataSector(value)
      BY DEF W, n, DataWrites
    <2> QED
      BY <1>5, <1>15, <2>1, NoData DEF GoodWrites
  <1>16. Rep(After(disk, W, Len(W)), L, Nothing)
    BY <1>5, <1>6, <1>11
  <1>17. \A q \in Paths : q # opened => SameAt(disk, L, After(disk, W, Len(W)), L, q)
    BY <1>5, <1>11, <1>13
  <1>18. value \in Blocks => WritePlanned(L, W)
    BY <1>1, <1>14, <1>15, <1>16, <1>17 DEF WritePlanned
  <1> QED
    BY <1>12, <1>18 DEF W

(* Room for one sector of data: one header, and the first clear sector.    *)
LEMMA AllocateOne ==
    ASSUME NEW m, NEW s \in Clear(m), \A r \in Clear(m) : s <= r
    PROVE  Allocate(m, 1) = [ok |-> TRUE, marked |-> m \cup {s},
                             headers |-> <<HeaderSector(<<s>>, NoSector)>>]
  <1>1. NumDirect \in Nat \ {0}
    BY FileSysAssumption
  <1>2. HeadersFor(1) = 1 /\ TakenFor(1) = 1
    <2>1. PICK n \in Nat \ {0} : /\ HeadersFor(1) = n /\ TakenFor(1) = 1 + n - 1
                                 /\ n > 1 => (n - 1) * NumDirect < 1
      <3>1. 1 \in Nat
        OBVIOUS
      <3> QED
        BY <3>1, HeadersForOK
    <2>2. ASSUME n > 1 PROVE FALSE
      <3>1. n - 1 \in Nat /\ 1 <= n - 1 /\ 1 \in Nat /\ NumDirect \in Nat
        BY <1>1, <2>2
      <3>2. 1 * NumDirect <= (n - 1) * NumDirect /\ (n - 1) * NumDirect \in Nat
        BY <3>1, Products
      <3>3. 1 * NumDirect = NumDirect
        BY <1>1
      <3> QED
        BY <1>1, <2>1, <2>2, <3>2, <3>3
    <2> QED
      BY <2>1, <2>2
  <1>3. Cardinality(Clear(m)) \in Nat /\ Cardinality(Clear(m)) >= 1 /\ IsFiniteSet(Clear(m))
        /\ Clear(m) \in SUBSET Nat
    <2>1. Cardinality(Clear(m)) \in Nat /\ IsFiniteSet(Clear(m)) /\ Clear(m) \in SUBSET Nat
      BY ClearFinite
    <2>2. Cardinality(Clear(m)) # 0
      <3>1. Clear(m) # {}
        OBVIOUS
      <3> QED
        BY <2>1, <3>1, FS_EmptySet
    <2> QED
      BY <2>1, <2>2
  <1>4. NthClear(m, 1) = s
    <2>1. PICK x : x = NthClear(m, 1)
      OBVIOUS
    <2>2. x \in Clear(m) /\ Cardinality(Below(Clear(m), x)) = 0
      <3>1. 1 \in 1 .. Cardinality(Clear(m))
        BY <1>3
      <3> QED
        BY <2>1, <3>1, NthClearOK
    <2>3. IsFiniteSet(Below(Clear(m), x))
      <3>1. Below(Clear(m), x) \subseteq Clear(m)
        BY DEF Below
      <3> QED
        BY <1>3, <3>1, FS_Subset
    <2>4. Below(Clear(m), x) = {}
      BY <2>2, <2>3, FS_EmptySet
    <2>5. ~ (s < x)
      BY <2>4 DEF Below
    <2>6. s \in Nat /\ x \in Nat
      BY <1>3, <2>2
    <2> QED
      BY <2>1, <2>2, <2>5, <2>6
  <1>5. Room(1, 1) = 1
    <2>1. Room(1, 1) = 1 - (1 - 1) * NumDirect
      BY <1>2 DEF Room
    <2>2. (1 - 1) * NumDirect = 0
      BY <1>1
    <2> QED
      BY <2>1, <2>2
  <1>6. [j \in 1 .. Room(1, 1) |-> NthClear(m, (1 - 1) * (NumDirect + 1) + j)] = <<s>>
    <2>1. \A j \in 1 .. 1 : (1 - 1) * (NumDirect + 1) + j = 1
      BY <1>1
    <2>2. [j \in 1 .. Room(1, 1) |-> NthClear(m, (1 - 1) * (NumDirect + 1) + j)] = [j \in 1 .. 1 |-> s]
      BY <1>4, <1>5, <2>1
    <2> QED
      BY <2>2
  <1>7. {NthClear(m, i) : i \in 1 .. 1} = {s}
    BY <1>4
  <1> DEFINE data(h) == [j \in 1 .. Room(1, h) |-> NthClear(m, (h - 1) * (NumDirect + 1) + j)]
             next(h) == IF h = 1 THEN NoSector ELSE NthClear(m, h * (NumDirect + 1))
  <1>8. Allocate(m, 1) = [ok |-> TRUE,
                          marked |-> m \cup {NthClear(m, i) : i \in 1 .. 1},
                          headers |-> [h \in 1 .. 1 |-> HeaderSector(data(h), next(h))]]
    <2>1. ~(Cardinality(Clear(m)) < TakenFor(1))
      BY <1>2, <1>3
    <2> QED
      BY <1>2, <2>1, Zenon DEF Allocate
  <1>9. data(1) = <<s>> /\ next(1) = NoSector
    BY <1>6
  <1> HIDE DEF data, next
  <1>10. [h \in 1 .. 1 |-> HeaderSector(data(h), next(h))] = <<HeaderSector(<<s>>, NoSector)>>
    <2>1. PICK x : x = HeaderSector(<<s>>, NoSector)
      OBVIOUS
    <2>2. \A h \in 1 .. 1 : HeaderSector(data(h), next(h)) = x
      BY <1>9, <2>1
    <2>3. [h \in 1 .. 1 |-> HeaderSector(data(h), next(h))] = [h \in 1 .. 1 |-> x]
      BY <2>2
    <2>4. [h \in 1 .. 1 |-> x] = <<x>>
      OBVIOUS
    <2> QED
      BY <2>1, <2>3, <2>4
  <1> QED
    BY <1>7, <1>8, <1>10

-----------------------------------------------------------------------------
(* The disk that Format makes: nothing but the bitmap and the root.        *)
RootData == 3
RootItem == [at |-> <<DirectorySector>>, headers |-> <<HeaderSector(<<RootData>>, NoSector)>>,
             dir |-> TRUE]
RootOnly == [q \in {Root} |-> RootItem]
Formatted(d) ==
    /\ d[FreeMapSector] = HeaderSector(<<FreeMapData>>, NoSector)
    /\ d[DirectorySector] = HeaderSector(<<RootData>>, NoSector)
    /\ d[FreeMapData] = BitmapSector({FreeMapSector, DirectorySector, FreeMapData, RootData})
    /\ d[RootData] = TableSector(EmptyTable)

(* That disk has the layout with nothing but the root.                     *)
LEMMA FormattedLayout ==
    ASSUME NEW d, Formatted(d)
    PROVE  Rep(d, RootOnly, Nothing)
  <1>1. /\ FreeMapSector = 0 /\ DirectorySector = 1 /\ FreeMapData = 2 /\ RootData = 3
        /\ NumSectors \in Nat /\ NumSectors > 4
        /\ {0, 1, 2, 3} \subseteq Sectors /\ NoSector \notin Sectors
    BY FileSysAssumption
       DEF FreeMapSector, DirectorySector, FreeMapData, RootData, Sectors, NoSector
  <1> DEFINE h == HeaderSector(<<RootData>>, NoSector)
  <1>2. h.type = "header" /\ h.next = NoSector
    BY DEF HeaderSector
  <1>3. SectorsOf(<<h>>) = <<RootData>>
    BY <1>1, OneHeader
  <1> HIDE DEF h
  <1>4. /\ RootItem.at = <<DirectorySector>> /\ RootItem.headers = <<h>> /\ RootItem.dir = TRUE
        /\ DOMAIN RootOnly = {Root} /\ RootOnly[Root] = RootItem
    BY DEF RootItem, RootOnly, h
  <1>5. HeadersAt(d, <<DirectorySector>>, <<h>>)
    <2>1. PICK at : at = <<DirectorySector>>
      OBVIOUS
    <2>2. at \in Seq(Sectors) /\ Len(at) = 1 /\ at[1] = DirectorySector /\ 1 \in 1 .. NumSectors
      BY <1>1, <2>1
    <2>3. d[DirectorySector] = h
      BY DEF Formatted, h
    <2>4. <<h>> = [i \in 1 .. 1 |-> h]
      OBVIOUS
    <2>5. HeadersAt(d, at, <<h>>)
      BY <1>2, <2>2, <2>3, <2>4 DEF HeadersAt
    <2> QED
      BY <2>1, <2>5
  <1>6. Own(RootItem) = {DirectorySector, RootData}
    BY <1>3, <1>4 DEF Own, ToSet
  <1>7. ItemOK(d, RootItem)
    <2>1. SectorsOf(RootItem.headers) \in Seq(Sectors) /\ Len(SectorsOf(RootItem.headers)) = 1
      <3>1. <<RootData>> \in Seq(Sectors) /\ Len(<<RootData>>) = 1
        BY <1>1
      <3> QED
        BY <1>3, <1>4, <3>1
    <2>2. ToSet(RootItem.at) \cap ToSet(SectorsOf(RootItem.headers)) = {}
      BY <1>1, <1>3, <1>4 DEF ToSet
    <2> QED
      BY <1>4, <1>5, <2>1, <2>2 DEF ItemOK
  <1>8. Shape(RootOnly, Nothing)
    <2>1. Len(Root) = 0
      BY DEF Root
    <2> QED
      BY <1>4, <2>1 DEF Shape
  <1>9. Items(d, RootOnly)
    BY <1>4, <1>7 DEF Items
  <1>10. Apart(RootOnly)
    BY <1>1, <1>4, <1>6 DEF Apart, FreeMapSectors
  <1>11. Listed(d, RootOnly, Nothing)
    <2>1. TableData(RootItem) = RootData
      BY <1>3, <1>4 DEF TableData
    <2>2. d[RootData].type = "table" /\ d[RootData].table = EmptyTable
      BY DEF Formatted, TableSector
    <2>3. Listing(RootOnly, Root, EmptyTable)
      <3>1. \A n \in Names : Append(Root, n) \notin DOMAIN RootOnly
        <4>1. Root \in Seq(Names)
          BY PathsAreSequences
        <4> QED
          BY <1>4, <4>1, AppendPath
      <3> QED
        BY <3>1, EmptyListing
    <2> QED
      BY <1>4, <2>1, <2>2, <2>3 DEF Listed
  <1>12. BitmapOK(d) /\ d[FreeMapData].marked = {0, 1, 2, 3}
    BY <1>1 DEF Formatted, BitmapOK, BitmapSector, FreeMapSectors
  <1>13. Marked(d, RootOnly, Nothing)
    BY <1>1, <1>4, <1>6, <1>12 DEF Marked
  <1> QED
    BY <1>8, <1>9, <1>10, <1>11, <1>12, <1>13 DEF Rep

(* The writes of Format.                                                   *)
FormatWrites ==
    LET map == Allocate({FreeMapSector, DirectorySector}, 1)
        dir == Allocate(map.marked, DirectorySize)
    IN  HeaderWrites(FreeMapSector, map.headers)
        \o HeaderWrites(DirectorySector, dir.headers)
        \o <<[at |-> SectorsOf(map.headers)[1], is |-> BitmapSector(dir.marked)],
             [at |-> SectorsOf(dir.headers)[1], is |-> TableSector(EmptyTable)]>>

AreFour(W, a, b, c, z) ==
    /\ Len(W) = 4 /\ W = [i \in 1 .. 4 |-> W[i]]
    /\ W[1] = a /\ W[2] = b /\ W[3] = c /\ W[4] = z /\ W # <<>>
JoinedFour(W, a, b, c, z) == W = <<a>> \o <<b>> \o <<c, z>>

(* Four writes from their parts.                                           *)
LEMMA FourJoined ==
    ASSUME NEW a, NEW b, NEW c, NEW z, NEW V, JoinedFour(V, a, b, c, z)
    PROVE  AreFour(V, a, b, c, z)
  <1>1. PICK S : S = {a, b, c, z}
    OBVIOUS
  <1>2. PICK X : X = <<a>> \o <<b>>
    OBVIOUS
  <1>3. X \in Seq(S) /\ Len(X) = 2 /\ X[1] = a /\ X[2] = b
    <2>1. PICK A : A = <<a>>
      OBVIOUS
    <2>2. PICK B : B = <<b>>
      OBVIOUS
    <2>3. /\ A \in Seq(S) /\ Len(A) = 1 /\ A[1] = a
          /\ B \in Seq(S) /\ Len(B) = 1 /\ B[1] = b
      BY <1>1, <2>1, <2>2
    <2>4. X = A \o B
      BY <1>2, <2>1, <2>2
    <2>5. /\ X \in Seq(S) /\ Len(X) = Len(A) + Len(B)
          /\ \A i \in 1 .. Len(A) + Len(B) :
                X[i] = IF i <= Len(A) THEN A[i] ELSE B[i - Len(A)]
      BY <2>3, <2>4, ConcatProperties, Zenon
    <2> QED
      BY <2>3, <2>5
  <1>4. PICK Y : Y = <<c, z>>
    OBVIOUS
  <1>5. Y \in Seq(S) /\ Len(Y) = 2 /\ Y[1] = c /\ Y[2] = z
    BY <1>1, <1>4
  <1>6. PICK W : W = X \o Y
    OBVIOUS
  <1>7. /\ W \in Seq(S) /\ Len(W) = 4 /\ W[1] = a /\ W[2] = b /\ W[3] = c /\ W[4] = z
    <2>1. /\ W \in Seq(S) /\ Len(W) = Len(X) + Len(Y)
          /\ \A i \in 1 .. Len(X) + Len(Y) :
                W[i] = IF i <= Len(X) THEN X[i] ELSE Y[i - Len(X)]
      BY <1>3, <1>5, <1>6, ConcatProperties, Zenon
    <2> QED
      BY <1>3, <1>5, <2>1
  <1>8. W = [i \in 1 .. 4 |-> W[i]] /\ W # <<>>
    BY <1>7
  <1>9. V = W
    BY <1>2, <1>4, <1>6, Zenon DEF JoinedFour
  <1> QED
    BY <1>7, <1>8, <1>9, Zenon DEF AreFour

(* Whatever was on the disk, Format ends with that layout.                 *)
LEMMA FormatProceeds ==
    ASSUME NEW d, Disk(d), NEW op
    PROVE  /\ Proceeds(d, FormatWrites, Root, NoFile, op) /\ GoodWrites(FormatWrites)
           /\ Rep(After(d, FormatWrites, Len(FormatWrites)), RootOnly, Nothing)
  <1> DEFINE map == Allocate({FreeMapSector, DirectorySector}, 1)
             dir == Allocate(map.marked, DirectorySize)
             h0 == HeaderSector(<<FreeMapData>>, NoSector)
             h1 == HeaderSector(<<RootData>>, NoSector)
             all == {FreeMapSector, DirectorySector, FreeMapData, RootData}
             W == FormatWrites
  <1>1. /\ FreeMapSector = 0 /\ DirectorySector = 1 /\ FreeMapData = 2 /\ RootData = 3
        /\ NumSectors \in Nat /\ NumSectors > 4
    BY FileSysAssumption DEF FreeMapSector, DirectorySector, FreeMapData, RootData
  <1>2. map.headers = <<h0>> /\ map.marked = {0, 1, 2}
    <2>1. FreeMapData \in Clear({FreeMapSector, DirectorySector})
      BY <1>1 DEF Clear, Sectors
    <2>2. \A r \in Clear({FreeMapSector, DirectorySector}) : FreeMapData <= r
      BY <1>1 DEF Clear, Sectors
    <2>3. map = [ok |-> TRUE, marked |-> {FreeMapSector, DirectorySector} \cup {FreeMapData},
                 headers |-> <<h0>>]
      BY <2>1, <2>2, AllocateOne
    <2> HIDE DEF map, h0
    <2>4. map.headers = <<h0>> /\ map.marked = {FreeMapSector, DirectorySector} \cup {FreeMapData}
      BY <2>3
    <2> QED
      BY <1>1, <2>4
  <1>3. dir.headers = <<h1>> /\ dir.marked = all
    <2> HIDE DEF map
    <2>1. RootData \in Clear(map.marked)
      BY <1>1, <1>2 DEF Clear, Sectors
    <2>2. \A r \in Clear(map.marked) : RootData <= r
      BY <1>1, <1>2 DEF Clear, Sectors
    <2>3. dir = [ok |-> TRUE, marked |-> map.marked \cup {RootData}, headers |-> <<h1>>]
      BY <2>1, <2>2, AllocateOne DEF DirectorySize
    <2> HIDE DEF dir, h1
    <2>4. dir.headers = <<h1>> /\ dir.marked = map.marked \cup {RootData}
      BY <2>3
    <2> QED
      BY <1>1, <1>2, <2>4
  <1>4. SectorsOf(map.headers)[1] = FreeMapData /\ SectorsOf(dir.headers)[1] = RootData
    <2>1. FreeMapData \in Sectors /\ RootData \in Sectors
      BY <1>1 DEF Sectors
    <2>2. SectorsOf(<<h0>>) = <<FreeMapData>> /\ SectorsOf(<<h1>>) = <<RootData>>
      BY <2>1, OneHeader
    <2> HIDE DEF map, dir, h0, h1
    <2> QED
      BY <1>2, <1>3, <2>2
  <1> HIDE DEF h0, h1, all
  <1>5. ASSUME NEW s, NEW h
        PROVE  HeaderWrites(s, <<h>>) = <<[at |-> s, is |-> h]>>
    <2>1. PICK H : H = <<h>>
      OBVIOUS
    <2>2. DOMAIN H = 1 .. 1 /\ H[1] = h
      BY <2>1
    <2>3. PICK x : x = [at |-> s, is |-> h]
      OBVIOUS
    <2>4. \A i \in DOMAIN H :
             [at |-> IF i = 1 THEN s ELSE H[i - 1].next, is |-> H[i]] = x
      BY <2>2, <2>3
    <2>5. HeaderWrites(s, H) = [i \in 1 .. 1 |-> x]
      BY <2>2, <2>4 DEF HeaderWrites
    <2>6. [i \in 1 .. 1 |-> x] = <<x>>
      OBVIOUS
    <2> QED
      BY <2>1, <2>3, <2>5, <2>6
  <1>6. PICK a : a = [at |-> FreeMapSector, is |-> h0]
    OBVIOUS
  <1>7. PICK b : b = [at |-> DirectorySector, is |-> h1]
    OBVIOUS
  <1>8. PICK c : c = [at |-> FreeMapData, is |-> BitmapSector(all)]
    OBVIOUS
  <1>9. PICK z : z = [at |-> RootData, is |-> TableSector(EmptyTable)]
    OBVIOUS
  <1>10. JoinedFour(W, a, b, c, z)
    <2>1. W = HeaderWrites(FreeMapSector, map.headers)
              \o HeaderWrites(DirectorySector, dir.headers)
              \o <<[at |-> SectorsOf(map.headers)[1], is |-> BitmapSector(dir.marked)],
                   [at |-> SectorsOf(dir.headers)[1], is |-> TableSector(EmptyTable)]>>
      BY DEF FormatWrites
    <2> HIDE DEF map, dir, W
    <2>2. /\ HeaderWrites(FreeMapSector, map.headers) = <<a>>
          /\ HeaderWrites(DirectorySector, dir.headers) = <<b>>
      BY <1>2, <1>3, <1>5, <1>6, <1>7, Zenon
    <2>3. /\ [at |-> SectorsOf(map.headers)[1], is |-> BitmapSector(dir.marked)] = c
          /\ [at |-> SectorsOf(dir.headers)[1], is |-> TableSector(EmptyTable)] = z
      BY <1>3, <1>4, <1>8, <1>9, Zenon
    <2> QED
      BY <2>1, <2>2, <2>3, Zenon DEF JoinedFour
  <1> HIDE DEF W, map, dir
  <1>11. /\ Len(W) = 4 /\ W = [i \in 1 .. 4 |-> W[i]]
         /\ W[1] = a /\ W[2] = b /\ W[3] = c /\ W[4] = z /\ W # <<>>
    <2>1. AreFour(W, a, b, c, z)
      BY <1>10, FourJoined
    <2> QED
      BY <2>1 DEF AreFour
  <1>12. /\ W[1].at = 0 /\ W[2].at = 1 /\ W[3].at = 2 /\ W[4].at = 3
         /\ W[1].is = h0 /\ W[2].is = h1 /\ W[3].is = BitmapSector(all)
         /\ W[4].is = TableSector(EmptyTable)
    BY <1>1, <1>6, <1>7, <1>8, <1>9, <1>11
  <1>13. Writes(W)
    <2>1. \A i \in 1 .. 4 : W[i].at \in Sectors
      BY <1>1, <1>12 DEF Sectors
    <2> QED
      BY <1>11, <2>1, WritesFromParts
  <1>14. ASSUME NEW i \in 1 .. 4 PROVE After(d, W, 4)[W[i].at] = W[i].is
    <2>1. \A j \in 1 .. 4 : W[j].at = W[i].at => j <= i
      BY <1>12
    <2>2. W[i].at \in Sectors
      BY <1>1, <1>12 DEF Sectors
    <2> QED
      BY <2>1, <2>2, AfterLast
  <1>15. Formatted(After(d, W, 4))
    <2>1. /\ After(d, W, 4)[0] = h0 /\ After(d, W, 4)[1] = h1
          /\ After(d, W, 4)[2] = BitmapSector(all) /\ After(d, W, 4)[3] = TableSector(EmptyTable)
      <3>1. 1 \in 1 .. 4 /\ 2 \in 1 .. 4 /\ 3 \in 1 .. 4 /\ 4 \in 1 .. 4
        OBVIOUS
      <3>2. /\ After(d, W, 4)[W[1].at] = W[1].is /\ After(d, W, 4)[W[2].at] = W[2].is
            /\ After(d, W, 4)[W[3].at] = W[3].is /\ After(d, W, 4)[W[4].at] = W[4].is
        BY <1>14, <3>1
      <3> QED
        BY <1>12, <3>2
    <2> QED
      BY <1>1, <2>1 DEF Formatted, h0, h1, all
  <1>16. StateOK(After(d, W, 4), Nothing, NoFile, op)
    BY <1>15, FormattedLayout DEF StateOK, OpenIn
  <1>17. Rep(After(d, W, 4), RootOnly, Nothing)
    BY <1>15, FormattedLayout
  <1>18. GoodWrites(W)
    <2>1. h0.type = "header" /\ h1.type = "header"
      BY DEF h0, h1, HeaderSector
    <2>2. /\ GoodSector(W[1].is) /\ GoodSector(W[2].is)
          /\ GoodSector(W[3].is) /\ GoodSector(W[4].is)
      BY <1>12, <2>1, NoData
    <2>3. \A i \in 1 .. 4 : i = 1 \/ i = 2 \/ i = 3 \/ i = 4
      OBVIOUS
    <2> QED
      BY <1>11, <2>2, <2>3 DEF GoodWrites
  <1>19. Proceeds(d, W, Root, NoFile, op)
    BY <1>11, <1>13, <1>16 DEF Proceeds
  <1> QED
    BY <1>11, <1>17, <1>18, <1>19 DEF W

-----------------------------------------------------------------------------
(* The inductive invariant: however many of the writes under way are still *)
(* made, there is a layout of the disk.                                    *)
SettledAt(W, t, k) == IF W # <<>> /\ k = Len(W) THEN Nothing ELSE t
DisksOK(d, W, t, desc, op) ==
    \A k \in 0 .. Len(W) :
       SettledAt(W, t, k) # Root => StateOK(After(d, W, k), SettledAt(W, t, k), desc, op)

Inductive(d, r, W, t, desc, op) ==
    /\ Disk(d) /\ Writes(W)
    /\ t \in Paths \cup {Root, Nothing}
    /\ W # <<>> => r = "up" /\ t # Nothing
    /\ r = "down" => W = <<>> /\ desc = NoFile
    /\ t = Root => desc = NoFile
    /\ DescriptorOK(desc)
    /\ DisksOK(d, W, t, desc, op)

IInv == Inductive(disk, running, pending, target, descriptor, opened)

(* An object that fileDescriptor points to is held by a program or by Copy: *)
(* a command never begins while one is open.                               *)
Holder ==
    /\ copying \in Paths \cup {Nothing}
    /\ descriptor = NoFile \/ loaded \/ copying # Nothing

(* How the invariant is reached when an operation begins, and when nothing *)
(* is left to write.                                                       *)
LEMMA BegunInductive ==
    ASSUME NEW d, Disk(d), NEW W, NEW t \in Paths \cup {Root}, NEW desc, NEW op,
           DescriptorOK(desc), t = Root => desc = NoFile,
           Proceeds(d, W, t, desc, op)
    PROVE  Inductive(d, "up", W, t, desc, op)
  <1>1. Writes(W) /\ W # <<>> /\ t # Nothing /\ Nothing # Root /\ Len(W) \in Nat
    BY PathsAreSequences, WritesTail DEF Proceeds
  <1>2. ASSUME NEW k \in 0 .. Len(W), SettledAt(W, t, k) # Root
        PROVE  StateOK(After(d, W, k), SettledAt(W, t, k), desc, op)
    <2>1. CASE k = Len(W)
      BY <1>1, <2>1 DEF Proceeds, SettledAt
    <2>2. CASE k # Len(W)
      <3>1. k \in 0 .. Len(W) - 1 /\ SettledAt(W, t, k) = t
        BY <1>1, <2>2 DEF SettledAt
      <3> QED
        BY <1>2, <3>1 DEF Proceeds
    <2> QED
      BY <2>1, <2>2
  <1> QED
    BY <1>1, <1>2 DEF Inductive, DisksOK

(* With nothing left to write one layout is enough.                        *)
LEMMA QuietInductive ==
    ASSUME NEW d, Disk(d), NEW r, NEW t \in Paths \cup {Root, Nothing}, NEW desc, NEW op,
           DescriptorOK(desc), t = Root => desc = NoFile, r = "down" => desc = NoFile,
           t # Root => StateOK(d, t, desc, op)
    PROVE  Inductive(d, r, <<>>, t, desc, op)
  <1>1. Writes(<<>>)
    <2>1. <<>> \in Seq(ToSet(<<>>)) /\ Len(<<>>) = 0
      OBVIOUS
    <2> QED
      BY <2>1 DEF Writes
  <1>2. \A k \in 0 .. Len(<<>>) : k = 0 /\ SettledAt(<<>>, t, k) = t
    BY DEF SettledAt
  <1>3. After(d, <<>>, 0) = d
    BY AfterNone
  <1> QED
    BY <1>1, <1>2, <1>3 DEF Inductive, DisksOK

(* The invariant says that the disk has a layout now.                      *)
LEMMA InductiveNow ==
    ASSUME NEW d, NEW r, NEW W, NEW t, NEW desc, NEW op, Inductive(d, r, W, t, desc, op), t # Root
    PROVE  StateOK(d, t, desc, op)
  <1>1. Len(W) \in Nat /\ (W # <<>> => Len(W) # 0)
    <2>1. CASE W = <<>>
      BY <2>1
    <2>2. CASE W # <<>>
      BY <2>2, WritesTail DEF Inductive
    <2> QED
      BY <2>1, <2>2
  <1>2. 0 \in 0 .. Len(W) /\ SettledAt(W, t, 0) = t
    BY <1>1 DEF SettledAt
  <1>3. After(d, W, 0) = d
    BY AfterNone DEF Inductive
  <1> QED
    BY <1>2, <1>3 DEF Inductive, DisksOK

(* Closing the file asks for less.                                         *)
LEMMA StateOfNoFile ==
    ASSUME NEW d, NEW t, NEW desc, NEW op, StateOK(d, t, desc, op), NEW any
    PROVE  StateOK(d, t, NoFile, any)
  BY DEF StateOK, OpenIn

(* No descriptor is a good one.                                            *)
LEMMA NoFileOK == DescriptorOK(NoFile)
  BY DEF DescriptorOK

(* One write of the operation is made.                                     *)
LEMMA WrittenInductive ==
    ASSUME NEW d, NEW r, NEW W, NEW t, NEW desc, NEW op, Inductive(d, r, W, t, desc, op), W # <<>>
    PROVE  Inductive([d EXCEPT ![Head(W).at] = Head(W).is], r, Tail(W),
                     IF Len(W) = 1 THEN Nothing ELSE t, desc, op)
  <1> DEFINE e == [d EXCEPT ![Head(W).at] = Head(W).is]
             u == IF Len(W) = 1 THEN Nothing ELSE t
  <1>1. /\ Writes(Tail(W)) /\ Len(W) \in Nat \ {0} /\ Len(Tail(W)) = Len(W) - 1
        /\ Tail(W) = <<>> <=> Len(W) = 1
    BY WritesTail DEF Inductive
  <1>2. Disk(e)
    BY DEF Disk, Inductive
  <1>3. ASSUME NEW k \in 0 .. Len(Tail(W)), SettledAt(Tail(W), u, k) # Root
        PROVE  StateOK(After(e, Tail(W), k), SettledAt(Tail(W), u, k), desc, op)
    <2>1. k \in 0 .. Len(W) - 1 /\ k + 1 \in 0 .. Len(W)
      BY <1>1
    <2>2. After(e, Tail(W), k) = After(d, W, k + 1)
      BY <2>1, AfterOne DEF Inductive
    <2>3. SettledAt(Tail(W), u, k) = SettledAt(W, t, k + 1)
      <3>1. CASE Len(W) = 1
        BY <1>1, <2>1, <3>1 DEF SettledAt
      <3>2. CASE Len(W) # 1
        <4>1. u = t /\ Tail(W) # <<>>
          BY <1>1, <3>2
        <4>2. k = Len(Tail(W)) <=> k + 1 = Len(W)
          BY <1>1, <2>1
        <4> HIDE DEF u
        <4> QED
          BY <4>1, <4>2, Zenon DEF SettledAt
      <3> QED
        BY <3>1, <3>2
    <2>4. StateOK(After(d, W, k + 1), SettledAt(W, t, k + 1), desc, op)
      BY <1>3, <2>1, <2>3 DEF Inductive, DisksOK
    <2> QED
      BY <2>2, <2>3, <2>4, Zenon
  <1>4. DisksOK(e, Tail(W), u, desc, op)
    BY <1>3 DEF DisksOK
  <1>5. /\ u \in Paths \cup {Root, Nothing}
        /\ Tail(W) # <<>> => r = "up" /\ u # Nothing
        /\ r = "down" => Tail(W) = <<>> /\ desc = NoFile
        /\ u = Root => desc = NoFile
        /\ DescriptorOK(desc)
    <2>1. Nothing # Root
      BY PathsAreSequences
    <2> QED
      BY <1>1, <2>1 DEF Inductive
  <1> HIDE DEF e, u
  <1>6. Inductive(e, r, Tail(W), u, desc, op)
    BY <1>1, <1>2, <1>4, <1>5 DEF Inductive
  <1> QED
    BY <1>6 DEF e, u

(* Between operations nothing is in doubt.                                 *)
LEMMA IdleLayout ==
    ASSUME IInv, Idle
    PROVE  /\ Disk(disk) /\ DescriptorOK(descriptor) /\ pending = <<>>
           /\ \E L : Rep(disk, L, Nothing) /\ OpenIn(L, descriptor, opened)
  <1>1. Nothing # Root
    BY PathsAreSequences
  <1>2. StateOK(disk, Nothing, descriptor, opened)
    BY <1>1, InductiveNow DEF IInv, Idle
  <1> QED
    BY <1>2 DEF IInv, Inductive, Idle, StateOK

(* Each step keeps the invariant.                                          *)
LEMMA NothingHappens ==
    ASSUME IInv, UNCHANGED vars
    PROVE  IInv'
  BY DEF IInv, vars

(* An operation that fails before it writes.                               *)
LEMMA FailUnreadStep ==
    ASSUME IInv, Idle, FailUnread
    PROVE  IInv'
  <1>1. Inductive(disk, running', pending, target, descriptor, opened)
    BY DEF IInv, Inductive, Idle, FailUnread
  <1> QED
    BY <1>1 DEF IInv, FailUnread

(* The start of an operation.                                              *)
LEMMA BeginStep ==
    ASSUME IInv, Idle, NEW p \in Paths, NEW W, NEW desc, NEW op, DescriptorOK(desc),
           Proceeds(disk, W, p, desc, op),
           Begin(p, W), running' = running, descriptor' = desc, opened' = op
    PROVE  IInv'
  <1>1. Disk(disk) /\ p # Root
    BY PathsAreSequences DEF IInv, Inductive
  <1>2. Inductive(disk, "up", W, p, desc, op)
    BY <1>1, BegunInductive
  <1> QED
    BY <1>2 DEF IInv, Begin, Idle

(* Format starts from any disk.                                            *)
LEMMA FormatStep ==
    ASSUME IInv, Format
    PROVE  IInv'
  <1>1. Disk(disk) /\ descriptor = NoFile
    BY DEF IInv, Inductive, Format
  <1>2. Inductive(disk, "up", FormatWrites, Root, NoFile, opened)
    BY <1>1, FormatProceeds, BegunInductive, NoFileOK
  <1>3. disk' = disk /\ pending' = FormatWrites /\ target' = Root
    BY Zenon DEF Format, Begin, FormatWrites
  <1>4. running' = "up" /\ descriptor' = NoFile /\ opened' = opened
    BY <1>1 DEF Format
  <1> QED
    BY <1>2, <1>3, <1>4 DEF IInv

(* Boot changes nothing on the disk.                                       *)
LEMMA BootStep ==
    ASSUME IInv, Boot
    PROVE  IInv'
  <1>1. Inductive(disk, "up", pending, target, descriptor, opened)
    BY DEF IInv, Inductive, Boot
  <1> QED
    BY <1>1 DEF IInv, Boot

(* One sector is written.                                                  *)
LEMMA WriteSectorStep ==
    ASSUME IInv, WriteSector
    PROVE  IInv'
  <1>1. /\ Inductive(disk, running, pending, target, descriptor, opened) /\ pending # <<>>
        /\ disk' = [disk EXCEPT ![Head(pending).at] = Head(pending).is]
        /\ pending' = Tail(pending)
        /\ target' = IF Len(pending) = 1 THEN Nothing ELSE target
        /\ running' = running /\ descriptor' = descriptor /\ opened' = opened
    BY DEF IInv, WriteSector
  <1>2. Inductive([disk EXCEPT ![Head(pending).at] = Head(pending).is], running, Tail(pending),
                  IF Len(pending) = 1 THEN Nothing ELSE target, descriptor, opened)
    BY <1>1, WrittenInductive
  <1> QED
    BY <1>1, <1>2, Zenon DEF IInv

(* The machine stops before any write.                                     *)
LEMMA StopStep ==
    ASSUME IInv, Stop
    PROVE  IInv'
  <1>1. Inductive(disk, running, pending, target, descriptor, opened)
    BY DEF IInv
  <1>2. Disk(disk) /\ target \in Paths \cup {Root, Nothing}
    BY <1>1 DEF Inductive
  <1>3. target # Root => StateOK(disk, target, NoFile, Nothing)
    BY <1>1, InductiveNow, StateOfNoFile
  <1>4. Inductive(disk, "down", <<>>, target, NoFile, Nothing)
    BY <1>2, <1>3, QuietInductive, NoFileOK
  <1>5. /\ disk' = disk /\ running' = "down" /\ pending' = <<>> /\ target' = target
        /\ descriptor' = NoFile /\ opened' = Nothing
    BY DEF Stop
  <1> QED
    BY <1>4, <1>5 DEF IInv

(* The object is deleted, or fileDescriptor set to NULL.                   *)
LEMMA ForgottenStep ==
    ASSUME IInv, Idle, Forgotten
    PROVE  IInv'
  <1>1. PICK L : Rep(disk, L, Nothing) /\ OpenIn(L, descriptor, opened)
    BY IdleLayout
  <1>2. Disk(disk) /\ pending = <<>> /\ Nothing # Root
    BY IdleLayout, PathsAreSequences
  <1>3. StateOK(disk, Nothing, NoFile, Nothing)
    BY <1>1 DEF StateOK, OpenIn
  <1>4. Inductive(disk, "up", <<>>, Nothing, NoFile, Nothing)
    BY <1>2, <1>3, QuietInductive, NoFileOK
  <1>5. /\ disk' = disk /\ running' = "up" /\ pending' = <<>> /\ target' = Nothing
        /\ descriptor' = NoFile /\ opened' = Nothing
    BY DEF Forgotten, Idle
  <1> QED
    BY <1>4, <1>5 DEF IInv

(* A call through a pointer that dangles.                                  *)
LEMMA UseOfDeletedStep ==
    ASSUME IInv, Idle, UseOfDeleted
    PROVE  IInv'
  <1>1. Inductive(disk, "undefined", pending, target, descriptor, opened)
    BY DEF IInv, Inductive, Idle
  <1> QED
    BY <1>1 DEF IInv, UseOfDeleted

(* What Create and CreateDirectory share.                                  *)
LEMMA NewEntryStep ==
    ASSUME IInv, Idle, NEW p \in Paths, ProperPath(p), ~NameTaken(p),
           NEW size \in Nat, HasRoom(p, size),
           NEW dir \in BOOLEAN, dir => size = DirectorySize,
           NEW contents, contents = IF dir THEN NewTableWrite ELSE <<>>,
           Begin(p, NewEntryWrites(p, size, dir, contents)),
           UNCHANGED <<running, descriptor, opened>>
    PROVE  IInv'
  <1>1. PICK L : Rep(disk, L, Nothing) /\ OpenIn(L, descriptor, opened)
    BY IdleLayout
  <1>2. Disk(disk) /\ DescriptorOK(descriptor)
    BY IdleLayout
  <1>3. PICK W : W = NewEntryWrites(p, size, dir, contents)
    OBVIOUS
  <1>4. Proceeds(disk, W, p, descriptor, opened)
    BY <1>1, <1>2, <1>3, CreateProceeds
  <1> QED
    BY <1>2, <1>3, <1>4, BeginStep

(* Create, whether it fails or not.                                        *)
LEMMA CreateStep ==
    ASSUME IInv, NEW p \in Paths, NEW size \in Sizes, Create(p, size)
    PROVE  IInv'
  <1>1. Idle /\ ProperPath(p) /\ size \in Nat
    BY FileSysAssumption DEF Create, CommandTime, ProgramTime
  <1>2. CASE NameTaken(p)
    BY <1>1, <1>2, FailUnreadStep DEF Create
  <1>3. CASE ~NameTaken(p) /\ ~HasRoom(p, size)
    BY <1>3, NothingHappens DEF Create
  <1>4. CASE ~NameTaken(p) /\ HasRoom(p, size)
    <2>1. /\ Begin(p, NewEntryWrites(p, size, FALSE, <<>>))
          /\ UNCHANGED <<running, descriptor, opened>>
      BY <1>4 DEF Create
    <2>2. PICK dir \in BOOLEAN : dir = FALSE
      OBVIOUS
    <2>3. PICK contents : contents = <<>>
      OBVIOUS
    <2>4. Begin(p, NewEntryWrites(p, size, dir, contents))
      BY <2>1, <2>2, <2>3
    <2>5. (dir => size = DirectorySize) /\ contents = IF dir THEN NewTableWrite ELSE <<>>
      BY <2>2, <2>3
    <2> QED
      BY <1>1, <1>4, <2>1, <2>4, <2>5, NewEntryStep
  <1> QED
    BY <1>2, <1>3, <1>4

(* CreateDirectory, whether it fails or not.                               *)
LEMMA CreateDirectoryStep ==
    ASSUME IInv, NEW p \in Paths, CreateDirectory(p)
    PROVE  IInv'
  <1>1. Idle /\ ProperPath(p) /\ DirectorySize \in Nat
    BY DEF CreateDirectory, CommandTime, DirectorySize
  <1> DEFINE Fails == \/ NameTaken(p) \/ FindAndSet(FreeMap(disk)) = NoSector
                      \/ FreeEntries(ParentTable(p)) = {}
  <1>2. CASE Fails
    BY <1>1, <1>2, FailUnreadStep DEF CreateDirectory
  <1>3. CASE ~Fails /\ ~HasRoom(p, DirectorySize)
    BY <1>3, NothingHappens DEF CreateDirectory
  <1>4. CASE ~Fails /\ HasRoom(p, DirectorySize)
    <2>1. /\ Begin(p, NewEntryWrites(p, DirectorySize, TRUE, NewTableWrite))
          /\ UNCHANGED <<running, descriptor, opened>>
      BY <1>4 DEF CreateDirectory
    <2>2. PICK dir \in BOOLEAN : dir = TRUE
      OBVIOUS
    <2>3. PICK contents : contents = NewTableWrite
      OBVIOUS
    <2>4. Begin(p, NewEntryWrites(p, DirectorySize, dir, contents))
      BY <2>1, <2>2, <2>3
    <2>5. contents = IF dir THEN NewTableWrite ELSE <<>>
      BY <2>2, <2>3
    <2>6. ~NameTaken(p)
      BY <1>4
    <2> QED
      BY <1>1, <1>4, <2>1, <2>4, <2>5, <2>6, NewEntryStep
  <1> QED
    BY <1>2, <1>3, <1>4

(* Remove: with the right sector, with a wrong one, or with no such path.  *)
LEMMA RemoveStep ==
    ASSUME IInv, Holder, NEW p \in Paths, RemovePath(p)
    PROVE  IInv'
  <1>1. Idle /\ ProperPath(p) /\ descriptor = NoFile
    BY DEF RemovePath, CommandTime, Holder
  <1>2. PICK L : Rep(disk, L, Nothing) /\ OpenIn(L, descriptor, opened)
    BY <1>1, IdleLayout
  <1>3. Disk(disk) /\ pending = <<>>
    BY <1>1, IdleLayout
  <1>4. Exists(disk, p) =>
           /\ Proceeds(disk, RemoveWrites(p), p, NoFile, opened)
           /\ Disk([disk EXCEPT ![RemoveWrites(p)[1].at] = RemoveWrites(p)[1].is])
           /\ StateOK([disk EXCEPT ![RemoveWrites(p)[1].at] = RemoveWrites(p)[1].is],
                      p, NoFile, opened)
    BY <1>1, <1>2, <1>3, RemoveProceeds
  <1>5. CASE /\ Exists(disk, p) /\ Begin(p, RemoveWrites(p))
             /\ UNCHANGED <<running, descriptor, opened>>
    <2>1. running' = running /\ descriptor' = NoFile /\ opened' = opened
      BY <1>1, <1>5
    <2>2. Proceeds(disk, RemoveWrites(p), p, NoFile, opened) /\ Begin(p, RemoveWrites(p))
      BY <1>4, <1>5
    <2>3. PICK W : W = RemoveWrites(p)
      OBVIOUS
    <2>4. Proceeds(disk, W, p, NoFile, opened) /\ Begin(p, W)
      BY <2>2, <2>3
    <2> QED
      BY <1>1, <2>1, <2>4, BeginStep, NoFileOK
  <1>6. CASE Exists(disk, p) /\ RemoveWrongSector(p)
    <2>1. PICK e : e = [disk EXCEPT ![RemoveWrites(p)[1].at] = RemoveWrites(p)[1].is]
      OBVIOUS
    <2>2. Disk(e) /\ StateOK(e, p, NoFile, opened)
      BY <1>4, <1>6, <2>1
    <2>3. p # Root
      BY PathsAreSequences
    <2>4. Inductive(e, "undefined", <<>>, p, NoFile, opened)
      BY <2>2, <2>3, QuietInductive, NoFileOK
    <2>5. /\ disk' = e /\ running' = "undefined" /\ pending' = <<>> /\ target' = p
          /\ descriptor' = NoFile /\ opened' = opened
      BY <1>1, <1>3, <1>6, <2>1 DEF RemoveWrongSector
    <2> QED
      BY <2>4, <2>5 DEF IInv
  <1>7. CASE ~Exists(disk, p) /\ FailUnread
    BY <1>1, <1>7, FailUnreadStep
  <1> QED
    BY <1>5, <1>6, <1>7, Zenon DEF RemovePath

(* Open: the headers it caches are those of the layout.                    *)
LEMMA OpenedStep ==
    ASSUME IInv, Idle, NEW p \in Paths, Openable(p), Opened(p)
    PROVE  IInv'
  <1>1. ProperPath(p) /\ ~IsDirectory(disk, p)
    BY DEF Openable
  <1>2. PICK L : Rep(disk, L, Nothing) /\ OpenIn(L, descriptor, opened)
    BY <1>1, IdleLayout
  <1>3. Disk(disk) /\ pending = <<>> /\ running = "up" /\ target = Nothing /\ Nothing # Root
    BY <1>1, IdleLayout, PathsAreSequences DEF Idle
  <1>4. /\ Exists(disk, p)
        /\ descriptor' = [headers |-> FetchFrom(disk, Lookup(disk, p)), seek |-> 0]
        /\ opened' = p
        /\ UNCHANGED <<disk, running, pending, target, tree>>
    BY DEF Opened
  <1>5. PICK headers : headers = FetchFrom(disk, Lookup(disk, p))
    OBVIOUS
  <1>6. PICK desc : desc = [headers |-> headers, seek |-> 0]
    OBVIOUS
  <1>7. p \in DOMAIN L
    BY <1>1, <1>2, <1>4, ParentInLayout
  <1>8. headers = L[p].headers /\ ~L[p].dir /\ ItemOK(disk, L[p])
    BY <1>1, <1>2, <1>5, <1>7, PathFound DEF Rep, Items
  <1>9. DescriptorOK(desc)
    <2>1. SectorsOf(headers) \in Seq(Sectors)
      BY <1>8 DEF ItemOK
    <2>2. 0 \in 0 .. Len(SectorsOf(headers))
      BY <2>1
    <2> QED
      BY <1>6, <2>2, Zenon DEF DescriptorOK
  <1>10. OpenIn(L, desc, p)
    <2>1. desc.headers = headers
      BY <1>6
    <2> QED
      BY <1>7, <1>8, <2>1 DEF OpenIn
  <1>11. StateOK(disk, Nothing, desc, p)
    BY <1>2, <1>10 DEF StateOK
  <1>12. Inductive(disk, "up", <<>>, Nothing, desc, p)
    BY <1>3, <1>9, <1>11, QuietInductive
  <1>13. /\ disk' = disk /\ running' = "up" /\ pending' = <<>> /\ target' = Nothing
        /\ descriptor' = desc /\ opened' = p
    BY <1>3, <1>4, <1>5, <1>6
  <1> QED
    BY <1>12, <1>13 DEF IInv

(* Open of a name that is not there.                                       *)
LEMMA NotFoundStep ==
    ASSUME IInv, Idle, NEW p \in Paths, NotFound(p)
    PROVE  IInv'
  <1>1. CASE Forgotten
    BY <1>1, ForgottenStep
  <1>2. CASE Stop
    BY <1>2, StopStep
  <1> QED
    BY <1>1, <1>2 DEF NotFound

(* Read moves seekPosition only.                                           *)
LEMMA SeekStep ==
    ASSUME IInv, Idle, NEW size \in Nat, descriptor # NoFile,
           descriptor' = [descriptor EXCEPT !.seek = End(size)],
           UNCHANGED <<disk, running, pending, opened, target>>
    PROVE  IInv'
  <1>1. Idle /\ descriptor # NoFile /\ size \in Nat
    OBVIOUS
  <1>2. PICK L : Rep(disk, L, Nothing) /\ OpenIn(L, descriptor, opened)
    BY <1>1, IdleLayout
  <1>3. /\ Disk(disk) /\ pending = <<>> /\ running = "up" /\ target = Nothing /\ Nothing # Root
        /\ DescriptorOK(descriptor)
    BY <1>1, IdleLayout, PathsAreSequences DEF Idle
  <1>4. FileSectors \in Seq(Sectors)
    BY <1>1, <1>2 DEF OpenIn, Rep, Items, ItemOK, FileSectors
  <1>5. PICK desc : desc = [descriptor EXCEPT !.seek = End(size)]
    OBVIOUS
  <1>6. DescriptorOK(desc) /\ desc # NoFile /\ desc.headers = descriptor.headers
    BY <1>1, <1>3, <1>4, <1>5, EndOK
  <1>7. OpenIn(L, desc, opened)
    BY <1>1, <1>2, <1>6 DEF OpenIn
  <1>8. StateOK(disk, Nothing, desc, opened)
    BY <1>2, <1>7 DEF StateOK
  <1>9. Inductive(disk, "up", <<>>, Nothing, desc, opened)
    BY <1>3, <1>6, <1>8, QuietInductive
  <1>10. /\ disk' = disk /\ running' = "up" /\ pending' = <<>> /\ target' = Nothing
         /\ descriptor' = desc /\ opened' = opened
    BY <1>3, <1>5
  <1> QED
    BY <1>9, <1>10 DEF IInv

(* A write goes to the sectors of the open file.                             *)
LEMMA WriteOpenedStep ==
    ASSUME IInv, Idle, NEW size \in Nat, NEW value \in Values, WriteOpened(size, value)
    PROVE  IInv'
  <1>1. Idle /\ descriptor # NoFile /\ size \in Nat
    BY DEF WriteOpened
  <1>2. PICK L : Rep(disk, L, Nothing) /\ OpenIn(L, descriptor, opened)
    BY <1>1, IdleLayout
  <1>3. /\ Disk(disk) /\ pending = <<>> /\ running = "up" /\ target = Nothing /\ Nothing # Root
        /\ DescriptorOK(descriptor)
    BY <1>1, IdleLayout, PathsAreSequences DEF Idle
  <1>4. CASE DataWrites(size, value) = <<>>
    <2>1. /\ descriptor' = [descriptor EXCEPT !.seek = End(size)]
          /\ UNCHANGED <<disk, running, pending, opened, target>>
      BY <1>4 DEF WriteOpened
    <2> QED
      BY <1>1, <2>1, SeekStep
  <1>5. CASE DataWrites(size, value) # <<>>
    <2>1. PICK W : W = DataWrites(size, value)
      OBVIOUS
    <2>2. PICK desc : desc = [descriptor EXCEPT !.seek = End(size)]
      OBVIOUS
    <2>3. FileSectors \in Seq(Sectors)
      BY <1>1, <1>2 DEF OpenIn, Rep, Items, ItemOK, FileSectors
    <2>4. DescriptorOK(desc) /\ desc.headers = descriptor.headers
      BY <1>1, <1>3, <2>2, <2>3, EndOK
    <2>5. Proceeds(disk, W, opened, desc, opened)
      BY <1>1, <1>2, <1>3, <1>5, <2>1, <2>4, WriteProceeds
    <2>6. opened \in Paths
      <3>1. opened \in DOMAIN L /\ ~L[opened].dir
        BY <1>1, <1>2 DEF OpenIn
      <3>2. L[Root].dir /\ DOMAIN L \subseteq Paths \cup {Root}
        BY <1>2 DEF Rep, Shape
      <3> QED
        BY <3>1, <3>2
    <2>7. Begin(opened, W) /\ running' = running /\ descriptor' = desc /\ opened' = opened
      BY <1>5, <2>1, <2>2 DEF WriteOpened
    <2> QED
      BY <1>1, <2>4, <2>5, <2>6, <2>7, BeginStep
  <1> QED
    BY <1>4, <1>5

(* The callers of Open.                                                    *)
LEMMA OpenStep ==
    ASSUME IInv, NEW p \in Paths, PrintFile(p) \/ Load(p) \/ OpenAFile(p)
    PROVE  IInv'
  <1>1. Idle /\ Openable(p)
    BY DEF PrintFile, Load, OpenAFile, CommandTime, ProgramTime
  <1>2. Forgotten \/ Opened(p) \/ NotFound(p)
    BY DEF PrintFile, Load, OpenAFile, OpenedAndDeleted
  <1> QED
    BY <1>1, <1>2, ForgottenStep, OpenedStep, NotFoundStep

(* Copy.                                                                   *)
LEMMA CopyStep ==
    ASSUME IInv, Holder, CopyOpen \/ CopyClose \/ \E v \in Values : CopyWrite(v)
    PROVE  IInv'
  <1>1. Idle /\ copying \in Paths
    BY DEF Holder, CopyOpen, CopyClose, CopyWrite
  <1>2. CASE CopyOpen
    <2>1. Openable(copying) /\ Opened(copying)
      BY <1>2 DEF CopyOpen
    <2> QED
      BY <1>1, <2>1, OpenedStep
  <1>3. CASE CopyClose
    BY <1>1, <1>3, ForgottenStep DEF CopyClose
  <1>4. ASSUME NEW v \in Values, CopyWrite(v) PROVE IInv'
    <2>1. WriteOpened(1, v) /\ 1 \in Nat
      BY <1>4 DEF CopyWrite
    <2> QED
      BY <1>1, <2>1, WriteOpenedStep
  <1> QED
    BY <1>2, <1>3, <1>4

(* The system calls on the open file.                                      *)
LEMMA CallStep ==
    ASSUME IInv, Close \/ \E size \in Sizes : Read(size) \/ \E v \in Values : Write(size, v)
    PROVE  IInv'
  <1>1. Idle
    BY DEF Close, Read, Write, ProgramTime
  <1>2. CASE UseOfDeleted
    BY <1>1, <1>2, UseOfDeletedStep
  <1>3. CASE Close /\ ~UseOfDeleted
    BY <1>1, <1>3, ForgottenStep DEF Close
  <1>4. ASSUME NEW size \in Sizes, Read(size), ~UseOfDeleted PROVE IInv'
    <2>1. /\ descriptor # NoFile /\ size \in Nat
          /\ descriptor' = [descriptor EXCEPT !.seek = End(size)]
          /\ UNCHANGED <<disk, running, pending, opened, target>>
      BY <1>4, FileSysAssumption DEF Read
    <2> QED
      BY <1>1, <2>1, SeekStep
  <1>5. ASSUME NEW size \in Sizes, NEW v \in Values, Write(size, v), ~UseOfDeleted PROVE IInv'
    <2>1. WriteOpened(size, v) /\ size \in Nat
      BY <1>5, FileSysAssumption DEF Write
    <2> QED
      BY <1>1, <2>1, WriteOpenedStep
  <1> QED
    BY <1>2, <1>3, <1>4, <1>5

(* On a disk that was never formatted nothing is claimed.                  *)
LEMMA InitIInv == Init => IInv /\ Holder
  <1> SUFFICES ASSUME Init PROVE IInv /\ Holder
    OBVIOUS
  <1>1. disk = [s \in Sectors |-> DataSector(Junk)]
    BY DEF Init
  <1>2. Disk(disk)
    BY <1>1 DEF Disk
  <1>3. Inductive(disk, "down", <<>>, Root, NoFile, Nothing)
    BY <1>2, QuietInductive, NoFileOK
  <1> QED
    BY <1>3 DEF Init, IInv, Holder

(* No step breaks the invariant.                                           *)
LEMMA NextIInv == IInv /\ Holder /\ [Next]_vars => IInv'
  <1> SUFFICES ASSUME IInv, Holder, [Next]_vars PROVE IInv'
    OBVIOUS
  <1>1. CASE Format
    BY <1>1, FormatStep
  <1>2. CASE Boot
    BY <1>2, BootStep
  <1>3. CASE WriteSector
    BY <1>3, WriteSectorStep
  <1>4. CASE Stop
    BY <1>4, StopStep
  <1>5. ASSUME NEW p \in Paths, NEW size \in Sizes, Create(p, size) PROVE IInv'
    BY <1>5, CreateStep
  <1>6. ASSUME NEW p \in Paths, CreateDirectory(p) PROVE IInv'
    BY <1>6, CreateDirectoryStep
  <1>7. ASSUME NEW p \in Paths, RemovePath(p) PROVE IInv'
    BY <1>7, RemoveStep
  <1>8. ASSUME NEW p \in Paths, PrintFile(p) \/ Load(p) \/ OpenAFile(p) PROVE IInv'
    BY <1>8, OpenStep
  <1>9. CASE CopyOpen \/ CopyClose \/ \E v \in Values : CopyWrite(v)
    BY <1>9, CopyStep
  <1>10. CASE Close \/ \E size \in Sizes : Read(size) \/ \E v \in Values : Write(size, v)
    BY <1>10, CallStep
  <1>11. CASE UNCHANGED vars
    BY <1>11, NothingHappens
  <1> QED
    BY <1>1, <1>2, <1>3, <1>4, <1>5, <1>6, <1>7, <1>8, <1>9, <1>10, <1>11 DEF Next

(* Only Copy, while it is copying, and a program that was loaded keep an   *)
(* object open.                                                            *)
LEMMA NextHolder == Holder /\ [Next]_vars => Holder'
  <1> SUFFICES ASSUME Holder, [Next]_vars PROVE Holder'
    OBVIOUS
  <1> USE DEF Holder
  <1>1. CASE Format \/ Boot \/ WriteSector \/ Stop
    BY <1>1 DEF Format, Boot, WriteSector, Stop, callers
  <1>2. ASSUME NEW p \in Paths, NEW size \in Sizes, Create(p, size) PROVE Holder'
    <2>1. p # Nothing
      BY PathsAreSequences
    <2> QED
      BY <1>2, <2>1 DEF Create, FailUnread, vars, callers
  <1>3. ASSUME NEW p \in Paths, CreateDirectory(p) PROVE Holder'
    BY <1>3 DEF CreateDirectory, FailUnread, vars, callers
  <1>4. ASSUME NEW p \in Paths, RemovePath(p) PROVE Holder'
    BY <1>4 DEF RemovePath, RemoveWrongSector, FailUnread, callers
  <1>5. ASSUME NEW p \in Paths, PrintFile(p) \/ Load(p) PROVE Holder'
    BY <1>5 DEF PrintFile, Load, OpenedAndDeleted, NotFound, Forgotten, Stop
  <1>6. ASSUME NEW p \in Paths, OpenAFile(p) PROVE Holder'
    BY <1>6 DEF OpenAFile, Opened, NotFound, Forgotten, Stop, ProgramTime
  <1>7. CASE CopyOpen \/ CopyClose
    BY <1>7 DEF CopyOpen, CopyClose, Opened, Forgotten
  <1>8. ASSUME NEW v \in Values, CopyWrite(v) PROVE Holder'
    BY <1>8 DEF CopyWrite, WriteOpened, callers
  <1>9. CASE Close
    BY <1>9 DEF Close, UseOfDeleted, Forgotten, callers
  <1>10. ASSUME NEW size \in Sizes, Read(size) PROVE Holder'
    BY <1>10 DEF Read, UseOfDeleted, ProgramTime, callers
  <1>11. ASSUME NEW size \in Sizes, NEW v \in Values, Write(size, v) PROVE Holder'
    BY <1>11 DEF Write, WriteOpened, UseOfDeleted, ProgramTime, callers
  <1>12. CASE UNCHANGED vars
    BY <1>12 DEF vars, callers
  <1> QED
    BY <1>1, <1>2, <1>3, <1>4, <1>5, <1>6, <1>7, <1>8, <1>9, <1>10, <1>11, <1>12 DEF Next

-----------------------------------------------------------------------------
(* At every moment, whatever operation is under way or was cut short, the  *)
(* disk has a layout in which each sector has one owner; and an object that *)
(* fileDescriptor points to is held by a program or by Copy.               *)
THEOREM Invariance == Spec => [](IInv /\ Holder)
  <1>1. Init => IInv /\ Holder
    BY InitIInv
  <1>2. (IInv /\ Holder) /\ [Next]_vars => (IInv /\ Holder)'
    BY NextIInv, NextHolder
  <1> QED
    BY <1>1, <1>2, PTL DEF Spec

(* With a layout each sector has one owner, and those of files are marked. *)
LEMMA SectorsHere == IInv => SectorsInv
  <1> SUFFICES ASSUME IInv PROVE SectorsInv
    OBVIOUS
  <1>1. CASE target = Root
    BY <1>1 DEF SectorsInv
  <1>2. CASE target # Root
    <2>1. PICK L : Rep(disk, L, target)
      BY <1>2, InductiveNow DEF IInv, StateOK
    <2> QED
      BY <1>2, <2>1, LayoutSafe
  <1> QED
    BY <1>1, <1>2

(* With a layout the cached headers are those of the opened path.          *)
LEMMA DescriptorHere == IInv => DescriptorCurrent
  <1> SUFFICES ASSUME IInv, descriptor # NoFile
               PROVE  /\ Exists(disk, opened)
                      /\ descriptor.headers = FetchFrom(disk, Lookup(disk, opened))
    BY DEF DescriptorCurrent
  <1>1. target # Root
    BY DEF IInv, Inductive
  <1>2. PICK L : Rep(disk, L, target) /\ OpenIn(L, descriptor, opened)
    BY <1>1, InductiveNow DEF IInv, StateOK
  <1>3. opened \in DOMAIN L /\ descriptor.headers = L[opened].headers
    BY <1>2 DEF OpenIn
  <1> QED
    BY <1>2, <1>3, PathFound

(* No sector belongs to two files and no sector of a file is free in the   *)
(* bitmap on disk, at every moment and after a stop at any sector write    *)
(* (Create, CreateDirectory and Remove of filesys.cc).                     *)
THEOREM SectorsCorrect == Spec => []SectorsInv
  BY Invariance, SectorsHere, PTL

(* While fileDescriptor points to an object, what it caches is on disk:    *)
(* Read and Write of a program and the writes of Copy go to sectors that   *)
(* the opened file still owns (FileSystem::Open and Remove).               *)
THEOREM DescriptorCorrect == Spec => []DescriptorCurrent
  BY Invariance, DescriptorHere, PTL
=============================================================================
