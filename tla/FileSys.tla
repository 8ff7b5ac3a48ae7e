------------------------------ MODULE FileSys ------------------------------
(***************************************************************************)
(* The file system of NachOS MP4 (filesys.cc, directory.cc, filehdr.cc,    *)
(* pbitmap.cc, openfile.cc): file headers, directories and the bitmap of   *)
(* free sectors on a disk that is written one sector at a time.            *)
(*                                                                         *)
(* An operation reads what it needs, decides, and then writes.  Nothing    *)
(* else runs meanwhile (filesys.cc: "there is no synchronization for       *)
(* concurrent accesses"), so what it reads and the sectors it is going to  *)
(* write are settled in its first step, and each WriteSector is a step     *)
(* before which the machine may stop.  All that survives is the disk.      *)
(*                                                                         *)
(* main carries out its commands first (-r, -cp, -mkdir, -p) and then      *)
(* loads the programs (-e).  Open stores what it opens in fileDescriptor   *)
(* whoever calls it; Copy, Print and the loader delete the object and      *)
(* leave the pointer, so that a program starts with one that dangles.      *)
(*                                                                         *)
(* Data is counted in sectors: a directory's table and the bitmap take one *)
(* each, and a file's size is its number of sectors.                       *)
(***************************************************************************)
EXTENDS Integers, SequencesExt

CONSTANTS NumSectors,   \* the size of the disk
          NumDirect,    \* data sectors in one header
          NumEntries,   \* NumDirEntries
          Names,        \* names of files and directories
          MaxDepth,     \* bound: components of a path
          Sizes,        \* bound: sectors of a file, and of one read or write
          Values,       \* what a program writes into a sector
          NoEntry       \* a directory entry that is not in use

ASSUME FileSysAssumption ==
    /\ {NumDirect, NumEntries, MaxDepth} \subseteq Nat \ {0}
    /\ NumSectors \in Nat /\ NumSectors > 4
    /\ Sizes \subseteq Nat
    /\ IsFiniteSet(Names) /\ "nothing" \notin Names
    /\ NoEntry \notin [name : Names, sector : 0 .. NumSectors - 1, dir : BOOLEAN]

Sectors == 0 .. NumSectors - 1
FreeMapSector == 0
DirectorySector == 1
NoSector == -1
DirectorySize == 1
Root == <<>>
Nothing == <<"nothing">>   \* in the place of a path: none
NoFile == <<>>             \* in the place of the descriptor: no object
Paths == SeqOf(Names, MaxDepth) \ {Root}

VARIABLES disk,        \* what each sector holds
          running,     \* down, up, or undefined: up to the compiler and the heap
          pending,     \* the sector writes the operation in progress still makes
          descriptor,  \* the object of FileSystem::fileDescriptor: its header, seekPosition
          dangling,    \* whether fileDescriptor points to an object that was deleted
          copying,     \* the file Copy has created and not yet closed
          loaded,      \* whether a program has been loaded
          opened,      \* history: the path descriptor was opened by
          target,      \* history: the path of an operation not completed, or cut short
          tree         \* history: the names on disk when last no operation was going on

callers == <<dangling, copying, loaded>>
vars == <<disk, running, pending, descriptor, callers, opened, target, tree>>

(* A definition marked "fault" is the one after it with a mistake in it.   *)
(* No specification uses it: put in place of the correct one, it makes the *)
(* property it is meant for fail, which shows that the property can fail.  *)

-----------------------------------------------------------------------------
(* What a sector holds.                                                    *)
HeaderSector(data, next) == [type |-> "header", data |-> data, next |-> next]
TableSector(table) == [type |-> "table", table |-> table]
BitmapSector(marked) == [type |-> "bitmap", marked |-> marked]
DataSector(value) == [type |-> "data", value |-> value]
Junk == "junk"             \* the data of a sector no program has written

(* Bitmap::FindAndSet and NumClear, on the set of marked sectors.          *)
Clear(marked) == Sectors \ marked
FindAndSet(marked) == IF Clear(marked) = {} THEN NoSector ELSE Min(Clear(marked))

(* What the i-th of several calls of FindAndSet in a row returns.          *)
NthClear(marked, i) ==
    CHOOSE s \in Clear(marked) : Cardinality({r \in Clear(marked) : r < s}) = i - 1

(* FileHeader::Allocate: as many data sectors as the header has room for,  *)
(* and while something remains a sector for a next header and what it has  *)
(* room for, all in the order in which FindAndSet gives them out.          *)
HeadersFor(size) == Min({n \in 1 .. size + 1 : size <= n * NumDirect})
Room(size, h) == IF h < HeadersFor(size) THEN NumDirect ELSE size - (h - 1) * NumDirect
TakenFor(size) == size + HeadersFor(size) - 1

NotAllocated == [ok |-> FALSE, marked |-> {}, headers |-> <<>>]
Allocate(marked, size) ==
    LET data(h) == [j \in 1 .. Room(size, h) |->
                       NthClear(marked, (h - 1) * (NumDirect + 1) + j)]
        next(h) == IF h = HeadersFor(size) THEN NoSector
                   ELSE NthClear(marked, h * (NumDirect + 1))
    IN  IF Cardinality(Clear(marked)) < TakenFor(size) THEN NotAllocated
        ELSE [ok |-> TRUE,
              marked |-> marked \cup {NthClear(marked, i) : i \in 1 .. TakenFor(size)},
              headers |-> [h \in 1 .. HeadersFor(size) |-> HeaderSector(data(h), next(h))]]

(* FileHeader::WriteBack: each header at the sector the one before names.  *)
HeaderWrites(sector, headers) ==
    [i \in DOMAIN headers |->
        [at |-> IF i = 1 THEN sector ELSE headers[i - 1].next, is |-> headers[i]]]

(* FileHeader::FetchFrom: the headers of a file, first to last, each where *)
(* the one before says.                                                    *)
IsHeader(d, sector) == sector \in Sectors /\ d[sector].type = "header"
NextHeader(d, sector) == IF IsHeader(d, sector) THEN d[sector].next ELSE NoSector
Chain(d, sector) ==
    LET at[i \in 1 .. NumSectors] ==
            IF i = 1 THEN sector ELSE NextHeader(d, at[i - 1])
    IN  at
FetchFrom(d, sector) ==
    LET at == Chain(d, sector)
        n == CHOOSE k \in 0 .. NumSectors :
                /\ \A i \in 1 .. k : IsHeader(d, at[i])
                /\ k < NumSectors => ~IsHeader(d, at[k + 1])
    IN  [i \in 1 .. n |-> d[at[i]]]

(* FileHeader::ByteToSector over the length of the file: every header but  *)
(* the last is full.                                                       *)
FileLength(headers) ==
    IF headers = <<>> THEN 0
    ELSE (Len(headers) - 1) * NumDirect + Len(Last(headers).data)
SectorsOf(headers) ==
    [i \in 1 .. FileLength(headers) |->
        headers[((i - 1) \div NumDirect) + 1].data[((i - 1) % NumDirect) + 1]]

(* FileHeader::Deallocate clears the data sectors of every header, and not *)
(* the sectors that hold the second header and those after it.             *)
Deallocate(marked, headers) == marked \ ToSet(SectorsOf(headers))

-----------------------------------------------------------------------------
(* Directory: a table of entries, found by name; the first entry that is   *)
(* not in use takes a new name.                                            *)
EmptyTable == [i \in 1 .. NumEntries |-> NoEntry]
EntryOf(table, name) == {i \in DOMAIN table : table[i] # NoEntry /\ table[i].name = name}
Find(table, name) ==
    IF EntryOf(table, name) = {} THEN NoSector ELSE table[Min(EntryOf(table, name))].sector

FreeEntries(table) == {i \in DOMAIN table : table[i] = NoEntry}
Add(table, name, sector, dir) ==
    [table EXCEPT ![Min(FreeEntries(table))] = [name |-> name, sector |-> sector, dir |-> dir]]
RemoveEntry(table, name) == [table EXCEPT ![Min(EntryOf(table, name))] = NoEntry]

(* Directory::FetchFrom of the file with that header.                      *)
TableSectorOf(d, header) == SectorsOf(FetchFrom(d, header))[1]
TableAt(d, header) ==
    LET sectors == SectorsOf(FetchFrom(d, header))
    IN  IF sectors = <<>> THEN EmptyTable
        ELSE IF d[sectors[1]].type # "table" THEN EmptyTable
        ELSE d[sectors[1]].table

(* FileSystem::OpenDir: the header sectors on the way down a path, and the *)
(* one it leads to.                                                        *)
Way(d, path) ==
    LET at[i \in 0 .. Len(path)] ==
            IF i = 0 THEN DirectorySector
            ELSE IF at[i - 1] = NoSector THEN NoSector
            ELSE Find(TableAt(d, at[i - 1]), path[i])
    IN  at
Lookup(d, path) == Way(d, path)[Len(path)]

Exists(d, path) == Lookup(d, path) # NoSector
EntryAt(d, path) ==
    LET table == TableAt(d, Lookup(d, Front(path)))
    IN  table[Min(EntryOf(table, Last(path)))]
IsDirectory(d, path) == path = Root \/ (Exists(d, path) /\ EntryAt(d, path).dir)

FreeMap(d) == d[SectorsOf(FetchFrom(d, FreeMapSector))[1]].marked
FreeMapWrite(d, marked) ==
    [at |-> SectorsOf(FetchFrom(d, FreeMapSector))[1], is |-> BitmapSector(marked)]
TableWrite(d, path, table) ==
    [at |-> TableSectorOf(d, Lookup(d, path)), is |-> TableSector(table)]

(* The tree of names the disk stands for.                                  *)
Value(sector) == IF sector.type = "data" THEN sector.value ELSE Junk
Node(d, path) ==
    LET sectors == SectorsOf(FetchFrom(d, Lookup(d, path)))
    IN  IF EntryAt(d, path).dir THEN [dir |-> TRUE, blocks |-> <<>>]
        ELSE [dir |-> FALSE, blocks |-> [i \in DOMAIN sectors |-> Value(d[sectors[i]])]]

Reachable(d) ==
    {p \in Paths : Exists(d, p) /\ \A i \in 1 .. Len(p) - 1 : IsDirectory(d, SubSeq(p, 1, i))}
TreeOf(d) == [path \in Reachable(d) |-> Node(d, path)]

-----------------------------------------------------------------------------
Init ==
    /\ disk = [s \in Sectors |-> DataSector(Junk)]
    /\ running = "down"
    /\ pending = <<>>
    /\ descriptor = NoFile
    /\ dangling = FALSE
    /\ copying = Nothing
    /\ loaded = FALSE
    /\ opened = Nothing
    /\ target = Root
    /\ tree = TreeOf(disk)

(* The start of an operation: what it is about and what it will write.     *)
Begin(path, writes) ==
    /\ pending' = writes
    /\ target' = path
    /\ UNCHANGED <<disk, tree>>

(* FileSystem::FileSystem(TRUE): a bitmap with two sectors marked, then    *)
(* the bitmap's and the root directory's data, both headers, both files.   *)
Format ==
    /\ running = "down"
    /\ running' = "up"
    /\ LET map == Allocate({FreeMapSector, DirectorySector}, 1)
           dir == Allocate(map.marked, DirectorySize)
       IN  Begin(Root, HeaderWrites(FreeMapSector, map.headers)
                       \o HeaderWrites(DirectorySector, dir.headers)
                       \o <<[at |-> SectorsOf(map.headers)[1], is |-> BitmapSector(dir.marked)],
                            [at |-> SectorsOf(dir.headers)[1], is |-> TableSector(EmptyTable)]>>)
    /\ UNCHANGED <<descriptor, callers, opened>>

(* FileSystem::FileSystem(FALSE), on a disk on which nothing was cut short. *)
Boot ==
    /\ running = "down"
    /\ target = Nothing
    /\ running' = "up"
    /\ UNCHANGED <<disk, pending, descriptor, callers, opened, target, tree>>

(* SynchDisk::WriteSector.                                                 *)
WriteSector ==
    /\ running = "up"
    /\ pending # <<>>
    /\ disk' = [disk EXCEPT ![Head(pending).at] = Head(pending).is]
    /\ pending' = Tail(pending)
    /\ target' = IF Len(pending) = 1 THEN Nothing ELSE target
    /\ tree' = IF Len(pending) = 1 THEN TreeOf(disk') ELSE tree
    /\ UNCHANGED <<running, descriptor, callers, opened>>

(* Halt, a failed assertion, or the end of the process at any moment.      *)
Stop ==
    /\ running = "up"
    /\ running' = "down"
    /\ pending' = <<>>
    /\ descriptor' = NoFile
    /\ dangling' = FALSE
    /\ copying' = Nothing
    /\ loaded' = FALSE
    /\ opened' = Nothing
    /\ tree' = IF pending = <<>> THEN tree ELSE TreeOf(disk)
    /\ UNCHANGED <<disk, target>>

Idle == running = "up" /\ pending = <<>> /\ target = Nothing

(* main starts a command when the one before is over and before it loads   *)
(* the programs; for the programs there are system calls.                  *)
CommandAtAnyTime == Idle                    \* fault
CommandTime == Idle /\ ~loaded /\ copying = Nothing
ProgramTime == Idle /\ loaded

(* The inner components of a path name directories, when they exist.       *)
ProperPath(path) ==
    \A i \in 1 .. Len(path) - 1 :
        Exists(disk, SubSeq(path, 1, i)) => IsDirectory(disk, SubSeq(path, 1, i))

(* Create, CreateDirectory and Remove that fail write nothing.  When they  *)
(* fail before the bitmap is read they delete a pointer never assigned.    *)
FailUnread ==
    /\ running' \in {"up", "undefined"}
    /\ UNCHANGED <<disk, pending, descriptor, callers, opened, target, tree>>

NameTaken(path) == ~Exists(disk, Front(path)) \/ Exists(disk, path)

(* FileSystem::Create and CreateDirectory: a sector for the header, an     *)
(* entry in the parent's table, and room for the data, in this order.      *)
MarkedWithHeader == FreeMap(disk) \cup {FindAndSet(FreeMap(disk))}
Allocation(size) == Allocate(MarkedWithHeader, size)
ParentTable(path) == TableAt(disk, Lookup(disk, Front(path)))
HasRoom(path, size) ==
    /\ FindAndSet(FreeMap(disk)) # NoSector
    /\ FreeEntries(ParentTable(path)) # {}
    /\ Allocation(size).ok

BitmapNotWritten(path, size, dir, contents) ==      \* fault
    LET sector == FindAndSet(FreeMap(disk))
    IN  HeaderWrites(sector, Allocation(size).headers)
        \o <<TableWrite(disk, Front(path), Add(ParentTable(path), Last(path), sector, dir))>>
        \o contents
NewEntryWrites(path, size, dir, contents) ==
    LET sector == FindAndSet(FreeMap(disk))
    IN  HeaderWrites(sector, Allocation(size).headers)
        \o <<TableWrite(disk, Front(path), Add(ParentTable(path), Last(path), sector, dir))>>
        \o contents
        \o <<FreeMapWrite(disk, Allocation(size).marked)>>

(* Called by Copy, which goes on with the file, and by SC_Create.          *)
Create(path, size) ==
    /\ CommandTime \/ ProgramTime
    /\ ProperPath(path)
    /\ IF NameTaken(path) THEN FailUnread
       ELSE IF ~HasRoom(path, size) THEN UNCHANGED vars
       ELSE /\ Begin(path, NewEntryWrites(path, size, FALSE, <<>>))
            /\ copying' = IF loaded THEN Nothing ELSE path
            /\ UNCHANGED <<running, descriptor, dangling, loaded, opened>>

(* The new directory's table is written after the entry that leads to it.  *)
(* Without a free sector or entry, a header pointer is deleted unassigned. *)
NewTableForgotten == <<>>                   \* fault
NewTableWrite ==
    <<[at |-> SectorsOf(Allocation(DirectorySize).headers)[1], is |-> TableSector(EmptyTable)]>>

CreateDirectory(path) ==
    /\ CommandTime
    /\ ProperPath(path)
    /\ IF NameTaken(path) \/ FindAndSet(FreeMap(disk)) = NoSector
          \/ FreeEntries(ParentTable(path)) = {}
       THEN FailUnread
       ELSE IF ~HasRoom(path, DirectorySize) THEN UNCHANGED vars
       ELSE /\ Begin(path, NewEntryWrites(path, DirectorySize, TRUE, NewTableWrite))
            /\ UNCHANGED <<running, descriptor, callers, opened>>

(* FileSystem::Remove: the bitmap, then the parent's table.  A directory   *)
(* goes like a file, whatever is in it.  The root's table is written       *)
(* through OpenDir("/"), which opens a sector number never assigned: by    *)
(* chance the root's, or else the rest is undefined (reading the sector    *)
(* may fail an assertion, or the table may land on some file's data).      *)
Released(path) ==
    Deallocate(FreeMap(disk), FetchFrom(disk, Lookup(disk, path))) \ {Lookup(disk, path)}

RemoveWrites(path) ==
    <<FreeMapWrite(disk, Released(path)),
      TableWrite(disk, Front(path), RemoveEntry(ParentTable(path), Last(path)))>>

RemoveWrongSector(path) ==
    /\ Len(path) = 1
    /\ disk' = [disk EXCEPT ![RemoveWrites(path)[1].at] = RemoveWrites(path)[1].is]
    /\ running' = "undefined"
    /\ target' = path
    /\ UNCHANGED <<pending, descriptor, callers, opened, tree>>

RemovePath(path) ==
    /\ CommandTime
    /\ ProperPath(path)
    /\ \/ Exists(disk, path) /\ Begin(path, RemoveWrites(path))
                             /\ UNCHANGED <<running, descriptor, callers, opened>>
       \/ Exists(disk, path) /\ RemoveWrongSector(path)
       \/ ~Exists(disk, path) /\ FailUnread

-----------------------------------------------------------------------------
(* FileSystem::Open, the caller deciding what becomes of the object: the   *)
(* header is read once and cached.  In a subdirectory a name that is not   *)
(* there opens sector -1, which fails an assertion.                        *)
Openable(path) == ProperPath(path) /\ ~IsDirectory(disk, path)

Opened(path) ==
    /\ Exists(disk, path)
    /\ descriptor' = [headers |-> FetchFrom(disk, Lookup(disk, path)), seek |-> 0]
    /\ dangling' = FALSE
    /\ opened' = path
    /\ UNCHANGED <<disk, running, pending, copying, loaded, target, tree>>

Forgotten ==
    /\ descriptor' = NoFile
    /\ opened' = Nothing
    /\ UNCHANGED <<disk, running, pending, target, tree>>

NotFound(path) ==
    /\ ~Exists(disk, path)
    /\ \/ /\ Len(path) = 1 \/ ~Exists(disk, Front(path))
          /\ Forgotten
          /\ dangling' = FALSE
          /\ UNCHANGED <<copying, loaded>>
       \/ /\ Len(path) > 1 /\ Exists(disk, Front(path))
          /\ Stop

(* SC_Open.                                                                *)
OpenAFile(path) ==
    /\ ProgramTime
    /\ Openable(path)
    /\ Opened(path) \/ NotFound(path)

(* Print and AddrSpace::Load: the file is opened, read and deleted.  Of    *)
(* several programs (-e) one may be loaded while another has a file open.  *)
OpenedAndDeleted(path) ==
    /\ Exists(disk, path)
    /\ Forgotten
    /\ dangling' = TRUE
    /\ UNCHANGED copying

PrintFile(path) ==
    /\ CommandTime
    /\ Openable(path)
    /\ (OpenedAndDeleted(path) /\ UNCHANGED loaded) \/ NotFound(path)

Load(path) ==
    /\ CommandTime \/ ProgramTime
    /\ Openable(path)
    /\ (OpenedAndDeleted(path) /\ loaded' = TRUE) \/ NotFound(path)

(* FileSystem::Read and Write of size sectors from seekPosition on, cut    *)
(* off at the end of the file (OpenFile::ReadAt, WriteAt).                 *)
FileSectors == SectorsOf(descriptor.headers)
End(size) ==
    IF descriptor.seek + size > Len(FileSectors) THEN Len(FileSectors)
                                                 ELSE descriptor.seek + size

DataWrites(size, value) ==
    [i \in 1 .. End(size) - descriptor.seek |->
        [at |-> FileSectors[descriptor.seek + i], is |-> DataSector(value)]]

WriteOpened(size, value) ==
    /\ descriptor # NoFile
    /\ IF DataWrites(size, value) = <<>> THEN UNCHANGED <<disk, pending, target, tree>>
       ELSE Begin(opened, DataWrites(size, value))
    /\ descriptor' = [descriptor EXCEPT !.seek = End(size)]
    /\ UNCHANGED <<running, callers, opened>>

(* Copy opens the file it has created, writes it in pieces of a sector up  *)
(* to its end, and deletes the object.                                     *)
CopyOpen ==
    /\ Idle /\ copying # Nothing /\ descriptor = NoFile
    /\ Openable(copying)
    /\ Opened(copying)

CopyWrite(value) ==
    /\ Idle /\ copying # Nothing /\ descriptor # NoFile
    /\ descriptor.seek < Len(FileSectors)
    /\ WriteOpened(1, value)

CopyClose ==
    /\ Idle /\ copying # Nothing /\ descriptor # NoFile
    /\ descriptor.seek = Len(FileSectors)
    /\ Forgotten
    /\ dangling' = TRUE
    /\ copying' = Nothing
    /\ UNCHANGED loaded

(* A call through a pointer to an object that has been deleted.            *)
UseOfDeleted ==
    /\ dangling
    /\ running' = "undefined"
    /\ UNCHANGED <<disk, pending, descriptor, callers, opened, target, tree>>

(* SC_Read, SC_Write and SC_Close; the first two do nothing on NULL.       *)
Read(size) ==
    /\ ProgramTime
    /\ \/ UseOfDeleted
       \/ /\ descriptor # NoFile
          /\ descriptor' = [descriptor EXCEPT !.seek = End(size)]
          /\ UNCHANGED <<disk, running, pending, callers, opened, target, tree>>

Write(size, value) == ProgramTime /\ (UseOfDeleted \/ WriteOpened(size, value))

Close ==
    /\ ProgramTime
    /\ \/ UseOfDeleted
       \/ ~dangling /\ Forgotten /\ UNCHANGED callers

Next ==
    \/ Format \/ Boot \/ WriteSector \/ Stop
    \/ \E p \in Paths :
          \/ \E size \in Sizes : Create(p, size)
          \/ CreateDirectory(p) \/ RemovePath(p) \/ PrintFile(p) \/ Load(p) \/ OpenAFile(p)
    \/ CopyOpen \/ CopyClose \/ \E v \in Values : CopyWrite(v)
    \/ Close \/ \E size \in Sizes : Read(size) \/ \E v \in Values : Write(size, v)

Spec == Init /\ [][Next]_vars

-----------------------------------------------------------------------------
(* The sectors of what a path leads to: its headers and its data.          *)
HeaderSectors(sector, headers) ==
    ({sector} \cup {headers[i].next : i \in DOMAIN headers}) \ {NoSector}
Owned(d, path) ==
    LET headers == FetchFrom(d, Lookup(d, path))
    IN  HeaderSectors(Lookup(d, path), headers) \cup ToSet(SectorsOf(headers))
FreeMapOwned(d) ==
    LET headers == FetchFrom(d, FreeMapSector)
    IN  HeaderSectors(FreeMapSector, headers) \cup ToSet(SectorsOf(headers))

Existing == Reachable(disk) \cup {Root}

(* No sector belongs to two files: at every moment, in the middle of an    *)
(* operation and after one that was cut short as well.  And every sector   *)
(* that belongs to a file is marked in the bitmap on disk, except, while   *)
(* an operation is unfinished, those of the path it is about.  (A new      *)
(* directory shows what its sector held before until its table is written; *)
(* what is below the path of an unfinished operation does not count.)      *)
FreeMapFile == <<"free map">>
Claims ==
    (FreeMapOwned(disk) \X {FreeMapFile})
    \cup UNION {Owned(disk, p) \X {p} :
                  p \in {q \in Existing : q = target \/ ~IsPrefix(target, q)}}

SectorsInv ==
    target # Root =>
        LET claims == Claims
            marked == FreeMap(disk)
        IN  /\ \A x, y \in claims : x[1] = y[1] => x[2] = y[2]
            /\ \A x \in claims : x[2] # target => x[1] \in marked

(* While fileDescriptor points to an object, the header that object caches *)
(* is the one on disk of the path it was opened by: a read or a write goes *)
(* to sectors the file still owns, however often files were opened over    *)
(* one another, by programs, Copy and the loader.                          *)
DescriptorCurrent ==
    descriptor # NoFile =>
        /\ Exists(disk, opened)
        /\ descriptor.headers = FetchFrom(disk, Lookup(disk, opened))

(* The operations change the tree of names as their names say; one that is *)
(* cut short, at whatever write, leaves every other path as it was.        *)
AbstractTree == INSTANCE Namespace WITH
    Blocks <- Values \cup {Junk},
    Sizes <- Sizes,
    damaged <- IF pending = <<>> \/ target = Root THEN target ELSE Nothing

ImplementsNamespace == AbstractTree!Spec

-----------------------------------------------------------------------------
(* What comments of the code say and the code does not do.                 *)

(* filesys.cc, Close: "this operation will always succeed and return 1".   *)
(* Whenever a program may call Close, fileDescriptor is NULL or points to  *)
(* an object that has not been deleted yet.                                *)
CloseSucceeds == ProgramTime => ~dangling

(* filesys.cc, Remove: "Delete the space for its header".  When no         *)
(* operation is unfinished, every marked sector belongs to something that  *)
(* a path leads to.                                                        *)
NoSectorLost ==
    target = Nothing =>
        FreeMap(disk) = FreeMapOwned(disk) \cup UNION {Owned(disk, p) : p \in Existing}
=============================================================================
