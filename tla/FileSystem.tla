------------------------------ MODULE FileSystem ------------------------------
(***************************************************************************)
(* The file system (filesys/filesys.cc, directory.cc, filehdr.cc,          *)
(* openfile.cc and userprog/bitmap.cc) on the sectors of the disk.  It is  *)
(* used by one thread at a time, as filesys.cc asks; NachOS may exit       *)
(* between any two sectors that a Create or a Remove writes, so the        *)
(* properties about the disk are stated of every state, not only between   *)
(* operations.                                                             *)
(*                                                                         *)
(* The bitmap file and the directory file keep their place on the disk,    *)
(* but their contents are the variables map and dir, not bytes.  The       *)
(* bitmap fills one sector (NumSectors / 8 bytes, filesys.cc:61).  The     *)
(* directory takes several (10 entries of 20 bytes in sectors of 128), and *)
(* an entry may lie in two of them: inUse and sector in the first, the     *)
(* name in the second (entry 6, bytes 120 .. 139).                         *)
(***************************************************************************)
EXTENDS Integers, Sequences, FiniteSets

CONSTANTS
    Names,          \* the names of files
    NumSectors,     \* sectors of the disk
    SectorSize,     \* bytes in a sector
    NumDirEntries,  \* entries of the directory
    EntrySize,      \* bytes of a DirectoryEntry (20)
    NameOffset,     \* bytes of it before the name (8)
    NumDirect,      \* data sectors a file header has room for
    Sizes,          \* the initial sizes files are created with
    Bytes,          \* the bytes that are written
    MaxTransfer,    \* bytes in one Read or Write, at most
    Handles,        \* the OpenFile objects of the client
    MaxCalls,       \* calls the client makes, at most
    NULL, Garbage   \* the null pointer; an uninitialized byte or name

Sectors == 0 .. NumSectors - 1
Slots == 1 .. NumDirEntries

divRoundUp(n, s) == (n + s - 1) \div s

(* The headers of bitmap and directory are in sectors 0 and 1 (filesys.cc:55), *)
(* the first data sectors that Find gave them are those that follow.           *)
MapSector == 2
NumDirSectors == divRoundUp(NumDirEntries * EntrySize, SectorSize)
System == 0 .. MapSector + NumDirSectors

(* The sector of the disk with inUse and sector of a slot, and with its name. *)
SectorAt(i) == MapSector + 1 + ((i - 1) * EntrySize) \div SectorSize
NameAt(i) == MapSector + 1 + ((i - 1) * EntrySize + NameOffset) \div SectorSize

(* DirectoryEntry: the sector is NULL if the entry is not in use; the name of *)
(* an entry that is not in use stays what it was.                             *)
Entry == [sector : Sectors \cup {NULL}, name : Names \cup {Garbage}]

(* A Create or Remove: what it has in memory, the sectors it has to write, in *)
(* order, and how many of them it has written.                                *)
Operation ==
    [name : Names, sector : Sectors, header : [numBytes : Nat, dataSectors : Seq(Sectors)],
     dir : [Slots -> Entry], map : SUBSET Sectors, writes : Seq(Sectors), done : Nat]

ASSUME FileSystemAssumption ==
    /\ SectorSize \in Nat \ {0} /\ NumDirEntries \in Nat /\ NumDirect \in Nat
    /\ EntrySize \in Nat /\ NameOffset \in 0 .. EntrySize - 1
    /\ NumSectors \in Nat /\ System \subseteq Sectors
    /\ Sizes \subseteq Nat /\ MaxTransfer \in Nat /\ MaxCalls \in Nat
    /\ Garbage \notin Bytes
    /\ NULL \notin Sectors \cup Operation \cup Seq(Bytes \cup {Garbage})

VARIABLES
    map,    \* the bitmap file: the sectors in use
    dir,    \* the directory file: an Entry in each slot
    disk,   \* every other sector: a file header or a block of bytes
    call,   \* the Create or Remove in progress, or NULL
    open,   \* what each OpenFile holds: its file header and seekPosition
    data,   \* what the last Read returned
    up,     \* no ASSERT has failed, no array been overrun; the model ends there
    calls   \* calls so far

vars == <<map, dir, disk, call, open, data, up, calls>>

Header(size, sectors) == [numBytes |-> size, dataSectors |-> sectors]

(* The disk after the constructor of FileSystem has formatted it.  Directory *)
(* does not set the names it writes (directory.cc:40-43).                    *)
Init ==
    /\ map = System
    /\ dir \in [Slots -> [sector : {NULL}, name : Names \cup {Garbage}]]
    /\ disk = [s \in Sectors |-> [block |-> [p \in 0 .. SectorSize - 1 |-> Garbage]]]
    /\ call = NULL
    /\ open = [h \in Handles |-> NULL]
    /\ data = <<>>
    /\ up = TRUE /\ calls = 0

(* A client's call, between two others. *)
Calls == up /\ call = NULL /\ calls < MaxCalls /\ calls' = calls + 1

-----------------------------------------------------------------------------
(* Directory::FindIndex on a directory d: the slots in use with a name. *)
SlotsOf(d, n) == {i \in Slots : d[i].sector # NULL /\ d[i].name = n}
FreeSlots == {i \in Slots : dir[i].sector = NULL}
Lowest(S) == CHOOSE i \in S : \A j \in S : i <= j
HeaderOf(d, n) == disk[d[Lowest(SlotsOf(d, n))].sector].header

NumClear(used) == Cardinality(Sectors \ used)

(* The sector that the i-th call of BitMap::Find takes, -1 if none is left. *)
Find(used, i) ==
    IF NumClear(used) < i THEN -1
    ELSE CHOOSE s \in Sectors \ used : Cardinality({r \in Sectors \ used : r < s}) = i - 1

(* FileHeader::Allocate out of the map, in order. *)
Allocate(used, size) == [i \in 1 .. divRoundUp(size, SectorSize) |-> Find(used, i)]

(* Directory::WriteBack, through OpenFile::WriteAt: sector after sector. *)
DirectoryWrites == [k \in 1 .. NumDirSectors |-> MapSector + k]

(* Mutants of Create: the directory is written before the header; the data  *)
(* sectors are not marked.                                                  *)
CreateDirectoryFirst(n, size) ==
    /\ Calls
    /\ SlotsOf(dir, n) = {} /\ FreeSlots # {}
    /\ NumClear(map) > divRoundUp(size, SectorSize)
    /\ LET sector == Find(map, 1)
           sectors == Allocate(map \cup {sector}, size)
       IN call' = [name |-> n, sector |-> sector, header |-> Header(size, sectors),
                   dir |-> [dir EXCEPT ![Lowest(FreeSlots)] = [sector |-> sector, name |-> n]],
                   map |-> map \cup {sector} \cup {sectors[i] : i \in DOMAIN sectors},
                   writes |-> DirectoryWrites \o <<sector, MapSector>>, done |-> 0]
    /\ UNCHANGED <<map, dir, disk, open, data, up>>

CreateMarksHeaderOnly(n, size) ==
    /\ Calls
    /\ SlotsOf(dir, n) = {} /\ FreeSlots # {}
    /\ NumClear(map) > divRoundUp(size, SectorSize)
    /\ LET sector == Find(map, 1)
           sectors == Allocate(map \cup {sector}, size)
       IN call' = [name |-> n, sector |-> sector, header |-> Header(size, sectors),
                   dir |-> [dir EXCEPT ![Lowest(FreeSlots)] = [sector |-> sector, name |-> n]],
                   map |-> map \cup {sector},
                   writes |-> <<sector>> \o DirectoryWrites \o <<MapSector>>, done |-> 0]
    /\ UNCHANGED <<map, dir, disk, open, data, up>>

(* FileSystem::Create, up to its writes: the directory and the bitmap are   *)
(* fetched, changed in memory, and discarded if anything fails.  Allocate   *)
(* asks for free sectors, not for room in dataSectors: a larger file        *)
(* overruns the array, and what the program does then is not modelled.      *)
Create(n, size) ==
    /\ Calls
    /\ IF \/ SlotsOf(dir, n) # {} \/ FreeSlots = {}
          \/ NumClear(map) <= divRoundUp(size, SectorSize)
       THEN UNCHANGED <<call, up>>
       ELSE LET sector == Find(map, 1)
                sectors == Allocate(map \cup {sector}, size)
            IN /\ call' = [name |-> n, sector |-> sector, header |-> Header(size, sectors),
                           dir |-> [dir EXCEPT ![Lowest(FreeSlots)] =
                                        [sector |-> sector, name |-> n]],
                           map |-> map \cup {sector} \cup {sectors[i] : i \in DOMAIN sectors},
                           writes |-> <<sector>> \o DirectoryWrites \o <<MapSector>>,
                           done |-> 0]
               /\ up' = (divRoundUp(size, SectorSize) <= NumDirect)
    /\ UNCHANGED <<map, dir, disk, open, data>>

DataSectors(header) == {header.dataSectors[i] : i \in DOMAIN header.dataSectors}

(* Mutant of Remove: Deallocate is forgotten. *)
RemoveKeepsData(n) ==
    /\ Calls
    /\ \A h \in Handles : open[h] # NULL => open[h].name # n
    /\ IF SlotsOf(dir, n) = {} THEN UNCHANGED call
       ELSE LET slot == Lowest(SlotsOf(dir, n))
            IN call' = [name |-> n, sector |-> dir[slot].sector, header |-> HeaderOf(dir, n),
                        dir |-> [dir EXCEPT ![slot].sector = NULL],
                        map |-> map \ {dir[slot].sector},
                        writes |-> <<MapSector>> \o DirectoryWrites, done |-> 0]
    /\ UNCHANGED <<map, dir, disk, open, data, up>>

(* FileSystem::Remove, up to its writes; Deallocate asserts that the data   *)
(* sectors are in use.  The client has no OpenFile on the file: its header  *)
(* would go on naming sectors that are free.                                *)
Remove(n) ==
    /\ Calls
    /\ \A h \in Handles : open[h] # NULL => open[h].name # n
    /\ IF SlotsOf(dir, n) = {} THEN UNCHANGED <<call, up>>
       ELSE LET slot == Lowest(SlotsOf(dir, n))
                header == HeaderOf(dir, n)
            IN IF ~ DataSectors(header) \subseteq map
               THEN up' = FALSE /\ UNCHANGED call
               ELSE /\ call' = [name |-> n, sector |-> dir[slot].sector, header |-> header,
                                dir |-> [dir EXCEPT ![slot].sector = NULL],
                                map |-> (map \ DataSectors(header)) \ {dir[slot].sector},
                                writes |-> <<MapSector>> \o DirectoryWrites, done |-> 0]
                    /\ UNCHANGED up
    /\ UNCHANGED <<map, dir, disk, open, data>>

(* The next sector that the Create or Remove in progress writes: the header *)
(* of the file, the bitmap, or a part of the directory.                     *)
WriteBack ==
    /\ up /\ call # NULL
    /\ LET s == call.writes[call.done + 1]
       IN /\ map' = IF s = MapSector THEN call.map ELSE map
          /\ dir' = [i \in Slots |->
                 [sector |-> IF SectorAt(i) = s THEN call.dir[i].sector ELSE dir[i].sector,
                  name |-> IF NameAt(i) = s THEN call.dir[i].name ELSE dir[i].name]]
          /\ disk' = IF s \in System THEN disk
                     ELSE [disk EXCEPT ![s] = [header |-> call.header]]
    /\ call' = IF call.done + 1 = Len(call.writes) THEN NULL ELSE [call EXCEPT !.done = @ + 1]
    /\ UNCHANGED <<open, data, up, calls>>

-----------------------------------------------------------------------------
Open(h, n) ==
    /\ Calls /\ open[h] = NULL /\ SlotsOf(dir, n) # {}
    /\ open' = [open EXCEPT ![h] = [name |-> n, header |-> HeaderOf(dir, n), seek |-> 0]]
    /\ UNCHANGED <<map, dir, disk, call, data, up>>

Close(h) ==
    /\ Calls /\ open[h] # NULL
    /\ open' = [open EXCEPT ![h] = NULL]
    /\ UNCHANGED <<map, dir, disk, call, data, up>>

(* OpenFile::Seek; a position past the end is as good as the end. *)
Seek(h, position) ==
    /\ Calls /\ open[h] # NULL /\ position <= open[h].header.numBytes
    /\ open' = [open EXCEPT ![h].seek = position]
    /\ UNCHANGED <<map, dir, disk, call, data, up>>

(* FileHeader::ByteToSector, and the byte of the file that is there. *)
ByteToSector(header, p) == header.dataSectors[p \div SectorSize + 1]

ByteAt(header, p) ==
    LET sector == disk[ByteToSector(header, p)]
    IN IF "block" \in DOMAIN sector THEN sector.block[p % SectorSize] ELSE Garbage

(* The bytes a transfer of n bytes at position gets done. *)
Clipped(header, n, position) ==
    IF position + n > header.numBytes THEN header.numBytes - position ELSE n

(* OpenFile::Read. *)
Read(h, n) ==
    /\ Calls /\ open[h] # NULL
    /\ LET header == open[h].header
           position == open[h].seek
           done == Clipped(header, n, position)
       IN /\ data' = [i \in 1 .. done |-> ByteAt(header, position + i - 1)]
          /\ open' = [open EXCEPT ![h].seek = @ + done]
    /\ UNCHANGED <<map, dir, disk, call, up>>

(* Mutant of Fetched: one sector, with its beginning written, is not read. *)
FetchedIfManySectors(position, done, p) ==
    LET first == position \div SectorSize
        last == (position + done - 1) \div SectorSize
    IN \/ p \div SectorSize = first /\ position % SectorSize # 0
       \/ p \div SectorSize = last /\ (position + done) % SectorSize # 0 /\ first # last

(* WriteAt reads the first sector if the write begins inside it, and the last *)
(* one if the write ends inside it and it has not been read.                  *)
Fetched(position, done, p) ==
    LET first == position \div SectorSize
        last == (position + done - 1) \div SectorSize
    IN \/ p \div SectorSize = first /\ position % SectorSize # 0
       \/ /\ p \div SectorSize = last /\ (position + done) % SectorSize # 0
          /\ first # last \/ position % SectorSize = 0

(* OpenFile::Write and WriteAt: whole sectors are written, out of a buffer  *)
(* that was filled from the disk where it had to be.                        *)
Write(h, bytes) ==
    /\ Calls /\ open[h] # NULL
    /\ LET header == open[h].header
           position == open[h].seek
           done == Clipped(header, Len(bytes), position)
           sectors == position \div SectorSize .. (position + done - 1) \div SectorSize
           Buffer(p) == IF p >= position /\ p < position + done THEN bytes[p - position + 1]
                        ELSE IF Fetched(position, done, p) /\ p < header.numBytes
                        THEN ByteAt(header, p) ELSE Garbage
           written == {i \in sectors : done > 0}
           Index(s) == CHOOSE i \in written : header.dataSectors[i + 1] = s
       IN /\ disk' = [s \in Sectors |->
                 IF \E i \in written : header.dataSectors[i + 1] = s
                 THEN [block |-> [q \in 0 .. SectorSize - 1 |->
                                      Buffer(Index(s) * SectorSize + q)]]
                 ELSE disk[s]]
          /\ open' = [open EXCEPT ![h].seek = @ + done]
    /\ UNCHANGED <<map, dir, call, data, up>>

Next ==
    \/ \E n \in Names : Remove(n) \/ \E size \in Sizes : Create(n, size)
    \/ WriteBack
    \/ \E h \in Handles :
         \/ \E n \in Names : Open(h, n)
         \/ Close(h)
         \/ \E position \in 0 .. MaxTransfer : Seek(h, position)
         \/ \E k \in 1 .. MaxTransfer :
              Read(h, k) \/ \E bytes \in [1 .. k -> Bytes] : Write(h, bytes)
    \/ (up => call = NULL /\ calls = MaxCalls) /\ UNCHANGED vars

Spec == Init /\ [][Next]_vars

-----------------------------------------------------------------------------
Entries == {i \in Slots : dir[i].sector # NULL}
SectorsOf(i) == {dir[i].sector} \cup DataSectors(disk[dir[i].sector].header)

(* The entries of the files that no Create or Remove is at. *)
Settled == {i \in Entries : call # NULL => dir[i].sector # call.sector}

TypeOK ==
    /\ map \subseteq Sectors /\ dir \in [Slots -> Entry]
    /\ call # NULL => call \in Operation
    /\ \A s \in Sectors : DOMAIN disk[s] = {"block"} \/ DOMAIN disk[s] = {"header"}
    /\ \A h \in Handles : open[h] # NULL =>
           open[h].name \in Names /\ open[h].seek \in 0 .. open[h].header.numBytes
    /\ up \in BOOLEAN /\ calls \in 0 .. MaxCalls

(* filehdr.cc:65: Deallocate never finds a sector free (no ASSERT fails). *)
NeverAborts == up

(* Between two operations the bitmap marks the sectors of the files there are *)
(* and no others, and no two files share one: Create and Remove neither leak  *)
(* sectors nor hand one out twice, also after those that failed half way.     *)
MapIsExact == call = NULL =>
    /\ map = System \cup UNION {SectorsOf(i) : i \in Entries}
    /\ \A i, j \in Entries : i # j => SectorsOf(i) \cap SectorsOf(j) = {}
    /\ \A i \in Entries : SectorsOf(i) \cap System = {}

(* Whenever NachOS exits, also between two sectors of the directory, every  *)
(* entry in use leads to a header on the disk, and only the entry of the    *)
(* file being created or removed can be at odds with the rest: every other  *)
(* one has its sectors marked, its own, and a name that no other settled    *)
(* entry has.  (An entry with only its first half written still has the     *)
(* name of an earlier file, and may so hide a settled one.)                 *)
OthersSurvive ==
    /\ \A i \in Entries : "header" \in DOMAIN disk[dir[i].sector]
    /\ \A i \in Settled :
         /\ SectorsOf(i) \subseteq map
         /\ \A j \in Entries \ {i} : SectorsOf(i) \cap SectorsOf(j) = {}
         /\ dir[i].name \in Names
         /\ \A j \in Settled \ {i} : dir[i].name # dir[j].name

(* The file system implements AtomicFiles: the files are those the directory *)
(* names, with the bytes their headers lead to.  A file is there, or gone,   *)
(* with the first sector of the directory, the second write of an operation. *)
Directory == IF call # NULL /\ call.done > 1 THEN call.dir ELSE dir

Contents(d, n) == [p \in 1 .. HeaderOf(d, n).numBytes |-> ByteAt(HeaderOf(d, n), p - 1)]

Abstract == INSTANCE AtomicFiles WITH
    None <- NULL,
    files <- [n \in Names |->
        IF SlotsOf(Directory, n) = {} THEN NULL ELSE Contents(Directory, n)]

ImplementsAtomicFiles == Abstract!Spec

(* filehdr.h:31-32, filesys.cc:36: a file is no longer than the sectors its  *)
(* header has room for.  Nothing in Create or Allocate sees to it.           *)
HeaderFits == call # NULL => Len(call.header.dataSectors) <= NumDirect

(* What the constants have to be for that. *)
SizesFit == \A size \in Sizes : divRoundUp(size, SectorSize) <= NumDirect
=============================================================================
