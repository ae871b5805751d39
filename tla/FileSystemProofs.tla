--------------------------- MODULE FileSystemProofs ---------------------------
(***************************************************************************)
(* The file system, for every disk, directory and set of files: between    *)
(* any two sectors that Create and Remove write, the files that are not    *)
(* theirs are whole, no ASSERT fails, and the bytes are those of plain     *)
(* files.                                                                  *)
(***************************************************************************)
EXTENDS FileSystem, SequenceTheorems, FiniteSetTheorems, TLAPS

Headers ==
    {header \in [numBytes : Nat, dataSectors : Seq(Sectors)] :
        /\ Len(header.dataSectors) = divRoundUp(header.numBytes, SectorSize)
        /\ \A i, j \in DOMAIN header.dataSectors :
             header.dataSectors[i] = header.dataSectors[j] => i = j}

Blocks == [0 .. SectorSize - 1 -> Bytes \cup {Garbage}]

CallRecords ==
    [name : Names, sector : Sectors, header : Headers, dir : [Slots -> Entry],
     map : SUBSET Sectors, writes : Seq(Sectors), done : Nat]

FileTypes ==
    /\ map \subseteq Sectors
    /\ dir \in [Slots -> Entry]
    /\ disk \in [Sectors -> [block : Blocks] \cup [header : Headers]]
    /\ call = NULL \/ call \in CallRecords
    /\ \A h \in Handles : open[h] = NULL \/
           open[h] \in [name : Names, header : Headers, seek : Nat]
    /\ DOMAIN open = Handles
    /\ up \in BOOLEAN /\ calls \in 0 .. MaxCalls

(* The sectors in use are those of the system and of the entries E.  Each of *)
(* these has its own sectors, a name of its own, and leads to a header that  *)
(* is not in the data it describes.                                          *)
Whole(used, E) ==
    /\ used = System \cup UNION {SectorsOf(i) : i \in E}
    /\ \A i, j \in E : i # j => SectorsOf(i) \cap SectorsOf(j) = {}
    /\ \A i \in E : /\ SectorsOf(i) \cap System = {} /\ dir[i].name \in Names
                    /\ disk[dir[i].sector] \in [header : Headers]
                    /\ dir[i].sector \notin DataSectors(disk[dir[i].sector].header)
    /\ \A i, j \in E : dir[i].name = dir[j].name => i = j

(* An OpenFile holds the header of a file that one of the entries E leads to. *)
OpenIn(E) == \A h \in Handles : open[h] # NULL =>
    /\ open[h].seek <= open[h].header.numBytes
    /\ \E i \in E : /\ dir[i].name = open[h].name
                    /\ disk[dir[i].sector] = [header |-> open[h].header]

(* A Create or Remove in slot s leaves the other entries, whose sectors are *)
(* those used, alone.                                                       *)
Apart(used, s) ==
    /\ Whole(used, Entries \ {s}) /\ OpenIn(Entries \ {s})
    /\ \A i \in Entries \ {s} : dir[i].name # call.name
    /\ \A i \in Slots \ {s} : dir[i] = call.dir[i]
    /\ call.sector \notin System /\ call.sector \notin DataSectors(call.header)

OwnSectors == {call.sector} \cup DataSectors(call.header)

(* The directory's sector t is written: it is the k+1-st of both operations. *)
Behind(t) == t < MapSector + call.done

(* Create writes the header, the directory and the bitmap, in this order. *)
Creating(s) ==
    /\ call.writes = <<call.sector>> \o DirectoryWrites \o <<MapSector>>
    /\ call.done \in 0 .. NumDirSectors + 1
    /\ Apart(map, s) /\ OwnSectors \cap map = {} /\ call.map = map \cup OwnSectors
    /\ call.dir[s] = [sector |-> call.sector, name |-> call.name]
    /\ dir[s].sector = IF Behind(SectorAt(s)) THEN call.sector ELSE NULL
    /\ Behind(NameAt(s)) => dir[s].name = call.name
    /\ call.done > 0 => disk[call.sector] = [header |-> call.header]

(* Remove writes the bitmap and the directory. *)
Removing(s) ==
    /\ call.writes = <<MapSector>> \o DirectoryWrites
    /\ call.done \in 0 .. NumDirSectors
    /\ Apart(call.map, s) /\ OwnSectors \cap call.map = {}
    /\ map = IF call.done > 0 THEN call.map ELSE call.map \cup OwnSectors
    /\ call.dir[s] = [sector |-> NULL, name |-> call.name]
    /\ dir[s] = [sector |-> IF Behind(SectorAt(s)) THEN NULL ELSE call.sector,
                 name |-> call.name]
    /\ disk[call.sector] = [header |-> call.header]

Progress ==
    IF call = NULL THEN Whole(map, Entries) /\ OpenIn(Entries)
    ELSE \E s \in Slots : Creating(s) \/ Removing(s)

FileInv == FileTypes /\ Progress

-----------------------------------------------------------------------------
(* The elements of a finite set of integers are ranked without gaps: the     *)
(* rank is an injection into as many numbers as there are elements.          *)
Below(S, s) == {r \in S : r < s}

LEMMA RanksDiffer ==
    ASSUME NEW S \in SUBSET Int, IsFiniteSet(S), NEW s \in S, NEW t \in S, s < t
    PROVE  Cardinality(Below(S, s)) < Cardinality(Below(S, t))
<1>1. IsFiniteSet(Below(S, s)) /\ IsFiniteSet(Below(S, t))
    BY FS_Subset DEF Below
<1>2. s \notin Below(S, s) /\ Below(S, s) \cup {s} \subseteq Below(S, t)
    <2>1. s \in Int /\ t \in Int /\ \A r \in S : r \in Int
        OBVIOUS
    <2>2. \A r \in S : r < s => r < t
        BY <2>1
    <2>3. ~ (s < s) /\ s < t
        BY <2>1
    <2>4. \A r \in Below(S, s) : r \in Below(S, t)
        BY <2>2 DEF Below
    <2>5. s \in Below(S, t) /\ s \notin Below(S, s)
        BY <2>3 DEF Below
    <2> QED BY <2>4, <2>5
<1>3. IsFiniteSet(Below(S, s) \cup {s})
      /\ Cardinality(Below(S, s) \cup {s}) = Cardinality(Below(S, s)) + 1
    BY <1>1, <1>2, FS_AddElement
<1>4. Cardinality(Below(S, s) \cup {s}) <= Cardinality(Below(S, t))
    BY <1>1, <1>2, FS_Subset
<1>5. Cardinality(Below(S, s)) \in Nat /\ Cardinality(Below(S, t)) \in Nat
    BY <1>1, FS_CardinalityType
<1> QED BY <1>3, <1>4, <1>5

LEMMA RankExists ==
    ASSUME NEW S \in SUBSET Int, IsFiniteSet(S), NEW k \in 0 .. Cardinality(S) - 1
    PROVE  \E s \in S : Cardinality(Below(S, s)) = k
<1> DEFINE n == Cardinality(S)
           ranks == 0 .. n - 1
           rank == [s \in S |-> Cardinality(Below(S, s))]
<1>0. n \in Nat
    BY FS_CardinalityType
<1>1. ASSUME NEW s \in S PROVE rank[s] \in ranks
    <2>1. Below(S, s) \subseteq S \ {s}
        BY DEF Below
    <2>2. IsFiniteSet(S \ {s}) /\ Cardinality(S \ {s}) = n - 1
        BY FS_RemoveElement
    <2>3. IsFiniteSet(Below(S, s)) /\ Cardinality(Below(S, s)) <= n - 1
        BY <2>1, <2>2, FS_Subset
    <2>4. Cardinality(Below(S, s)) \in Nat
        BY <2>3, FS_CardinalityType
    <2> QED BY <1>0, <2>3, <2>4
<1>2. ASSUME \A s \in S : rank[s] # k PROVE FALSE
    <2> DEFINE others == ranks \ {k}
    <2>1. rank \in [S -> others]
        BY <1>1, <1>2
    <2>2. IsFiniteSet(ranks) /\ Cardinality(ranks) = n
        BY <1>0, FS_Interval
    <2>3. IsFiniteSet(others) /\ Cardinality(others) = n - 1
        BY <2>2, FS_RemoveElement
    <2>4. Cardinality(others) < Cardinality(S)
        BY <1>0, <2>3
    <2> HIDE DEF others, rank
    <2>5. PICK s \in S, t \in S : s # t /\ rank[s] = rank[t]
        BY <2>1, <2>3, <2>4, FS_PigeonHole
    <2>6. Cardinality(Below(S, s)) = Cardinality(Below(S, t))
        BY <2>5 DEF rank
    <2>7. s < t \/ t < s
        BY <2>5
    <2>8. /\ Cardinality(Below(S, s)) \in Nat /\ Cardinality(Below(S, t)) \in Nat
        BY FS_CardinalityType, FS_Subset DEF Below
    <2> QED BY <2>6, <2>7, <2>8, RanksDiffer
<1> QED BY <1>2

LEMMA SlotsAndSectors ==
    /\ Slots \subseteq Int /\ Sectors \subseteq Int
    /\ \A S \in SUBSET Slots : IsFiniteSet(S)
    /\ \A S \in SUBSET Sectors : IsFiniteSet(S)
<1>1. Slots \subseteq Int /\ Sectors \subseteq Int
    BY DEF Slots, Sectors
<1>2. IsFiniteSet(1 .. NumDirEntries) /\ IsFiniteSet(0 .. NumSectors - 1)
    BY FileSystemAssumption, FS_Interval
<1> QED BY <1>1, <1>2, FS_Subset DEF Slots, Sectors

(* CHOOSE finds the first of any slots. *)
LEMMA LowestIsOne ==
    ASSUME NEW S \in SUBSET Slots, S # {}
    PROVE  Lowest(S) \in S
<1>1. S \in SUBSET Int /\ IsFiniteSet(S)
    BY SlotsAndSectors
<1>2. Cardinality(S) \in Nat /\ Cardinality(S) # 0
    BY <1>1, FS_CardinalityType, FS_EmptySet
<1>3. PICK s \in S : Cardinality(Below(S, s)) = 0
    BY <1>1, <1>2, RankExists
<1>4. Below(S, s) = {}
    <2>1. IsFiniteSet(Below(S, s))
        BY <1>1, FS_Subset DEF Below
    <2> QED BY <1>3, <2>1, FS_EmptySet
<1>5. \A j \in S : s <= j
    BY <1>1, <1>4 DEF Below
<1> QED BY <1>5 DEF Lowest

(* BitMap::Find takes a clear bit as long as there is one, and another one *)
(* each time.                                                              *)
LEMMA FindTakesFree ==
    ASSUME NEW used \in SUBSET Sectors, NEW i \in 1 .. NumClear(used)
    PROVE  /\ Find(used, i) \in Sectors \ used
           /\ Cardinality(Below(Sectors \ used, Find(used, i))) = i - 1
<1> DEFINE S == Sectors \ used
<1>1. S \in SUBSET Int /\ IsFiniteSet(S)
    BY SlotsAndSectors
<1>2. NumClear(used) = Cardinality(S) /\ Cardinality(S) \in Nat
    BY <1>1, FS_CardinalityType DEF NumClear
<1> HIDE DEF S
<1>3. \E s \in S : Cardinality(Below(S, s)) = i - 1
    <2>1. i - 1 \in 0 .. Cardinality(S) - 1
        BY <1>2
    <2> QED BY <1>1, <2>1, RankExists
<1>4. Find(used, i) = CHOOSE s \in S : Cardinality(Below(S, s)) = i - 1
    <2>1. ~ (NumClear(used) < i)
        BY <1>2
    <2> QED BY <2>1 DEF Find, Below, S
<1>5. Find(used, i) \in S /\ Cardinality(Below(S, Find(used, i))) = i - 1
    BY <1>3, <1>4
<1> QED BY <1>5 DEF S

(* FileHeader::Allocate finds a sector of its own for every block of a file. *)
LEMMA AllocateTakesFree ==
    ASSUME NEW used \in SUBSET Sectors, NEW size \in Nat,
           divRoundUp(size, SectorSize) \in Nat,
           divRoundUp(size, SectorSize) <= NumClear(used)
    PROVE  /\ Header(size, Allocate(used, size)) \in Headers
           /\ DataSectors(Header(size, Allocate(used, size)))
                = {Allocate(used, size)[i] : i \in DOMAIN Allocate(used, size)}
           /\ DataSectors(Header(size, Allocate(used, size))) \cap used = {}
<1> DEFINE n == divRoundUp(size, SectorSize)
           sectors == Allocate(used, size)
           header == Header(size, sectors)
<1>0. NumClear(used) \in Nat
    <2>1. IsFiniteSet(Sectors \ used)
        BY SlotsAndSectors
    <2> QED BY <2>1, FS_CardinalityType DEF NumClear
<1>1. sectors = [i \in 1 .. n |-> Find(used, i)]
    BY DEF Allocate
<1> HIDE DEF n, sectors
<1>2. n \in Nat /\ n <= NumClear(used)
    BY DEF n
<1>3. \A i \in 1 .. n : i \in 1 .. NumClear(used)
    BY <1>0, <1>2
<1>4. \A i \in 1 .. n : Find(used, i) \in Sectors \ used
                        /\ Cardinality(Below(Sectors \ used, Find(used, i))) = i - 1
    BY <1>3, FindTakesFree
<1>5. /\ sectors \in Seq(Sectors) /\ Len(sectors) = n /\ DOMAIN sectors = 1 .. n
      /\ \A i \in 1 .. n : sectors[i] \in Sectors \ used
    <2>1. sectors \in [1 .. n -> Sectors] /\ \A i \in 1 .. n : sectors[i] \in Sectors \ used
        BY <1>1, <1>4
    <2> QED BY <1>2, <2>1
<1>6. \A i, j \in 1 .. n : sectors[i] = sectors[j] => i = j
    BY <1>1, <1>4
<1>7. header.numBytes = size /\ header.dataSectors = sectors
      /\ header \in [numBytes : Nat, dataSectors : Seq(Sectors)]
    BY <1>5 DEF Header
<1>8. DataSectors(header) = {sectors[i] : i \in DOMAIN sectors}
    BY <1>7 DEF DataSectors
<1>9. DataSectors(header) \cap used = {}
    BY <1>5, <1>8
<1>10. header \in Headers
    BY <1>5, <1>6, <1>7 DEF Headers, n
<1> QED BY <1>8, <1>9, <1>10 DEF sectors

(* Positions and sectors of a file. *)
LEMMA SectorCount ==
    ASSUME NEW n \in Nat
    PROVE  /\ divRoundUp(n, SectorSize) \in Nat
           /\ \A p \in 0 .. n - 1 : p \div SectorSize + 1 \in 1 .. divRoundUp(n, SectorSize)
<1> DEFINE S == SectorSize
           d == divRoundUp(n, S)
<1>0. S \in Nat /\ S > 0
    BY FileSystemAssumption
<1>1. d = (n + S - 1) \div S
    BY DEF divRoundUp
<1> HIDE DEF S
<1>2. d \in Nat /\ S * d <= n + S - 1 /\ n + S - 1 < S * d + S
    BY <1>0, <1>1
<1> HIDE DEF d
<1>3. ASSUME NEW p \in 0 .. n - 1 PROVE p \div S + 1 \in 1 .. d
    <2> DEFINE q == p \div S
    <2>1. q \in Nat /\ S * q <= p
        BY <1>0
    <2> HIDE DEF q
    <2>2. S * q < S * d
        BY <1>0, <1>2, <2>1
    <2>3. q < d
        BY <1>0, <1>2, <2>1, <2>2
    <2> QED BY <1>2, <2>1, <2>3 DEF q
<1> QED BY <1>2, <1>3 DEF S, d

(* Every number splits in one way into sectors and bytes. *)
LEMMA DivMod ==
    ASSUME NEW p \in Nat
    PROVE  /\ p \div SectorSize \in Nat /\ p % SectorSize \in 0 .. SectorSize - 1
           /\ p = (p \div SectorSize) * SectorSize + (p % SectorSize)
<1> DEFINE S == SectorSize
<1>0. S \in Nat /\ S > 0
    BY FileSystemAssumption
<1> HIDE DEF S
<1>1. p \div S \in Nat
    BY <1>0
<1>2. p % S \in 0 .. S - 1
    BY <1>0
<1>3. p % S = p - S * (p \div S)
    BY <1>0
<1> DEFINE q == p \div S
           r == p % S
<1>4. q \in Nat /\ r \in Int /\ r = p - S * q
    BY <1>1, <1>2, <1>3
<1> HIDE DEF q, r
<1>5. p = q * S + r
    BY <1>0, <1>4
<1> QED BY <1>1, <1>2, <1>5 DEF S, q, r

LEMMA DivModUnique ==
    ASSUME NEW q \in Nat, NEW r \in 0 .. SectorSize - 1
    PROVE  /\ (q * SectorSize + r) \div SectorSize = q
           /\ (q * SectorSize + r) % SectorSize = r
<1> DEFINE S == SectorSize
           p == q * S + r
           d == p \div S
           m == p % S
<1>0. S \in Nat /\ S > 0
    BY FileSystemAssumption
<1>1. q * S \in Nat
    BY <1>0
<1>2. p \in Nat
    BY <1>0, <1>1
<1>3. d \in Nat /\ m \in 0 .. S - 1 /\ p = d * S + m
    <2> HIDE DEF p
    <2>1. /\ p \div SectorSize \in Nat /\ p % SectorSize \in 0 .. SectorSize - 1
          /\ p = (p \div SectorSize) * SectorSize + (p % SectorSize)
        BY <1>2, DivMod
    <2> QED BY <2>1
<1>4. d * S + m = q * S + r
    BY <1>3
<1> HIDE DEF d, m
<1>5. (d - q) * S = r - m /\ r - m < S /\ m - r < S
    BY <1>0, <1>3, <1>4
<1>6. d - q < 1 /\ q - d < 1
    <2>1. CASE d - q >= 1
        <3>1. (d - q) * S >= S
            BY <1>0, <1>3, <2>1
        <3> QED BY <1>0, <1>3, <1>5, <3>1
    <2>2. CASE q - d >= 1
        <3>1. (q - d) * S >= S /\ (q - d) * S = m - r
            BY <1>0, <1>3, <1>5, <2>2
        <3> QED BY <1>0, <1>3, <1>5, <3>1
    <2> QED BY <1>3, <2>1, <2>2
<1>7. d = q
    BY <1>3, <1>6
<1> QED BY <1>0, <1>3, <1>4, <1>7 DEF d, m

-----------------------------------------------------------------------------
(* Where a slot lies, and in which order its sectors are written. *)
LEMMA SlotPlaces ==
    /\ NumDirSectors \in Nat
    /\ \A i \in Slots : /\ SectorAt(i) \in MapSector + 1 .. MapSector + NumDirSectors
                        /\ NameAt(i) \in MapSector + 1 .. MapSector + NumDirSectors
<1> DEFINE n == NumDirEntries * EntrySize
<1>1. n \in Nat /\ NumDirSectors = divRoundUp(n, SectorSize)
    BY FileSystemAssumption DEF NumDirSectors
<1> HIDE DEF n
<1>2. /\ NumDirSectors \in Nat
      /\ \A p \in 0 .. n - 1 : p \div SectorSize + 1 \in 1 .. NumDirSectors
    BY <1>1, SectorCount
<1>3. ASSUME NEW i \in Slots, NEW k \in 0 .. EntrySize - 1
      PROVE  MapSector + 1 + ((i - 1) * EntrySize + k) \div SectorSize
                 \in MapSector + 1 .. MapSector + NumDirSectors
    <2> DEFINE p == (i - 1) * EntrySize + k
               q == p \div SectorSize
    <2>1. p \in 0 .. n - 1
        <3>1. /\ EntrySize \in Nat /\ NumDirEntries \in Nat
              /\ i \in 1 .. NumDirEntries
            BY FileSystemAssumption DEF Slots
        <3>2. (i - 1) * EntrySize \in Nat /\ (i - 1) * EntrySize + EntrySize <= n
            BY <3>1 DEF n
        <3> HIDE DEF n
        <3> QED BY <1>1, <3>1, <3>2
    <2> HIDE DEF p
    <2>2. q + 1 \in 1 .. NumDirSectors /\ q \in Int
        <3>1. p \in Nat
            BY <1>1, <2>1
        <3> QED BY <1>2, <2>1, <3>1, DivMod
    <2> HIDE DEF q
    <2>3. MapSector + 1 + q \in MapSector + 1 .. MapSector + NumDirSectors
        BY <1>2, <2>2 DEF MapSector
    <2> QED BY <2>3 DEF p, q
<1>4. ASSUME NEW i \in Slots PROVE (i - 1) * EntrySize = (i - 1) * EntrySize + 0
    BY FileSystemAssumption DEF Slots
<1>5. 0 \in 0 .. EntrySize - 1 /\ NameOffset \in 0 .. EntrySize - 1
    BY FileSystemAssumption
<1>6. ASSUME NEW i \in Slots
      PROVE  /\ SectorAt(i) \in MapSector + 1 .. MapSector + NumDirSectors
             /\ NameAt(i) \in MapSector + 1 .. MapSector + NumDirSectors
    <2>1. MapSector + 1 + ((i - 1) * EntrySize + 0) \div SectorSize
              \in MapSector + 1 .. MapSector + NumDirSectors
        BY <1>3, <1>5
    <2>2. MapSector + 1 + ((i - 1) * EntrySize + NameOffset) \div SectorSize
              \in MapSector + 1 .. MapSector + NumDirSectors
        BY <1>3, <1>5
    <2> QED BY <1>4, <2>1, <2>2 DEF SectorAt, NameAt
<1> QED BY <1>2, <1>6

LEMMA SystemSectors ==
    /\ System \subseteq Sectors /\ MapSector \in System
    /\ \A k \in 1 .. NumDirSectors : MapSector + k \in System
    /\ \A i \in Slots : SectorAt(i) \in System /\ NameAt(i) \in System
BY SlotPlaces, FileSystemAssumption DEF System, MapSector

LEMMA CreateWrites ==
    ASSUME NEW sector \in Sectors
    PROVE  LET writes == <<sector>> \o DirectoryWrites \o <<MapSector>>
           IN /\ writes \in Seq(Sectors) /\ Len(writes) = NumDirSectors + 2
              /\ writes[1] = sector /\ writes[NumDirSectors + 2] = MapSector
              /\ \A k \in 1 .. NumDirSectors : writes[k + 1] = MapSector + k
<1> DEFINE d == DirectoryWrites
           n == NumDirSectors
<1>1. n \in Nat /\ d \in Seq(Sectors) /\ Len(d) = n /\ \A k \in 1 .. n : d[k] = MapSector + k
    <2>1. d \in [1 .. n -> Sectors]
        BY SystemSectors DEF DirectoryWrites
    <2> QED BY <2>1, SlotPlaces DEF DirectoryWrites
<1> HIDE DEF d, n
<1>2. /\ <<sector>> \in Seq(Sectors) /\ Len(<<sector>>) = 1 /\ <<sector>>[1] = sector
      /\ <<MapSector>> \in Seq(Sectors) /\ Len(<<MapSector>>) = 1 /\ <<MapSector>>[1] = MapSector
    BY SystemSectors
<1> DEFINE e == <<sector>> \o d
           writes == e \o <<MapSector>>
<1>3. /\ e \in Seq(Sectors) /\ Len(e) = n + 1
      /\ \A i \in 1 .. n + 1 : e[i] = IF i <= 1 THEN <<sector>>[i] ELSE d[i - 1]
    BY <1>1, <1>2, ConcatProperties
<1> HIDE DEF e
<1>4. /\ writes \in Seq(Sectors) /\ Len(writes) = n + 2
      /\ \A i \in 1 .. n + 2 : writes[i] = IF i <= n + 1 THEN e[i] ELSE <<MapSector>>[i - (n + 1)]
    BY <1>1, <1>2, <1>3, ConcatProperties
<1> HIDE DEF writes
<1>5. writes[1] = sector
    BY <1>1, <1>2, <1>3, <1>4
<1>6. writes[n + 2] = MapSector
    <2>1. writes[n + 2] = <<MapSector>>[(n + 2) - (n + 1)] /\ (n + 2) - (n + 1) = 1
        BY <1>1, <1>4
    <2> QED BY <1>2, <2>1
<1>7. ASSUME NEW k \in 1 .. n PROVE writes[k + 1] = MapSector + k
    <2>1. writes[k + 1] = e[k + 1]
        BY <1>1, <1>4
    <2>2. e[k + 1] = d[(k + 1) - 1] /\ (k + 1) - 1 = k
        BY <1>1, <1>3
    <2> QED BY <1>1, <2>1, <2>2
<1> QED BY <1>4, <1>5, <1>6, <1>7 DEF writes, e, d, n

LEMMA RemoveWrites ==
    LET writes == <<MapSector>> \o DirectoryWrites
    IN /\ writes \in Seq(Sectors) /\ Len(writes) = NumDirSectors + 1 /\ writes[1] = MapSector
       /\ \A k \in 1 .. NumDirSectors : writes[k + 1] = MapSector + k
<1> DEFINE d == DirectoryWrites
           n == NumDirSectors
<1>1. n \in Nat /\ d \in Seq(Sectors) /\ Len(d) = n /\ \A k \in 1 .. n : d[k] = MapSector + k
    <2>1. d \in [1 .. n -> Sectors]
        BY SystemSectors DEF DirectoryWrites
    <2> QED BY <2>1, SlotPlaces DEF DirectoryWrites
<1> HIDE DEF d, n
<1>2. <<MapSector>> \in Seq(Sectors) /\ Len(<<MapSector>>) = 1 /\ <<MapSector>>[1] = MapSector
    BY SystemSectors
<1> DEFINE writes == <<MapSector>> \o d
<1>3. /\ writes \in Seq(Sectors) /\ Len(writes) = n + 1
      /\ \A i \in 1 .. n + 1 : writes[i] = IF i <= 1 THEN <<MapSector>>[i] ELSE d[i - 1]
    BY <1>1, <1>2, ConcatProperties
<1> HIDE DEF writes
<1>4. writes[1] = MapSector
    BY <1>1, <1>2, <1>3
<1>5. ASSUME NEW k \in 1 .. n PROVE writes[k + 1] = MapSector + k
    <2>1. writes[k + 1] = d[(k + 1) - 1] /\ (k + 1) - 1 = k
        BY <1>1, <1>3
    <2> QED BY <1>1, <2>1
<1> QED BY <1>3, <1>4, <1>5 DEF writes, d, n

(* What the invariant says of a header, of an entry and of a name. *)
LEMMA HeaderFacts ==
    ASSUME NEW header \in Headers
    PROVE  /\ header.numBytes \in Nat /\ header.dataSectors \in Seq(Sectors)
           /\ Len(header.dataSectors) = divRoundUp(header.numBytes, SectorSize)
           /\ DOMAIN header.dataSectors = 1 .. divRoundUp(header.numBytes, SectorSize)
           /\ DataSectors(header) \subseteq Sectors
<1>1. /\ header.numBytes \in Nat /\ header.dataSectors \in Seq(Sectors)
      /\ Len(header.dataSectors) = divRoundUp(header.numBytes, SectorSize)
    BY DEF Headers
<1>2. DOMAIN header.dataSectors = 1 .. divRoundUp(header.numBytes, SectorSize)
      /\ \A i \in DOMAIN header.dataSectors : header.dataSectors[i] \in Sectors
    <2> DEFINE s == header.dataSectors
    <2>1. s \in Seq(Sectors)
        BY <1>1
    <2> HIDE DEF s
    <2>2. DOMAIN s = 1 .. Len(s) /\ \A i \in DOMAIN s : s[i] \in Sectors
        BY <2>1
    <2> QED BY <1>1, <2>2 DEF s
<1> QED BY <1>1, <1>2 DEF DataSectors

LEMMA EntryFacts ==
    ASSUME FileTypes, NEW used, NEW E, E \subseteq Entries, Whole(used, E), NEW i \in E
    PROVE  /\ i \in Entries /\ i \in Slots /\ dir[i] \in Entry
           /\ dir[i].name \in Names /\ dir[i].sector \in Sectors
           /\ disk[dir[i].sector].header \in Headers
           /\ disk[dir[i].sector] = [header |-> disk[dir[i].sector].header]
           /\ dir[i].sector \notin DataSectors(disk[dir[i].sector].header)
           /\ SectorsOf(i) = {dir[i].sector} \cup DataSectors(disk[dir[i].sector].header)
           /\ SectorsOf(i) \subseteq Sectors
           /\ \A j \in E : dir[j].name = dir[i].name => j = i
<1>1. i \in Entries /\ i \in Slots /\ dir[i].sector # NULL /\ dir[i] \in Entry
    BY DEF Entries, FileTypes
<1>2. dir[i].sector \in Sectors
    BY <1>1 DEF Entry
<1>3. /\ disk[dir[i].sector].header \in Headers /\ dir[i].name \in Names
      /\ disk[dir[i].sector] = [header |-> disk[dir[i].sector].header]
      /\ dir[i].sector \notin DataSectors(disk[dir[i].sector].header)
      /\ \A j \in E : dir[j].name = dir[i].name => j = i
    BY DEF Whole
<1>4. DataSectors(disk[dir[i].sector].header) \subseteq Sectors
    BY <1>3, HeaderFacts
<1> QED BY <1>1, <1>2, <1>3, <1>4 DEF SectorsOf

(* Between two operations, and after them. *)
LEMMA IdleFacts ==
    ASSUME FileInv, call = NULL
    PROVE  FileTypes /\ Whole(map, Entries) /\ OpenIn(Entries) /\ Entries \subseteq Entries
BY DEF FileInv, Progress

LEMMA NameFacts ==
    ASSUME FileInv, call = NULL, NEW n, SlotsOf(dir, n) # {}
    PROVE  LET i == Lowest(SlotsOf(dir, n))
           IN /\ i \in Entries /\ dir[i].name = n
              /\ \A j \in Entries : dir[j].name = n => j = i
              /\ HeaderOf(dir, n) = disk[dir[i].sector].header
              /\ HeaderOf(dir, n) \in Headers
              /\ disk[dir[i].sector] = [header |-> HeaderOf(dir, n)]
<1>1. SlotsOf(dir, n) \in SUBSET Slots /\ SlotsOf(dir, n) \subseteq Entries
      /\ \A j \in SlotsOf(dir, n) : dir[j].name = n
    BY DEF SlotsOf, Entries
<1>2. PICK i \in SlotsOf(dir, n) : i = Lowest(SlotsOf(dir, n))
    BY <1>1, LowestIsOne
<1>3. /\ i \in Entries /\ dir[i].name = n
      /\ HeaderOf(dir, n) = disk[dir[i].sector].header
    BY <1>1, <1>2 DEF HeaderOf
<1>4. /\ disk[dir[i].sector].header \in Headers
      /\ disk[dir[i].sector] = [header |-> disk[dir[i].sector].header]
      /\ \A j \in Entries : dir[j].name = dir[i].name => j = i
    BY <1>3, IdleFacts, EntryFacts
<1> QED BY <1>2, <1>3, <1>4

(* Files whose entry and header stay the same keep their sectors. *)
LEMMA OthersKept ==
    ASSUME NEW E, E \subseteq Entries,
           \A i \in E : dir'[i] = dir[i] /\ disk'[dir[i].sector] = disk[dir[i].sector]
    PROVE  /\ E \subseteq Entries'
           /\ \A i \in E : SectorsOf(i)' = SectorsOf(i)
           /\ \A used : Whole(used, E) => Whole(used, E)'
           /\ UNCHANGED open /\ OpenIn(E) => OpenIn(E)'
<1>1. E \subseteq Entries'
    BY DEF Entries
<1>2. \A i \in E : SectorsOf(i)' = SectorsOf(i)
    BY DEF SectorsOf, DataSectors
<1>3. ASSUME NEW used, Whole(used, E) PROVE Whole(used, E)'
    <2>1. /\ used = System \cup UNION {SectorsOf(i)' : i \in E}
          /\ \A i, j \in E : i # j => SectorsOf(i)' \cap SectorsOf(j)' = {}
          /\ \A i \in E : SectorsOf(i)' \cap System = {}
        BY <1>2, <1>3 DEF Whole
    <2>2. /\ \A i \in E : /\ disk'[dir'[i].sector] \in [header : Headers]
                          /\ (dir[i].sector \notin DataSectors(disk[dir[i].sector].header))'
                          /\ dir'[i].name \in Names
          /\ \A i, j \in E : dir'[i].name = dir'[j].name => i = j
        BY <1>3 DEF Whole, DataSectors
    <2> QED BY <2>1, <2>2 DEF Whole
<1>4. UNCHANGED open /\ OpenIn(E) => OpenIn(E)'
    BY DEF OpenIn
<1> QED BY <1>1, <1>2, <1>3, <1>4

(* A step that leaves the directory, the disk and the operation alone. *)
LEMMA SameFiles ==
    ASSUME UNCHANGED <<dir, disk>>
    PROVE  /\ Entries' = Entries
           /\ \A i : SectorsOf(i)' = SectorsOf(i)
           /\ \A used, E : Whole(used, E) => Whole(used, E)'
<1>1. Entries' = Entries
    BY DEF Entries
<1>2. \A i : SectorsOf(i)' = SectorsOf(i)
    BY DEF SectorsOf, DataSectors
<1>3. ASSUME NEW used, NEW E, Whole(used, E) PROVE Whole(used, E)'
    <2>1. /\ used = System \cup UNION {SectorsOf(i)' : i \in E}
          /\ \A i, j \in E : i # j => SectorsOf(i)' \cap SectorsOf(j)' = {}
          /\ \A i \in E : SectorsOf(i)' \cap System = {}
        BY <1>2, <1>3 DEF Whole
    <2>2. /\ \A i \in E : /\ disk'[dir'[i].sector] \in [header : Headers]
                          /\ (dir[i].sector \notin DataSectors(disk[dir[i].sector].header))'
                          /\ dir'[i].name \in Names
          /\ \A i, j \in E : dir'[i].name = dir'[j].name => i = j
        BY <1>3 DEF Whole, DataSectors
    <2> QED BY <2>1, <2>2 DEF Whole
<1> QED BY <1>1, <1>2, <1>3

(* Calls on open files that do not write: nothing is in progress. *)
LEMMA HandleStep ==
    ASSUME FileInv, UNCHANGED <<map, dir, disk, call, up>>, call = NULL,
           calls' \in 0 .. MaxCalls, OpenIn(Entries)',
           \A h \in Handles : open'[h] = NULL \/
               open'[h] \in [name : Names, header : Headers, seek : Nat],
           DOMAIN open' = Handles
    PROVE  FileInv'
<1>1. FileTypes'
    BY DEF FileInv, FileTypes
<1>2. Whole(map, Entries)'
    <2>1. PICK used, E : used = map /\ E = Entries
        OBVIOUS
    <2>2. Whole(used, E)'
        BY <2>1, IdleFacts, SameFiles
    <2>3. used = map' /\ E = Entries'
        BY <2>1, SameFiles
    <2> QED BY <2>2, <2>3 DEF Whole
<1> QED BY <1>1, <1>2 DEF FileInv, Progress

LEMMA CallsBounded ==
    ASSUME FileTypes, Calls
    PROVE  calls' \in 0 .. MaxCalls /\ call = NULL /\ up
BY FileSystemAssumption DEF FileTypes, Calls

LEMMA OpenStep ==
    ASSUME FileInv, NEW h \in Handles, NEW n \in Names, Open(h, n)
    PROVE  FileInv'
<1> DEFINE i == Lowest(SlotsOf(dir, n))
           new == [name |-> n, header |-> HeaderOf(dir, n), seek |-> 0]
<1>1. calls' \in 0 .. MaxCalls /\ call = NULL /\ UNCHANGED <<map, dir, disk, call, up>>
    BY CallsBounded DEF Open, FileInv
<1>2. /\ i \in Entries /\ dir[i].name = n /\ HeaderOf(dir, n) \in Headers
      /\ disk[dir[i].sector] = [header |-> HeaderOf(dir, n)]
    <2>1. SlotsOf(dir, n) # {}
        BY DEF Open
    <2> QED BY <1>1, <2>1, NameFacts
<1> HIDE DEF i
<1>3. new \in [name : Names, header : Headers, seek : Nat]
      /\ new.seek <= new.header.numBytes /\ new.name = n /\ new.header = HeaderOf(dir, n)
    BY <1>2, HeaderFacts
<1> HIDE DEF new
<1>4. DOMAIN open = Handles /\ open' = [open EXCEPT ![h] = new]
    BY DEF FileInv, FileTypes, Open, new
<1>5. open'[h] = new /\ DOMAIN open' = Handles /\ \A g \in Handles : g # h => open'[g] = open[g]
    BY <1>4
<1>6. \A g \in Handles : open'[g] = NULL \/
          open'[g] \in [name : Names, header : Headers, seek : Nat]
    BY <1>3, <1>5 DEF FileInv, FileTypes
<1>7. OpenIn(Entries)'
    <2>1. Entries' = Entries /\ dir' = dir /\ disk' = disk
        BY <1>1, SameFiles
    <2>2. ASSUME NEW g \in Handles, open'[g] # NULL
          PROVE  /\ open'[g].seek <= open'[g].header.numBytes
                 /\ \E j \in Entries : dir[j].name = open'[g].name
                                      /\ disk[dir[j].sector] = [header |-> open'[g].header]
        <3>1. CASE g = h
            BY <1>2, <1>3, <1>5, <3>1
        <3>2. CASE g # h
            BY <1>1, <1>5, <2>2, <3>2, IdleFacts DEF OpenIn
        <3> QED BY <3>1, <3>2
    <2> QED BY <2>1, <2>2 DEF OpenIn
<1> QED BY <1>1, <1>5, <1>6, <1>7, HandleStep

LEMMA CloseStep ==
    ASSUME FileInv, NEW h \in Handles, Close(h)
    PROVE  FileInv'
<1>1. calls' \in 0 .. MaxCalls /\ call = NULL /\ UNCHANGED <<map, dir, disk, call, up>>
    BY CallsBounded DEF Close, FileInv
<1>2. open'[h] = NULL /\ DOMAIN open' = Handles /\ \A g \in Handles : g # h => open'[g] = open[g]
    BY DEF FileInv, FileTypes, Close
<1>3. \A g \in Handles : open'[g] = NULL \/
          open'[g] \in [name : Names, header : Headers, seek : Nat]
    BY <1>2 DEF FileInv, FileTypes
<1>4. OpenIn(Entries)'
    <2>1. Entries' = Entries /\ dir' = dir /\ disk' = disk
        BY <1>1, SameFiles
    <2> QED BY <1>1, <1>2, <2>1, IdleFacts DEF OpenIn
<1> QED BY <1>1, <1>2, <1>3, <1>4, HandleStep

(* Seek and Read move a position, not past the end. *)
LEMMA PositionStep ==
    ASSUME FileInv, call = NULL, NEW h \in Handles, open[h] # NULL, NEW position \in Nat,
           position <= open[h].header.numBytes, open' = [open EXCEPT ![h].seek = position]
    PROVE  /\ open'[h] = [name |-> open[h].name, header |-> open[h].header, seek |-> position]
           /\ DOMAIN open' = Handles /\ \A g \in Handles : g # h => open'[g] = open[g]
           /\ \A g \in Handles : open'[g] = NULL \/
                 open'[g] \in [name : Names, header : Headers, seek : Nat]
           /\ UNCHANGED <<dir, disk>> => OpenIn(Entries)'
<1>1. DOMAIN open = Handles /\ open[h] \in [name : Names, header : Headers, seek : Nat]
    BY DEF FileInv, FileTypes
<1>2. open'[h] = [name |-> open[h].name, header |-> open[h].header, seek |-> position]
    BY <1>1
<1>3. DOMAIN open' = Handles /\ \A g \in Handles : g # h => open'[g] = open[g]
    BY <1>1
<1>4. \A g \in Handles : open'[g] = NULL \/
          open'[g] \in [name : Names, header : Headers, seek : Nat]
    BY <1>1, <1>2, <1>3 DEF FileInv, FileTypes
<1>5. ASSUME UNCHANGED <<dir, disk>> PROVE OpenIn(Entries)'
    <2>1. Entries' = Entries
        BY <1>5 DEF Entries
    <2>2. /\ open'[h].name = open[h].name /\ open'[h].header = open[h].header
          /\ open'[h].seek = position
        BY <1>2
    <2> QED BY <1>3, <1>5, <2>1, <2>2, IdleFacts DEF OpenIn
<1> QED BY <1>2, <1>3, <1>4, <1>5

LEMMA SeekStep ==
    ASSUME FileInv, NEW h \in Handles, NEW position \in 0 .. MaxTransfer, Seek(h, position)
    PROVE  FileInv'
<1>1. calls' \in 0 .. MaxCalls /\ call = NULL /\ UNCHANGED <<map, dir, disk, call, up>>
    BY CallsBounded DEF Seek, FileInv
<1>2. /\ open[h] # NULL /\ position \in Nat /\ position <= open[h].header.numBytes
      /\ open' = [open EXCEPT ![h].seek = position]
    BY DEF Seek
<1> QED BY <1>1, <1>2, PositionStep, HandleStep

(* A transfer stays inside the file. *)
LEMMA ClippedFits ==
    ASSUME NEW header \in Headers, NEW n \in Nat, NEW position \in 0 .. header.numBytes
    PROVE  /\ Clipped(header, n, position) \in 0 .. n
           /\ position + Clipped(header, n, position) <= header.numBytes
           /\ position + n <= header.numBytes => Clipped(header, n, position) = n
           /\ position + n > header.numBytes => Clipped(header, n, position) = header.numBytes - position
BY HeaderFacts DEF Clipped

LEMMA HandleFacts ==
    ASSUME FileInv, NEW h \in Handles, open[h] # NULL
    PROVE  /\ open[h].name \in Names /\ open[h].header \in Headers
           /\ open[h].seek \in 0 .. open[h].header.numBytes
           /\ call = NULL => \E i \in Entries : dir[i].name = open[h].name
                                 /\ disk[dir[i].sector] = [header |-> open[h].header]
<1>1. open[h] \in [name : Names, header : Headers, seek : Nat]
    BY DEF FileInv, FileTypes
<1>2. open[h].header \in Headers /\ open[h].header.numBytes \in Nat
    BY <1>1, HeaderFacts
<1>3. \E E : OpenIn(E) /\ (call = NULL => E = Entries)
    BY DEF FileInv, Progress, Creating, Removing, Apart
<1> QED BY <1>1, <1>2, <1>3 DEF OpenIn

LEMMA ReadStep ==
    ASSUME FileInv, NEW h \in Handles, NEW k \in 1 .. MaxTransfer, Read(h, k)
    PROVE  FileInv'
<1> DEFINE done == Clipped(open[h].header, k, open[h].seek)
<1>1. calls' \in 0 .. MaxCalls /\ call = NULL /\ UNCHANGED <<map, dir, disk, call, up>>
    BY CallsBounded DEF Read, FileInv
<1>2. open[h] # NULL /\ DOMAIN open = Handles
    BY DEF Read, FileInv, FileTypes
<1>3. open[h].seek + done \in Nat /\ open[h].seek + done <= open[h].header.numBytes
    <2>0. /\ open[h].header \in Headers /\ open[h].header.numBytes \in Nat
          /\ open[h].seek \in 0 .. open[h].header.numBytes /\ k \in Nat
        <3>1. open[h].header \in Headers /\ open[h].seek \in 0 .. open[h].header.numBytes
            BY <1>2, HandleFacts
        <3>2. open[h].header.numBytes \in Nat
            BY <3>1, HeaderFacts
        <3>3. k \in Nat
            BY FileSystemAssumption
        <3> QED BY <3>1, <3>2, <3>3
    <2>1. done \in 0 .. k /\ open[h].seek + done <= open[h].header.numBytes
        BY <2>0, ClippedFits
    <2>2. open[h].seek \in Nat
        BY <2>0
    <2> QED BY <2>1, <2>2
<1>4. open' = [open EXCEPT ![h].seek = open[h].seek + done]
    BY <1>2 DEF Read
<1> QED BY <1>1, <1>2, <1>3, <1>4, PositionStep, HandleStep

-----------------------------------------------------------------------------
(* Create and Remove, up to their writes. *)
LEMMA IdleStep ==
    ASSUME FileInv, UNCHANGED <<map, dir, disk, call, open, up>>, call = NULL,
           calls' \in 0 .. MaxCalls
    PROVE  FileInv'
<1>1. OpenIn(Entries)'
    <2>1. Entries' = Entries
        BY SameFiles
    <2> QED BY <2>1, IdleFacts DEF OpenIn
<1> QED BY <1>1, HandleStep DEF FileInv, FileTypes

LEMMA OperationsAreRecords == CallRecords \subseteq Operation
BY DEF CallRecords, Operation, Headers

LEMMA StartStep ==
    ASSUME FileInv, UNCHANGED <<map, dir, disk, open>>, up' \in BOOLEAN,
           calls' \in 0 .. MaxCalls, call' \in CallRecords,
           NEW s \in Slots, Creating(s)' \/ Removing(s)'
    PROVE  FileInv'
<1>1. FileTypes'
    BY DEF FileInv, FileTypes
<1>2. call' # NULL
    <2>1. CASE call' = NULL
        BY <2>1, OperationsAreRecords, FileSystemAssumption
    <2> QED BY <2>1
<1>3. Progress'
    BY <1>2 DEF Progress
<1> QED BY <1>1, <1>3 DEF FileInv

(* What Create takes out of the bitmap. *)
LEMMA CreateTakes ==
    ASSUME NEW used \in SUBSET Sectors, NEW size \in Nat,
           NumClear(used) > divRoundUp(size, SectorSize)
    PROVE  LET sector == Find(used, 1)
               sectors == Allocate(used \cup {sector}, size)
           IN /\ sector \in Sectors \ used
              /\ Header(size, sectors) \in Headers
              /\ DataSectors(Header(size, sectors)) = {sectors[i] : i \in DOMAIN sectors}
              /\ DataSectors(Header(size, sectors)) \cap (used \cup {sector}) = {}
<1> DEFINE sector == Find(used, 1)
           rest == used \cup {sector}
<1>0. IsFiniteSet(Sectors \ used) /\ NumClear(used) \in Nat /\ divRoundUp(size, SectorSize) \in Nat
    BY SlotsAndSectors, FS_CardinalityType, SectorCount DEF NumClear
<1>1. sector \in Sectors \ used
    <2>1. 1 \in 1 .. NumClear(used)
        BY <1>0
    <2> QED BY <2>1, FindTakesFree
<1> HIDE DEF sector
<1>2. NumClear(rest) = NumClear(used) - 1
    <2>1. Sectors \ rest = (Sectors \ used) \ {sector}
        OBVIOUS
    <2>2. Cardinality((Sectors \ used) \ {sector}) = Cardinality(Sectors \ used) - 1
        BY <1>0, <1>1, FS_RemoveElement
    <2> QED BY <2>1, <2>2 DEF NumClear
<1>3. rest \in SUBSET Sectors /\ divRoundUp(size, SectorSize) <= NumClear(rest)
    BY <1>0, <1>1, <1>2
<1> HIDE DEF rest
<1>4. /\ Header(size, Allocate(rest, size)) \in Headers
      /\ DataSectors(Header(size, Allocate(rest, size)))
             = {Allocate(rest, size)[i] : i \in DOMAIN Allocate(rest, size)}
      /\ DataSectors(Header(size, Allocate(rest, size))) \cap rest = {}
    BY <1>0, <1>3, AllocateTakesFree
<1> QED BY <1>1, <1>4 DEF sector, rest

LEMMA CreateStep ==
    ASSUME FileInv, NEW n \in Names, NEW size \in Sizes, Create(n, size)
    PROVE  FileInv'
<1>1. calls' \in 0 .. MaxCalls /\ call = NULL /\ UNCHANGED <<map, dir, disk, open>>
    BY CallsBounded DEF Create, FileInv
<1>2. CASE UNCHANGED <<call, up>>
    BY <1>1, <1>2, IdleStep
<1>3. CASE ~ (\/ SlotsOf(dir, n) # {} \/ FreeSlots = {}
              \/ NumClear(map) <= divRoundUp(size, SectorSize))
    <2>0. PICK s : s = Lowest(FreeSlots)
        OBVIOUS
    <2> DEFINE sector == Find(map, 1)
               sectors == Allocate(map \cup {sector}, size)
               header == Header(size, sectors)
               entry == [sector |-> sector, name |-> n]
               newDir == [dir EXCEPT ![s] = entry]
               newMap == map \cup {sector} \cup {sectors[i] : i \in DOMAIN sectors}
               newWrites == <<sector>> \o DirectoryWrites \o <<MapSector>>
    <2>1. /\ call' = [name |-> n, sector |-> sector, header |-> header, dir |-> newDir,
                      map |-> newMap, writes |-> newWrites, done |-> 0]
          /\ up' = (divRoundUp(size, SectorSize) <= NumDirect)
        BY <1>3, <2>0 DEF Create
    <2>1a. up' \in BOOLEAN
        BY <2>1
    <2>2. /\ sector \in Sectors \ map /\ header \in Headers
          /\ DataSectors(header) = {sectors[i] : i \in DOMAIN sectors}
          /\ DataSectors(header) \cap (map \cup {sector}) = {}
        <3>1. map \in SUBSET Sectors /\ size \in Nat
            BY FileSystemAssumption DEF FileInv, FileTypes
        <3>2. NumClear(map) \in Nat /\ divRoundUp(size, SectorSize) \in Nat
            BY <3>1, SlotsAndSectors, FS_CardinalityType, SectorCount DEF NumClear
        <3>3. NumClear(map) > divRoundUp(size, SectorSize)
            BY <1>3, <3>2
        <3> QED BY <3>1, <3>3, CreateTakes
    <2> HIDE DEF sector, sectors, header
    <2>3. s \in Slots /\ dir[s].sector = NULL
        <3>1. FreeSlots \in SUBSET Slots /\ FreeSlots # {}
            BY <1>3 DEF FreeSlots
        <3>2. s \in FreeSlots
            BY <2>0, <3>1, LowestIsOne
        <3> QED BY <3>2 DEF FreeSlots
    <2>4. DataSectors(header) \subseteq Sectors
        BY <2>2, HeaderFacts
    <2>5. /\ entry \in Entry /\ newDir \in [Slots -> Entry] /\ newDir[s] = entry
          /\ \A i \in Slots \ {s} : newDir[i] = dir[i]
          /\ newMap = map \cup ({sector} \cup DataSectors(header)) /\ newMap \in SUBSET Sectors
        BY <2>2, <2>3, <2>4 DEF FileInv, FileTypes, Entry
    <2>6. newWrites \in Seq(Sectors)
        BY <2>2, CreateWrites
    <2> HIDE DEF newMap, newDir, newWrites
    <2>7. call' \in CallRecords
        BY <2>1, <2>2, <2>5, <2>6 DEF CallRecords
    <2>8. /\ call'.name = n /\ call'.sector = sector /\ call'.header = header
          /\ call'.dir = newDir /\ call'.map = newMap
          /\ call'.writes = newWrites /\ call'.done = 0
        BY <2>1
    <2>9. Entries' \ {s} = Entries
        BY <1>1, <2>3, SameFiles DEF Entries
    <2>10. \A i \in Entries : dir[i].name # n
        BY <1>3 DEF SlotsOf, Entries
    <2>11. Apart(map, s)'
        <3>1. PICK used, E : used = map /\ E = Entries
            OBVIOUS
        <3>2. Whole(used, E)' /\ OpenIn(E)'
            BY <1>1, <3>1, IdleFacts, SameFiles DEF OpenIn
        <3>3. map' = used /\ Entries' \ {s} = E
            BY <1>1, <2>9, <3>1
        <3>4. Whole(map, Entries \ {s})' /\ OpenIn(Entries \ {s})'
            BY <3>2, <3>3 DEF Whole, OpenIn
        <3>5. /\ \A i \in Entries' \ {s} : dir'[i].name # call'.name
              /\ \A i \in Slots \ {s} : dir'[i] = call'.dir[i]
            BY <1>1, <2>5, <2>8, <2>9, <2>10
        <3>6. call'.sector \notin System /\ (call.sector \notin DataSectors(call.header))'
            <4>1. System \subseteq map
                BY <1>1, IdleFacts DEF Whole
            <4> QED BY <2>2, <2>8, <4>1 DEF DataSectors
        <3> QED BY <3>4, <3>5, <3>6 DEF Apart
    <2>12. Creating(s)'
        <3>1. OwnSectors' = {sector} \cup DataSectors(header)
            BY <2>8 DEF OwnSectors, DataSectors
        <3>2. OwnSectors' \cap map' = {} /\ call'.map = map' \cup OwnSectors'
            BY <1>1, <2>2, <2>5, <2>8, <3>1
        <3>3. ~ Behind(SectorAt(s))' /\ ~ Behind(NameAt(s))'
            <4>1. SectorAt(s) >= MapSector + 1 /\ NameAt(s) >= MapSector + 1
                BY <2>3, SlotPlaces
            <4>2. SectorAt(s)' = SectorAt(s) /\ NameAt(s)' = NameAt(s)
                BY DEF SectorAt, NameAt
            <4>3. SectorAt(s) \in Int /\ NameAt(s) \in Int
                BY <2>3, SlotPlaces
            <4>4. ~ (SectorAt(s) < MapSector + 0) /\ ~ (NameAt(s) < MapSector + 0)
                BY <4>1, <4>3 DEF MapSector
            <4> QED BY <2>8, <4>2, <4>4 DEF Behind
        <3>4. call'.writes = <<call'.sector>> \o DirectoryWrites \o <<MapSector>>
            BY <2>8 DEF newWrites
        <3>5. call'.done \in 0 .. NumDirSectors + 1 /\ ~ (call'.done > 0)
            BY <2>8, SlotPlaces
        <3>6. call'.dir[s] = [sector |-> call'.sector, name |-> call'.name]
              /\ dir'[s].sector = NULL
            BY <1>1, <2>3, <2>5, <2>8
        <3> QED BY <2>11, <3>2, <3>3, <3>4, <3>5, <3>6 DEF Creating
    <2> QED BY <1>1, <2>1a, <2>3, <2>7, <2>12, StartStep
<1> QED BY <1>2, <1>3 DEF Create

LEMMA RemoveStep ==
    ASSUME FileInv, NEW n \in Names, Remove(n)
    PROVE  FileInv' /\ up' = up
<1>1. /\ calls' \in 0 .. MaxCalls /\ call = NULL /\ UNCHANGED <<map, dir, disk, open>>
      /\ up \in BOOLEAN
    BY CallsBounded DEF Remove, FileInv, FileTypes
<1>2. CASE SlotsOf(dir, n) = {}
    <2>1. UNCHANGED <<call, up>>
        BY <1>2 DEF Remove
    <2> QED BY <1>1, <2>1, IdleStep
<1>3. CASE SlotsOf(dir, n) # {}
    <2>00. PICK s : s = Lowest(SlotsOf(dir, n))
        OBVIOUS
    <2> DEFINE header == HeaderOf(dir, n)
               sector == dir[s].sector
               newDir == [dir EXCEPT ![s].sector = NULL]
               newMap == (map \ DataSectors(header)) \ {sector}
               newWrites == <<MapSector>> \o DirectoryWrites
    <2>0. FileTypes /\ Whole(map, Entries) /\ OpenIn(Entries)
        BY <1>1, IdleFacts
    <2>1. /\ s \in Entries /\ dir[s].name = n /\ header = disk[sector].header
          /\ disk[sector] = [header |-> header]
        BY <1>1, <1>3, <2>00, NameFacts
    <2>2. /\ s \in Slots /\ dir[s] \in Entry /\ sector \in Sectors /\ header \in Headers
          /\ SectorsOf(s) = {sector} \cup DataSectors(header)
          /\ sector \notin DataSectors(header)
          /\ \A j \in Entries : dir[j].name = n => j = s
        <3> HIDE DEF header
        <3>1. Entries \subseteq Entries /\ FileTypes /\ Whole(map, Entries) /\ s \in Entries
            BY <2>0, <2>1
        <3>2. /\ s \in Slots /\ dir[s] \in Entry /\ dir[s].sector \in Sectors
              /\ disk[dir[s].sector].header \in Headers
              /\ dir[s].sector \notin DataSectors(disk[dir[s].sector].header)
              /\ SectorsOf(s) = {dir[s].sector} \cup DataSectors(disk[dir[s].sector].header)
              /\ \A j \in Entries : dir[j].name = dir[s].name => j = s
            BY <3>1, EntryFacts
        <3> QED BY <2>1, <3>2
    <2>3. DataSectors(header) \subseteq map /\ sector \notin System
        BY <2>0, <2>1, <2>2 DEF Whole
    <2>4. /\ call' = [name |-> n, sector |-> sector, header |-> header, dir |-> newDir,
                      map |-> newMap, writes |-> newWrites, done |-> 0]
          /\ up' = up
        BY <1>3, <2>00, <2>3 DEF Remove
    <2> HIDE DEF header
    <2>5. /\ newDir \in [Slots -> Entry] /\ newDir[s] = [sector |-> NULL, name |-> n]
          /\ \A i \in Slots \ {s} : newDir[i] = dir[i]
        BY <2>0, <2>1, <2>2 DEF FileTypes, Entry
    <2>6. newMap = map \ SectorsOf(s) /\ newMap \in SUBSET Sectors
        BY <2>0, <2>2 DEF FileTypes
    <2>7. dir[s] = [sector |-> sector, name |-> n]
        BY <2>1, <2>2 DEF Entry
    <2>8. newWrites \in Seq(Sectors)
        BY RemoveWrites
    <2> HIDE DEF newMap, newDir, sector, newWrites
    <2>9. call' \in CallRecords
        BY <2>2, <2>4, <2>5, <2>6, <2>8 DEF CallRecords
    <2>10. /\ call'.name = n /\ call'.sector = sector /\ call'.header = header
           /\ call'.dir = newDir /\ call'.map = newMap
           /\ call'.writes = newWrites /\ call'.done = 0
        BY <2>4
    <2>11. Whole(newMap, Entries \ {s})
        <3>1. \A i \in Entries \ {s} : SectorsOf(i) \cap SectorsOf(s) = {}
            BY <2>0, <2>1 DEF Whole
        <3>2. SectorsOf(s) \cap System = {}
            BY <2>0, <2>1 DEF Whole
        <3>3. newMap = System \cup UNION {SectorsOf(i) : i \in Entries \ {s}}
            BY <2>0, <2>1, <2>6, <3>1, <3>2 DEF Whole
        <3> QED BY <2>0, <3>3 DEF Whole
    <2>12. \A h \in Handles : open[h] # NULL => open[h].name # n
        BY DEF Remove
    <2>13. OpenIn(Entries \ {s})
        BY <2>0, <2>1, <2>12 DEF OpenIn
    <2>14. Apart(call.map, s)'
        <3>1. PICK used, E : used = newMap /\ E = Entries \ {s}
            OBVIOUS
        <3>2. Whole(used, E)' /\ OpenIn(E)'
            BY <1>1, <2>11, <2>13, <3>1, SameFiles DEF OpenIn
        <3>3. call'.map = used /\ Entries' \ {s} = E
            BY <1>1, <2>10, <3>1, SameFiles
        <3>4. Whole(call.map, Entries \ {s})' /\ OpenIn(Entries \ {s})'
            BY <3>2, <3>3 DEF Whole, OpenIn
        <3>5. /\ \A i \in Entries' \ {s} : dir'[i].name # call'.name
              /\ \A i \in Slots \ {s} : dir'[i] = call'.dir[i]
            BY <1>1, <2>2, <2>5, <2>10, <3>1, <3>3
        <3>6. call'.sector \notin System /\ (call.sector \notin DataSectors(call.header))'
            BY <2>2, <2>3, <2>10 DEF DataSectors
        <3> QED BY <3>4, <3>5, <3>6 DEF Apart
    <2>15. Removing(s)'
        <3>1. OwnSectors' = SectorsOf(s)
            BY <2>2, <2>10 DEF OwnSectors, DataSectors
        <3>2. /\ OwnSectors' \cap call'.map = {}
              /\ map' = IF call'.done > 0 THEN call'.map ELSE call'.map \cup OwnSectors'
            <4>1. SectorsOf(s) \subseteq map
                BY <2>0, <2>1 DEF Whole
            <4>2. ~ (call'.done > 0)
                BY <2>10
            <4> QED BY <1>1, <2>6, <2>10, <3>1, <4>1, <4>2
        <3>3. ~ Behind(SectorAt(s))'
            <4>1. SectorAt(s) >= MapSector + 1 /\ SectorAt(s) \in Int
                BY <2>2, SlotPlaces
            <4>2. SectorAt(s)' = SectorAt(s)
                BY DEF SectorAt
            <4>3. ~ (SectorAt(s) < MapSector + 0)
                BY <4>1 DEF MapSector
            <4> QED BY <2>10, <4>2, <4>3 DEF Behind
        <3>4. call'.writes = <<MapSector>> \o DirectoryWrites /\ call'.done \in 0 .. NumDirSectors
            BY <2>10, SlotPlaces DEF newWrites
        <3>5. /\ call'.dir[s] = [sector |-> NULL, name |-> call'.name]
              /\ dir'[s] = [sector |-> call'.sector, name |-> call'.name]
              /\ disk'[call'.sector] = [header |-> call'.header]
            BY <1>1, <2>1, <2>5, <2>7, <2>10 DEF sector
        <3> QED BY <2>14, <3>2, <3>3, <3>4, <3>5 DEF Removing
    <2>16. up' \in BOOLEAN
        BY <1>1, <2>4
    <2> QED BY <1>1, <2>2, <2>4, <2>9, <2>15, <2>16, StartStep
<1> QED BY <1>2, <1>3

-----------------------------------------------------------------------------
(* What WriteBack does to the directory, with the sector t. *)
LEMMA WritesSector ==
    ASSUME FileInv, WriteBack, NEW t, t = call.writes[call.done + 1]
    PROVE  /\ call \in CallRecords /\ call # NULL /\ FileTypes /\ up
           /\ UNCHANGED <<open, up, data, calls>> /\ dir' \in [Slots -> Entry]
           /\ \A i \in Slots :
                /\ dir'[i] = [sector |-> dir'[i].sector, name |-> dir'[i].name]
                /\ dir'[i].sector = IF SectorAt(i) = t THEN call.dir[i].sector ELSE dir[i].sector
                /\ dir'[i].name = IF NameAt(i) = t THEN call.dir[i].name ELSE dir[i].name
                /\ dir[i] = call.dir[i] => dir'[i] = dir[i]
           /\ (\A i \in Slots : SectorAt(i) # t /\ NameAt(i) # t) => dir' = dir
<1>1. call \in CallRecords /\ call # NULL /\ FileTypes /\ UNCHANGED <<open, up, data, calls>> /\ up
    BY DEF FileInv, FileTypes, WriteBack
<1>2. call.dir \in [Slots -> Entry] /\ dir \in [Slots -> Entry]
    BY <1>1 DEF CallRecords, FileTypes
<1>3. dir' = [i \in Slots |->
          [sector |-> IF SectorAt(i) = t THEN call.dir[i].sector ELSE dir[i].sector,
           name |-> IF NameAt(i) = t THEN call.dir[i].name ELSE dir[i].name]]
    BY DEF WriteBack
<1>4. ASSUME NEW i \in Slots
      PROVE  /\ dir'[i] = [sector |-> dir'[i].sector, name |-> dir'[i].name]
             /\ dir'[i].sector = IF SectorAt(i) = t THEN call.dir[i].sector ELSE dir[i].sector
             /\ dir'[i].name = IF NameAt(i) = t THEN call.dir[i].name ELSE dir[i].name
             /\ dir'[i] \in Entry
             /\ dir[i] = [sector |-> dir[i].sector, name |-> dir[i].name]
    <2>1. /\ dir[i] \in Entry /\ call.dir[i] \in Entry
        BY <1>2
    <2>2. dir'[i] = [sector |-> IF SectorAt(i) = t THEN call.dir[i].sector ELSE dir[i].sector,
                     name |-> IF NameAt(i) = t THEN call.dir[i].name ELSE dir[i].name]
        BY <1>3
    <2> QED BY <2>1, <2>2 DEF Entry
<1>5. \A i \in Slots : dir[i] = call.dir[i] => dir'[i] = dir[i]
    <2>1. ASSUME NEW i \in Slots, dir[i] = call.dir[i] PROVE dir'[i] = dir[i]
        <3>1. dir'[i].sector = dir[i].sector /\ dir'[i].name = dir[i].name
            BY <1>4, <2>1
        <3> QED BY <1>4, <3>1
    <2> QED BY <2>1
<1>6. dir' \in [Slots -> Entry]
    <2>1. dir' = [i \in Slots |-> dir'[i]]
        BY <1>3
    <2> QED BY <1>4, <2>1
<1>7. ASSUME \A i \in Slots : SectorAt(i) # t /\ NameAt(i) # t PROVE dir' = dir
    <2>1. ASSUME NEW i \in Slots PROVE dir'[i] = dir[i]
        <3>1. dir'[i].sector = dir[i].sector /\ dir'[i].name = dir[i].name
            BY <1>4, <1>7
        <3> QED BY <1>4, <3>1
    <2> QED BY <1>2, <1>6, <2>1
<1> QED BY <1>1, <1>4, <1>5, <1>6, <1>7

(* The call after one of its writes. *)
LEMMA NextWrite ==
    ASSUME FileInv, WriteBack, call.done + 1 # Len(call.writes)
    PROVE  /\ call' \in CallRecords /\ call' # NULL
           /\ call'.name = call.name /\ call'.sector = call.sector
           /\ call'.header = call.header /\ call'.dir = call.dir /\ call'.map = call.map
           /\ call'.writes = call.writes /\ call'.done = call.done + 1
           /\ OwnSectors' = OwnSectors
<1>1. call \in CallRecords /\ call # NULL
    BY DEF FileInv, FileTypes, WriteBack
<1>2. call' = [call EXCEPT !.done = call.done + 1] /\ call.done \in Nat
    BY <1>1 DEF WriteBack, CallRecords
<1>3. /\ call'.name = call.name /\ call'.sector = call.sector
      /\ call'.header = call.header /\ call'.dir = call.dir /\ call'.map = call.map
      /\ call'.writes = call.writes /\ call'.done = call.done + 1
    BY <1>1, <1>2 DEF CallRecords
<1>4. call' \in CallRecords
    <2>1. call.done + 1 \in Nat
        BY <1>2
    <2> QED BY <1>1, <1>2, <2>1 DEF CallRecords
<1>5. OwnSectors' = OwnSectors
    BY <1>3 DEF OwnSectors, DataSectors
<1>6. call' # NULL
    <2>1. CASE call' = NULL
        BY <1>4, <2>1, OperationsAreRecords, FileSystemAssumption
    <2> QED BY <2>1
<1> QED BY <1>3, <1>4, <1>5, <1>6

(* A write that leaves the other entries and their headers as they are. *)
LEMMA ApartKept ==
    ASSUME NEW s \in Slots, NEW used, Apart(used, s), UNCHANGED open,
           \A i \in Slots \ {s} : dir'[i] = dir[i],
           \A i \in Entries \ {s} : disk'[dir[i].sector] = disk[dir[i].sector]
    PROVE  /\ Entries' \ {s} = Entries \ {s}
           /\ Whole(used, Entries \ {s})' /\ OpenIn(Entries \ {s})'
           /\ \A i \in Entries \ {s} : SectorsOf(i)' = SectorsOf(i)
           /\ (/\ call'.name = call.name /\ call'.sector = call.sector
               /\ call'.header = call.header /\ call'.dir = call.dir) => Apart(used, s)'
<1>1. PICK E : E = Entries \ {s}
    OBVIOUS
<1>2. E \subseteq Entries /\ E = Entries' \ {s}
    BY <1>1 DEF Entries
<1>3. \A i \in E : dir'[i] = dir[i] /\ disk'[dir[i].sector] = disk[dir[i].sector]
    BY <1>1 DEF Entries
<1>4. Whole(used, E) /\ OpenIn(E)
    BY <1>1 DEF Apart
<1>5. /\ Whole(used, E)' /\ OpenIn(E)' /\ \A i \in E : SectorsOf(i)' = SectorsOf(i)
    BY <1>2, <1>3, <1>4, OthersKept
<1>6. Whole(used, Entries \ {s})' /\ OpenIn(Entries \ {s})'
    BY <1>2, <1>5 DEF Whole, OpenIn
<1>7. ASSUME call'.name = call.name, call'.sector = call.sector,
             call'.header = call.header, call'.dir = call.dir
      PROVE  Apart(used, s)'
    <2>1. /\ \A i \in Entries' \ {s} : dir'[i].name # call'.name
          /\ \A i \in Slots \ {s} : dir'[i] = call'.dir[i]
        BY <1>1, <1>2, <1>3, <1>7 DEF Apart
    <2>2. call'.sector \notin System /\ (call.sector \notin DataSectors(call.header))'
        BY <1>7 DEF Apart, DataSectors
    <2> QED BY <1>6, <2>1, <2>2 DEF Apart
<1> QED BY <1>1, <1>2, <1>5, <1>6, <1>7

(* What each write of Create leaves is the state before its next one. *)
LEMMA HeaderWritten ==
    ASSUME FileInv, WriteBack, NEW s \in Slots, Creating(s), call.done = 0
    PROVE  /\ FileInv' /\ dir' = dir /\ UNCHANGED data
           /\ \A t \in map : disk'[t] = disk[t]
           /\ call' # NULL /\ call'.done = 1
<1>0. call.sector \in Sectors /\ call.header \in Headers
    BY DEF FileInv, FileTypes, WriteBack, CallRecords
<1>1. /\ call.writes[call.done + 1] = call.sector
      /\ Len(call.writes) = NumDirSectors + 2 /\ call.done + 1 # Len(call.writes)
    BY <1>0, CreateWrites, SlotPlaces DEF Creating
<1>2. call.sector \notin System /\ \A i \in Slots : SectorAt(i) # call.sector /\ NameAt(i) # call.sector
    BY SystemSectors DEF Creating, Apart
<1>3. /\ FileTypes /\ dir' = dir /\ UNCHANGED <<open, up, data, calls>> /\ call \in CallRecords
    BY <1>1, <1>2, WritesSector
<1>4. disk' = [disk EXCEPT ![call.sector] = [header |-> call.header]] /\ map' = map
    BY <1>1, <1>2, SystemSectors DEF WriteBack
<1>5. /\ call' \in CallRecords /\ call' # NULL
      /\ call'.name = call.name /\ call'.sector = call.sector
      /\ call'.header = call.header /\ call'.dir = call.dir /\ call'.map = call.map
      /\ call'.writes = call.writes /\ call'.done = 1 /\ OwnSectors' = OwnSectors
    <2>1. call.done + 1 = 1
        OBVIOUS
    <2> QED BY <1>1, <2>1, NextWrite
<1>6. /\ disk' \in [Sectors -> [block : Blocks] \cup [header : Headers]]
      /\ disk'[call.sector] = [header |-> call.header]
      /\ \A t \in Sectors : t # call.sector => disk'[t] = disk[t]
    BY <1>0, <1>3, <1>4 DEF FileTypes
<1>7. FileTypes'
    BY <1>3, <1>4, <1>5, <1>6 DEF FileTypes
<1>8. call.sector \notin map /\ map \subseteq Sectors
    BY <1>3 DEF Creating, OwnSectors, FileTypes
<1>9. \A t \in map : disk'[t] = disk[t]
    BY <1>6, <1>8
<1>10. \A i \in Entries \ {s} : disk'[dir[i].sector] = disk[dir[i].sector]
    <2>1. \A i \in Entries \ {s} : dir[i].sector \in map
        BY DEF Creating, Apart, Whole, SectorsOf
    <2> QED BY <1>9, <2>1
<1>11. Creating(s)'
    <2>1. PICK used : used = map
        OBVIOUS
    <2>2. Apart(used, s)'
        BY <1>3, <1>5, <1>10, <2>1, ApartKept DEF Creating
    <2>3. Apart(map, s)'
        BY <1>4, <2>1, <2>2 DEF Apart
    <2>4. /\ (OwnSectors \cap map = {})' /\ (call.map = map \cup OwnSectors)'
        BY <1>4, <1>5 DEF Creating
    <2>5. /\ SectorAt(s)' = SectorAt(s) /\ NameAt(s)' = NameAt(s)
          /\ SectorAt(s) >= MapSector + 1 /\ NameAt(s) >= MapSector + 1
          /\ SectorAt(s) \in Int /\ NameAt(s) \in Int /\ MapSector \in Int
        BY SlotPlaces DEF SectorAt, NameAt, MapSector
    <2>6. ~ Behind(SectorAt(s)) /\ ~ Behind(SectorAt(s))' /\ ~ Behind(NameAt(s))'
        BY <1>5, <2>5 DEF Behind
    <2>7. call'.done \in 0 .. NumDirSectors + 1
        BY <1>5, SlotPlaces
    <2> QED BY <1>3, <1>5, <1>6, <2>3, <2>4, <2>6, <2>7 DEF Creating
<1> QED BY <1>3, <1>5, <1>7, <1>9, <1>11 DEF FileInv, Progress

LEMMA EntryWritten ==
    ASSUME FileInv, WriteBack, NEW s \in Slots, Creating(s), call.done \in 1 .. NumDirSectors
    PROVE  /\ FileInv' /\ UNCHANGED <<disk, data>>
           /\ call' # NULL /\ call'.done = call.done + 1 /\ call'.dir = call.dir
<1>0. call \in CallRecords /\ call.sector \in Sectors
    BY DEF FileInv, FileTypes, WriteBack, CallRecords
<1>1. PICK t, d : d = call.done /\ t = MapSector + d
    OBVIOUS
<1>2. /\ d \in 1 .. NumDirSectors /\ NumDirSectors \in Nat /\ MapSector \in Int /\ t \in Int
      /\ SectorAt(s) \in Int /\ NameAt(s) \in Int
    BY <1>1, SlotPlaces DEF MapSector
<1>3. /\ call.writes[call.done + 1] = t
      /\ Len(call.writes) = NumDirSectors + 2 /\ call.done + 1 # Len(call.writes)
    <2>0. PICK sector \in Sectors : sector = call.sector
        BY <1>0
    <2>5. PICK writes : writes = call.writes
        OBVIOUS
    <2>1. writes = <<sector>> \o DirectoryWrites \o <<MapSector>>
        BY <2>0, <2>5 DEF Creating
    <2>2. /\ Len(writes) = NumDirSectors + 2
          /\ \A k \in 1 .. NumDirSectors : writes[k + 1] = MapSector + k
        BY <2>1, CreateWrites
    <2>3. writes[d + 1] = t
        BY <1>1, <1>2, <2>2
    <2>4. d + 1 # NumDirSectors + 2
        BY <1>2
    <2> QED BY <1>1, <2>5, <2>2, <2>3, <2>4
<1>4. /\ t \in System /\ t # MapSector
    BY <1>1, <1>2, SystemSectors
<1>5. UNCHANGED <<map, disk>>
    BY <1>3, <1>4 DEF WriteBack
<1>6. /\ FileTypes /\ UNCHANGED <<open, up, data, calls>> /\ dir' \in [Slots -> Entry]
      /\ \A i \in Slots :
           /\ dir'[i].sector = IF SectorAt(i) = t THEN call.dir[i].sector ELSE dir[i].sector
           /\ dir'[i].name = IF NameAt(i) = t THEN call.dir[i].name ELSE dir[i].name
           /\ dir[i] = call.dir[i] => dir'[i] = dir[i]
    BY <1>3, WritesSector
<1>7. /\ call' \in CallRecords /\ call' # NULL
      /\ call'.name = call.name /\ call'.sector = call.sector
      /\ call'.header = call.header /\ call'.dir = call.dir /\ call'.map = call.map
      /\ call'.writes = call.writes /\ call'.done = d + 1 /\ OwnSectors' = OwnSectors
    BY <1>1, <1>3, NextWrite
<1>8. FileTypes'
    BY <1>5, <1>6, <1>7 DEF FileTypes
<1>9. \A i \in Slots \ {s} : dir'[i] = dir[i]
    BY <1>6 DEF Creating, Apart
<1>10. Creating(s)'
    <2>1. PICK used : used = map
        OBVIOUS
    <2>2. Apart(used, s)'
        BY <1>5, <1>6, <1>7, <1>9, <2>1, ApartKept DEF Creating
    <2>3. Apart(map, s)'
        BY <1>5, <2>1, <2>2 DEF Apart
    <2>4. /\ (OwnSectors \cap map = {})' /\ (call.map = map \cup OwnSectors)'
        BY <1>5, <1>7 DEF Creating
    <2>5. SectorAt(s)' = SectorAt(s) /\ NameAt(s)' = NameAt(s)
        BY DEF SectorAt, NameAt
    <2>6. /\ Behind(SectorAt(s))' <=> SectorAt(s) < t \/ SectorAt(s) = t
          /\ Behind(NameAt(s))' <=> NameAt(s) < t \/ NameAt(s) = t
          /\ Behind(SectorAt(s)) <=> SectorAt(s) < t
          /\ Behind(NameAt(s)) <=> NameAt(s) < t
        BY <1>1, <1>2, <1>7, <2>5 DEF Behind
    <2>7. call.dir[s].sector = call.sector /\ call.dir[s].name = call.name
        BY DEF Creating
    <2>8. dir'[s].sector = IF Behind(SectorAt(s))' THEN call'.sector ELSE NULL
        <3>1. dir[s].sector = IF Behind(SectorAt(s)) THEN call.sector ELSE NULL
            BY DEF Creating
        <3> QED BY <1>2, <1>6, <1>7, <2>6, <2>7, <3>1
    <2>9. Behind(NameAt(s))' => dir'[s].name = call'.name
        <3>1. Behind(NameAt(s)) => dir[s].name = call.name
            BY DEF Creating
        <3> QED BY <1>6, <1>7, <2>6, <2>7, <3>1
    <2>10. call'.done \in 0 .. NumDirSectors + 1
        BY <1>2, <1>7
    <2>11. disk'[call'.sector] = [header |-> call'.header]
        BY <1>5, <1>7 DEF Creating
    <2>12. call'.dir[s] = [sector |-> call'.sector, name |-> call'.name]
        BY <1>7 DEF Creating
    <2> QED BY <1>7, <2>3, <2>4, <2>8, <2>9, <2>10, <2>11, <2>12 DEF Creating
<1> QED BY <1>1, <1>5, <1>6, <1>7, <1>8, <1>10 DEF FileInv, Progress

LEMMA CreateDone ==
    ASSUME FileInv, WriteBack, NEW s \in Slots, Creating(s), call.done = NumDirSectors + 1
    PROVE  FileInv' /\ call' = NULL /\ dir = call.dir /\ UNCHANGED <<dir, disk, data>>
<1>0. call \in CallRecords /\ call.sector \in Sectors /\ call.name \in Names /\ FileTypes
      /\ call.dir \in [Slots -> Entry] /\ call.header \in Headers
    BY DEF FileInv, FileTypes, WriteBack, CallRecords
<1>1. /\ call.writes[call.done + 1] = MapSector /\ Len(call.writes) = NumDirSectors + 2
      /\ call.done + 1 = Len(call.writes)
    <2>1. call.done + 1 = NumDirSectors + 2
        BY SlotPlaces
    <2> QED BY <1>0, <2>1, CreateWrites DEF Creating
<1>2. \A i \in Slots : SectorAt(i) # MapSector /\ NameAt(i) # MapSector
    BY SlotPlaces DEF MapSector
<1>3. map' = call.map /\ call' = NULL /\ UNCHANGED <<disk>>
    BY <1>1, SystemSectors DEF WriteBack
<1>4. UNCHANGED <<dir, open, up, data, calls>>
    BY <1>1, <1>2, WritesSector
<1>5. FileTypes'
    BY <1>0, <1>3, <1>4 DEF FileTypes, CallRecords
<1>6. /\ Apart(map, s) /\ map' = map \cup OwnSectors /\ OwnSectors \cap map = {}
      /\ disk[call.sector] = [header |-> call.header]
      /\ call.dir[s] = [sector |-> call.sector, name |-> call.name]
    BY <1>3, SlotPlaces DEF Creating
<1>7. dir[s] = [sector |-> call.sector, name |-> call.name]
    <2>1. Behind(SectorAt(s)) /\ Behind(NameAt(s))
        BY SlotPlaces DEF Behind, MapSector
    <2>2. dir[s].sector = call.sector /\ dir[s].name = call.name /\ dir[s] \in Entry
        BY <1>0, <2>1 DEF Creating, FileTypes
    <2> QED BY <2>2 DEF Entry
<1>8. dir = call.dir
    <2>1. \A i \in Slots : dir[i] = call.dir[i]
        BY <1>6, <1>7 DEF Apart
    <2> QED BY <1>0, <2>1 DEF FileTypes
<1>9. s \in Entries /\ SectorsOf(s) = OwnSectors
    <2>1. dir[s].sector # NULL
        BY <1>0, <1>7, FileSystemAssumption
    <2> QED BY <1>6, <1>7, <2>1 DEF Entries, SectorsOf, OwnSectors
<1>10. Whole(map', Entries)
    <2>1. map' = System \cup UNION {SectorsOf(i) : i \in Entries}
        BY <1>6, <1>9 DEF Whole, Apart
    <2>2. \A i \in Entries \ {s} : SectorsOf(i) \cap SectorsOf(s) = {} /\ dir[i].name # dir[s].name
        <3>1. \A i \in Entries \ {s} : SectorsOf(i) \subseteq map
            BY <1>6 DEF Whole, Apart
        <3> QED BY <1>6, <1>7, <1>9, <3>1 DEF Apart
    <2>3. /\ SectorsOf(s) \cap System = {} /\ dir[s].name \in Names
          /\ disk[dir[s].sector] \in [header : Headers]
          /\ dir[s].sector \notin DataSectors(disk[dir[s].sector].header)
        BY <1>0, <1>6, <1>7, <1>9 DEF Whole, Apart
    <2>4. /\ \A i, j \in Entries : i # j => SectorsOf(i) \cap SectorsOf(j) = {}
          /\ \A i, j \in Entries : dir[i].name = dir[j].name => i = j
        BY <1>6, <2>2 DEF Whole, Apart
    <2>5. \A i \in Entries : /\ SectorsOf(i) \cap System = {} /\ dir[i].name \in Names
                             /\ disk[dir[i].sector] \in [header : Headers]
                             /\ dir[i].sector \notin DataSectors(disk[dir[i].sector].header)
        BY <1>6, <2>3 DEF Whole, Apart
    <2> QED BY <2>1, <2>4, <2>5 DEF Whole
<1>11. OpenIn(Entries)
    BY <1>6 DEF OpenIn, Apart
<1>12. Progress'
    <2>1. PICK used, E : used = map' /\ E = Entries
        OBVIOUS
    <2>2. Whole(used, E)' /\ OpenIn(E)' /\ Entries' = E
        BY <1>3, <1>4, <1>10, <1>11, <2>1, SameFiles DEF OpenIn
    <2>3. Whole(map, Entries)' /\ OpenIn(Entries)'
        BY <2>1, <2>2 DEF Whole, OpenIn
    <2> QED BY <1>3, <2>3 DEF Progress
<1> QED BY <1>3, <1>4, <1>5, <1>8, <1>12 DEF FileInv

(* The same of Remove. *)
LEMMA MapWritten ==
    ASSUME FileInv, WriteBack, NEW s \in Slots, Removing(s), call.done = 0
    PROVE  FileInv' /\ UNCHANGED <<dir, disk, data>> /\ call' # NULL /\ call'.done = 1
<1>0. call \in CallRecords /\ FileTypes
    BY DEF FileInv, FileTypes, WriteBack
<1>1. /\ call.writes[call.done + 1] = MapSector /\ Len(call.writes) = NumDirSectors + 1
      /\ call.done + 1 # Len(call.writes)
    <2>1. NumDirSectors \in Nat /\ NumDirSectors # 0
        BY SlotPlaces DEF MapSector
    <2> QED BY <2>1, RemoveWrites DEF Removing
<1>2. \A i \in Slots : SectorAt(i) # MapSector /\ NameAt(i) # MapSector
    BY SlotPlaces DEF MapSector
<1>3. map' = call.map /\ UNCHANGED <<disk>>
    BY <1>1, SystemSectors DEF WriteBack
<1>4. UNCHANGED <<dir, open, up, data, calls>>
    BY <1>1, <1>2, WritesSector
<1>5. /\ call' \in CallRecords /\ call' # NULL
      /\ call'.name = call.name /\ call'.sector = call.sector
      /\ call'.header = call.header /\ call'.dir = call.dir /\ call'.map = call.map
      /\ call'.writes = call.writes /\ call'.done = 1 /\ OwnSectors' = OwnSectors
    <2>1. call.done + 1 = 1
        OBVIOUS
    <2> QED BY <1>1, <2>1, NextWrite
<1>6. FileTypes'
    BY <1>0, <1>3, <1>4, <1>5 DEF FileTypes, CallRecords
<1>7. Removing(s)'
    <2>1. PICK used : used = call.map
        OBVIOUS
    <2>2. Apart(used, s)'
        BY <1>3, <1>4, <1>5, <2>1, ApartKept DEF Removing
    <2>3. Apart(call.map, s)'
        BY <1>5, <2>1, <2>2 DEF Apart
    <2>4. /\ SectorAt(s)' = SectorAt(s) /\ SectorAt(s) >= MapSector + 1
          /\ SectorAt(s) \in Int /\ MapSector \in Int
        BY SlotPlaces DEF SectorAt, MapSector
    <2>5. ~ Behind(SectorAt(s)) /\ ~ Behind(SectorAt(s))'
        BY <1>5, <2>4 DEF Behind
    <2>6. call'.done \in 0 .. NumDirSectors /\ call'.done > 0
        <3>1. NumDirSectors \in Nat /\ NumDirSectors # 0
            BY SlotPlaces DEF MapSector
        <3> QED BY <1>5, <3>1
    <2>7. /\ (OwnSectors \cap call.map = {})' /\ map' = call'.map
        BY <1>3, <1>5 DEF Removing
    <2>8. /\ call'.writes = <<MapSector>> \o DirectoryWrites
          /\ call'.dir[s] = [sector |-> NULL, name |-> call'.name]
          /\ dir'[s] = [sector |-> call'.sector, name |-> call'.name]
          /\ disk'[call'.sector] = [header |-> call'.header]
        BY <1>3, <1>4, <1>5, <2>5 DEF Removing
    <2> QED BY <2>3, <2>5, <2>6, <2>7, <2>8 DEF Removing
<1> QED BY <1>3, <1>4, <1>5, <1>6, <1>7 DEF FileInv, Progress

LEMMA EntryCleared ==
    ASSUME FileInv, WriteBack, NEW s \in Slots, Removing(s), call.done \in 1 .. NumDirSectors
    PROVE  /\ FileInv' /\ UNCHANGED <<disk, data>>
           /\ \/ call' # NULL /\ call'.done = call.done + 1 /\ call'.dir = call.dir
              \/ call' = NULL /\ dir' = call.dir
<1>0. call \in CallRecords /\ call.dir \in [Slots -> Entry]
    BY DEF FileInv, FileTypes, WriteBack, CallRecords
<1>1. PICK t, d : d = call.done /\ t = MapSector + d
    OBVIOUS
<1>2. /\ d \in 1 .. NumDirSectors /\ NumDirSectors \in Nat /\ MapSector \in Int /\ t \in Int
      /\ SectorAt(s) \in Int /\ SectorAt(s) <= MapSector + NumDirSectors
    BY <1>1, SlotPlaces DEF MapSector
<1>3. /\ call.writes[call.done + 1] = t /\ Len(call.writes) = NumDirSectors + 1
    BY <1>1, <1>2, RemoveWrites DEF Removing
<1>4. /\ t \in System /\ t # MapSector
    BY <1>1, <1>2, SystemSectors
<1>5. UNCHANGED <<map, disk>>
    BY <1>3, <1>4 DEF WriteBack
<1>6. /\ FileTypes /\ UNCHANGED <<open, up, data, calls>> /\ dir' \in [Slots -> Entry]
      /\ \A i \in Slots :
           /\ dir'[i] = [sector |-> dir'[i].sector, name |-> dir'[i].name]
           /\ dir'[i].sector = IF SectorAt(i) = t THEN call.dir[i].sector ELSE dir[i].sector
           /\ dir'[i].name = IF NameAt(i) = t THEN call.dir[i].name ELSE dir[i].name
           /\ dir[i] = call.dir[i] => dir'[i] = dir[i]
    BY <1>3, WritesSector
<1>7. \A i \in Slots \ {s} : dir'[i] = dir[i] /\ dir'[i] = call.dir[i]
    BY <1>6 DEF Removing, Apart
<1>8. /\ dir'[s] = [sector |-> IF SectorAt(s) < t \/ SectorAt(s) = t THEN NULL ELSE call.sector,
                    name |-> call.name]
      /\ call.dir[s] = [sector |-> NULL, name |-> call.name]
    <2>1. call.dir[s].sector = NULL /\ call.dir[s].name = call.name /\ dir[s].name = call.name
          /\ call.dir[s] = [sector |-> NULL, name |-> call.name]
        BY DEF Removing
    <2>2. dir[s].sector = IF SectorAt(s) < t THEN NULL ELSE call.sector
        BY <1>1 DEF Removing, Behind
    <2>3. dir'[s].name = call.name
        BY <1>6, <2>1
    <2>4. dir'[s].sector = IF SectorAt(s) < t \/ SectorAt(s) = t THEN NULL ELSE call.sector
        BY <1>6, <2>1, <2>2
    <2> QED BY <1>6, <2>1, <2>3, <2>4
<1>9. PICK used : used = call.map
    OBVIOUS
<1>10. /\ map' = used /\ Apart(used, s)
    BY <1>1, <1>2, <1>5, <1>9 DEF Removing
<1>11. /\ Entries' \ {s} = Entries \ {s}
       /\ Whole(used, Entries \ {s})' /\ OpenIn(Entries \ {s})'
       /\ (/\ call'.name = call.name /\ call'.sector = call.sector
           /\ call'.header = call.header /\ call'.dir = call.dir) => Apart(used, s)'
    BY <1>5, <1>6, <1>7, <1>10, ApartKept
<1>12. CASE call.done + 1 # Len(call.writes)
    <2>1. /\ call' \in CallRecords /\ call' # NULL
          /\ call'.name = call.name /\ call'.sector = call.sector
          /\ call'.header = call.header /\ call'.dir = call.dir /\ call'.map = call.map
          /\ call'.writes = call.writes /\ call'.done = d + 1 /\ OwnSectors' = OwnSectors
        BY <1>1, <1>12, NextWrite
    <2>2. FileTypes'
        BY <1>5, <1>6, <2>1 DEF FileTypes
    <2>3. Apart(call.map, s)'
        BY <1>9, <1>11, <2>1 DEF Apart
    <2>4. SectorAt(s)' = SectorAt(s)
        BY DEF SectorAt
    <2>5. Behind(SectorAt(s))' <=> SectorAt(s) < t \/ SectorAt(s) = t
        BY <1>1, <1>2, <2>1, <2>4 DEF Behind
    <2>6. call'.done \in 0 .. NumDirSectors /\ call'.done > 0
        BY <1>1, <1>2, <1>3, <1>12, <2>1
    <2>7. /\ (OwnSectors \cap call.map = {})' /\ map' = call'.map
        BY <1>9, <1>10, <2>1 DEF Removing
    <2>8. /\ call'.writes = <<MapSector>> \o DirectoryWrites
          /\ call'.dir[s] = [sector |-> NULL, name |-> call'.name]
          /\ dir'[s] = [sector |-> IF Behind(SectorAt(s))' THEN NULL ELSE call'.sector,
                        name |-> call'.name]
          /\ disk'[call'.sector] = [header |-> call'.header]
        BY <1>5, <1>8, <2>1, <2>5 DEF Removing
    <2>9. Removing(s)'
        BY <2>3, <2>6, <2>7, <2>8 DEF Removing
    <2> QED BY <1>1, <1>5, <1>6, <2>1, <2>2, <2>9 DEF FileInv, Progress
<1>13. CASE call.done + 1 = Len(call.writes)
    <2>1. call' = NULL /\ d = NumDirSectors
        BY <1>1, <1>2, <1>3, <1>13 DEF WriteBack
    <2>2. FileTypes'
        BY <1>5, <1>6, <2>1 DEF FileTypes
    <2>3. dir'[s] = call.dir[s] /\ dir'[s].sector = NULL
        <3>1. SectorAt(s) < t \/ SectorAt(s) = t
            BY <1>1, <1>2, <2>1
        <3> QED BY <1>8, <3>1
    <2>4. dir' = call.dir
        BY <1>0, <1>6, <1>7, <2>3
    <2>5. Entries' \ {s} = Entries'
        BY <2>3 DEF Entries
    <2>6. Whole(map, Entries)' /\ OpenIn(Entries)'
        BY <1>10, <1>11, <2>5 DEF Whole, OpenIn
    <2> QED BY <1>5, <1>6, <2>1, <2>2, <2>4, <2>6 DEF FileInv, Progress
<1> QED BY <1>12, <1>13

(* The write that comes next. *)
LEMMA WriteCases ==
    ASSUME FileInv, WriteBack
    PROVE  \E s \in Slots :
              \/ Creating(s) /\ call.done = 0
              \/ Creating(s) /\ call.done \in 1 .. NumDirSectors
              \/ Creating(s) /\ call.done = NumDirSectors + 1
              \/ Removing(s) /\ call.done = 0
              \/ Removing(s) /\ call.done \in 1 .. NumDirSectors
<1>1. PICK s \in Slots : Creating(s) \/ Removing(s)
    BY DEF FileInv, Progress, WriteBack
<1>2. /\ NumDirSectors \in Nat
      /\ Creating(s) => call.done \in 0 .. NumDirSectors + 1
      /\ Removing(s) => call.done \in 0 .. NumDirSectors
    BY SlotPlaces DEF Creating, Removing
<1>3. /\ Creating(s) => \/ call.done = 0 \/ call.done \in 1 .. NumDirSectors
                        \/ call.done = NumDirSectors + 1
      /\ Removing(s) => call.done = 0 \/ call.done \in 1 .. NumDirSectors
    BY <1>2
<1> QED BY <1>1, <1>3

LEMMA WriteBackStep ==
    ASSUME FileInv, WriteBack
    PROVE  FileInv' /\ up' = up
<1>1. up' = up
    BY DEF WriteBack
<1> QED BY <1>1, WriteCases, HeaderWritten, EntryWritten, CreateDone, MapWritten, EntryCleared

-----------------------------------------------------------------------------
(* The bytes of a file are bytes, and WriteAt fetches those it does not     *)
(* change of the sectors it writes.                                         *)
LEMMA DivMonotone ==
    ASSUME NEW p \in Nat, NEW q \in Nat, p <= q
    PROVE  p \div SectorSize <= q \div SectorSize
<1> DEFINE S == SectorSize
           a == p \div S
           b == q \div S
           r == p % S
           t == q % S
<1>0. S \in Nat /\ S > 0
    BY FileSystemAssumption
<1>1. /\ a \in Nat /\ r \in 0 .. S - 1 /\ p = a * S + r
      /\ b \in Nat /\ t \in 0 .. S - 1 /\ q = b * S + t
    BY DivMod
<1> HIDE DEF a, b, r, t, S
<1>2. ASSUME a > b PROVE FALSE
    <2>1. (a - b) * S >= S
        BY <1>0, <1>1, <1>2
    <2>2. (a - b) * S = a * S - b * S
        BY <1>0, <1>1
    <2>3. a * S \in Nat /\ b * S \in Nat
        BY <1>0, <1>1
    <2> QED BY <1>0, <1>1, <2>1, <2>2, <2>3
<1>3. a <= b
    BY <1>1, <1>2
<1> QED BY <1>3 DEF a, b, S

LEMMA SectorsWritten ==
    ASSUME NEW header \in Headers, NEW position \in Nat, NEW done \in Nat, done > 0,
           position + done <= header.numBytes,
           NEW i \in position \div SectorSize .. (position + done - 1) \div SectorSize
    PROVE  /\ i \in Nat /\ i + 1 \in DOMAIN header.dataSectors
           /\ header.dataSectors[i + 1] \in DataSectors(header)
<1> DEFINE p == position + done - 1
           d == divRoundUp(header.numBytes, SectorSize)
           first == position \div SectorSize
           last == p \div SectorSize
<1>1. header.numBytes \in Nat /\ DOMAIN header.dataSectors = 1 .. d
    BY HeaderFacts
<1>2. p \in 0 .. header.numBytes - 1
    BY <1>1
<1>3. d \in Nat /\ last + 1 \in 1 .. d
    BY <1>1, <1>2, SectorCount
<1>4. first \in Nat /\ last \in Nat
    <2>1. p \in Nat
        BY <1>2
    <2> HIDE DEF p
    <2> QED BY <2>1, DivMod
<1>5. i \in first .. last
    OBVIOUS
<1> HIDE DEF first, last, d, p
<1>6. i \in Nat /\ i + 1 \in 1 .. d
    BY <1>3, <1>4, <1>5
<1> QED BY <1>1, <1>6 DEF DataSectors

LEMMA ByteIsByte ==
    ASSUME FileTypes, NEW header \in Headers, NEW p \in 0 .. header.numBytes - 1
    PROVE  /\ p \div SectorSize + 1 \in DOMAIN header.dataSectors
           /\ ByteToSector(header, p) \in DataSectors(header)
           /\ ByteToSector(header, p) \in Sectors
           /\ ByteAt(header, p) \in Bytes \cup {Garbage}
<1> DEFINE d == p \div SectorSize
           m == p % SectorSize
<1>1. header.numBytes \in Nat /\ DataSectors(header) \subseteq Sectors
      /\ DOMAIN header.dataSectors = 1 .. divRoundUp(header.numBytes, SectorSize)
    BY HeaderFacts
<1>2. p \in Nat /\ d + 1 \in DOMAIN header.dataSectors
    BY <1>1, SectorCount
<1>3. m \in 0 .. SectorSize - 1
    BY <1>2, DivMod
<1> HIDE DEF d, m
<1>4. header.dataSectors[d + 1] \in DataSectors(header)
    BY <1>2 DEF DataSectors
<1>5. header.dataSectors[d + 1] \in Sectors
    BY <1>1, <1>4
<1>6. disk[header.dataSectors[d + 1]] \in [block : Blocks] \cup [header : Headers]
    BY <1>5 DEF FileTypes
<1> DEFINE sector == disk[header.dataSectors[d + 1]]
<1>7. ByteAt(header, p) = IF "block" \in DOMAIN sector THEN sector.block[m] ELSE Garbage
    BY DEF ByteAt, ByteToSector, d, m
<1> HIDE DEF sector
<1>8. sector \in [block : Blocks] \/ sector \in [header : Headers]
    BY <1>6 DEF sector
<1>9. CASE sector \in [block : Blocks]
    <2>1. sector.block \in Blocks
        BY <1>9
    <2>2. sector.block[m] \in Bytes \cup {Garbage}
        BY <2>1, <1>3 DEF Blocks
    <2> QED BY <1>2, <1>4, <1>5, <1>7, <2>2 DEF ByteToSector, d
<1>10. CASE sector \in [header : Headers]
    <2>1. "block" \notin DOMAIN sector
        BY <1>10
    <2> QED BY <1>2, <1>4, <1>5, <1>7, <2>1 DEF ByteToSector, d
<1> QED BY <1>8, <1>9, <1>10

LEMMA FetchCovers ==
    ASSUME NEW position \in Nat, NEW done \in Nat, done > 0, NEW p \in Nat,
           position \div SectorSize <= p \div SectorSize,
           p \div SectorSize <= (position + done - 1) \div SectorSize,
           p < position \/ p >= position + done
    PROVE  Fetched(position, done, p)
<1> DEFINE S == SectorSize
           stop == position + done
           first == position \div S
           last == (stop - 1) \div S
           q == p \div S
<1>0. S \in Nat /\ S > 0 /\ stop \in Nat /\ stop - 1 \in Nat
    BY FileSystemAssumption
<1>1. /\ position \div S \in Nat /\ position % S \in 0 .. S - 1
      /\ position = (position \div S) * S + (position % S)
    BY DivMod
<1>2. /\ p \div S \in Nat /\ p % S \in 0 .. S - 1 /\ p = (p \div S) * S + (p % S)
    BY DivMod
<1>3. /\ stop \div S \in Nat /\ stop % S \in 0 .. S - 1
      /\ stop = (stop \div S) * S + (stop % S)
    <2> HIDE DEF stop
    <2> QED BY <1>0, DivMod
<1>4. (stop - 1) \div S \in Nat
    <2> DEFINE u == stop - 1
    <2>1. u \in Nat
        BY <1>0
    <2> HIDE DEF u
    <2>2. u \div S \in Nat
        BY <2>1, DivMod
    <2> QED BY <2>2 DEF u
<1>5. CASE p < position
    <2>1. q = first
        <3>1. q <= first
            BY <1>5, DivMonotone
        <3>2. first <= q
            OBVIOUS
        <3> QED BY <1>1, <1>2, <3>1, <3>2
    <2>2. position % S # 0
        <3>1. CASE position % S = 0
            <4> DEFINE fS == first * S
                       qS == q * S
            <4>1. fS = qS /\ qS \in Nat
                BY <1>0, <1>2, <2>1
            <4>2. position = fS /\ p >= qS
                <5>1. position = fS
                    BY <1>0, <1>1, <3>1
                <5>2. p >= qS
                    BY <1>0, <1>2, <4>1
                <5> QED BY <5>1, <5>2
            <4> HIDE DEF fS, qS
            <4> QED BY <1>5, <4>1, <4>2
        <3> QED BY <3>1
    <2> QED BY <2>1, <2>2 DEF Fetched
<1>6. CASE p >= stop
    <2>1. q = last
        <3>1. q <= last
            OBVIOUS
        <3>2. last <= q
            <4> DEFINE u == stop - 1
            <4>1. u \in Nat /\ u <= p
                BY <1>0, <1>6
            <4> HIDE DEF u
            <4>2. u \div S <= p \div S
                BY <4>1, DivMonotone
            <4> QED BY <4>2 DEF u
        <3> QED BY <1>2, <1>4, <3>1, <3>2
    <2>2. stop % S # 0
        <3>1. CASE stop % S = 0
            <4> DEFINE m == stop \div S
            <4>1. m \in Nat /\ m <= q
                <5>1. m <= q
                    <6> HIDE DEF stop
                    <6> QED BY <1>0, <1>6, DivMonotone
                <5> QED BY <1>3, <5>1
            <4>2. stop = m * S
                <5>1. stop = m * S + 0
                    BY <1>3, <3>1
                <5>2. m * S \in Nat
                    BY <1>0, <4>1
                <5> QED BY <5>1, <5>2
            <4>3. stop - 1 < m * S
                BY <1>0, <4>2
            <4> DEFINE u == stop - 1
            <4>4. u \in Nat /\ u \div S = last /\ u < m * S
                BY <1>0, <4>3
            <4> HIDE DEF u
            <4>5. u % S \in 0 .. S - 1 /\ u = (u \div S) * S + (u % S)
                BY <4>4, DivMod
            <4>6. last * S <= u
                <5>1. last * S \in Nat
                    BY <1>0, <1>4
                <5> HIDE DEF last
                <5> QED BY <1>0, <4>4, <4>5, <5>1
            <4> DEFINE l == last
            <4>7. l \in Nat /\ m <= l /\ l * S < m * S
                <5>1. l * S \in Int /\ m * S \in Int
                    BY <1>0, <1>4, <4>1
                <5> QED BY <1>4, <2>1, <4>1, <4>4, <4>6, <5>1
            <4> HIDE DEF l, m
            <4>8. l * S >= m * S
                BY <1>0, <4>1, <4>7
            <4>9. l * S \in Int /\ m * S \in Int
                BY <1>0, <4>1, <4>7
            <4> QED BY <4>7, <4>8, <4>9
        <3> QED BY <3>1
    <2> QED BY <2>1, <2>2 DEF Fetched
<1> QED BY <1>5, <1>6

(* A position of a file, as one byte of one of its sectors. *)
LEMMA WriteFacts ==
    ASSUME FileInv, NEW h \in Handles, NEW k \in 1 .. MaxTransfer, NEW bytes \in [1 .. k -> Bytes],
           Write(h, bytes)
    PROVE  \E header \in Headers, position \in Nat, done \in Nat :
              /\ header = open[h].header /\ position = open[h].seek
              /\ done = Clipped(header, k, position)
              /\ open[h] # NULL /\ position + done <= header.numBytes
              /\ open' = [open EXCEPT ![h].seek = position + done]
              /\ disk' \in [Sectors -> [block : Blocks] \cup [header : Headers]]
              /\ \A s \in Sectors \ DataSectors(header) : disk'[s] = disk[s]
              /\ \A p \in 0 .. header.numBytes - 1 : ByteAt(header, p)' =
                    IF p >= position /\ p < position + done THEN bytes[p - position + 1]
                    ELSE ByteAt(header, p)
<1>0. PICK header, position, done :
          header = open[h].header /\ position = open[h].seek
          /\ done = Clipped(header, k, position)
    OBVIOUS
<1>1. /\ open[h] # NULL /\ header \in Headers /\ position \in 0 .. header.numBytes
      /\ FileTypes
    BY <1>0, HandleFacts DEF Write, FileInv
<1>2. header.numBytes \in Nat /\ position \in Nat /\ k \in Nat
    BY <1>1, HeaderFacts, FileSystemAssumption
<1>3. done \in 0 .. k /\ position + done <= header.numBytes /\ done \in Nat
    <2>1. /\ Clipped(header, k, position) \in 0 .. k
          /\ position + Clipped(header, k, position) <= header.numBytes
        BY <1>1, <1>2, ClippedFits
    <2>2. done \in 0 .. k /\ position + done <= header.numBytes
        BY <1>0, <2>1
    <2> QED BY <1>2, <2>2
<1>4. Len(bytes) = k /\ \A j \in 1 .. k : bytes[j] \in Bytes
    BY <1>2
<1> DEFINE sectors == position \div SectorSize .. (position + done - 1) \div SectorSize
           Buffer(p) == IF p >= position /\ p < position + done THEN bytes[p - position + 1]
                        ELSE IF Fetched(position, done, p) /\ p < header.numBytes
                        THEN ByteAt(header, p) ELSE Garbage
           written == {i \in sectors : done > 0}
           Index(s) == CHOOSE i \in written : header.dataSectors[i + 1] = s
           Block(s) == [q \in 0 .. SectorSize - 1 |-> Buffer(Index(s) * SectorSize + q)]
<1>5. disk' = [s \in Sectors |-> IF \E i \in written : header.dataSectors[i + 1] = s
                                 THEN [block |-> Block(s)] ELSE disk[s]]
    BY <1>0, <1>4 DEF Write
<1>6. open' = [open EXCEPT ![h].seek = position + done]
    BY <1>0, <1>1, <1>4 DEF Write, FileTypes
<1>7. ASSUME NEW i \in written
      PROVE  /\ i \in Nat /\ i + 1 \in DOMAIN header.dataSectors /\ done > 0
             /\ header.dataSectors[i + 1] \in DataSectors(header)
             /\ \A s : header.dataSectors[i + 1] = s => Index(s) = i
    <2>1. \A j \in written : j \in Nat /\ j + 1 \in DOMAIN header.dataSectors
                             /\ header.dataSectors[j + 1] \in DataSectors(header)
        BY <1>1, <1>2, <1>3, SectorsWritten
    <2>2. \A a, b \in DOMAIN header.dataSectors :
              header.dataSectors[a] = header.dataSectors[b] => a = b
        BY <1>1 DEF Headers
    <2> HIDE DEF written
    <2>3. ASSUME NEW j \in written, header.dataSectors[j + 1] = header.dataSectors[i + 1]
          PROVE  j = i
        <3>1. j + 1 = i + 1 /\ j \in Nat /\ i \in Nat
            BY <2>1, <2>2, <2>3
        <3> QED BY <3>1
    <2>4. Index(header.dataSectors[i + 1]) = i
        BY <2>3
    <2>5. done > 0
        BY DEF written
    <2> QED BY <2>1, <2>4, <2>5
<1>8. ASSUME NEW p \in Nat PROVE Buffer(p) \in Bytes \cup {Garbage}
    <2>1. CASE p >= position /\ p < position + done
        <3>1. p - position + 1 \in 1 .. k
            BY <1>2, <1>3, <2>1
        <3> QED BY <1>4, <2>1, <3>1
    <2>2. ASSUME ~ (p >= position /\ p < position + done), p < header.numBytes
          PROVE  ByteAt(header, p) \in Bytes \cup {Garbage}
        <3>1. p \in 0 .. header.numBytes - 1
            BY <1>2, <2>2
        <3> QED BY <1>1, <3>1, ByteIsByte
    <2>3. CASE ~ (p >= position /\ p < position + done) /\ Fetched(position, done, p)
               /\ p < header.numBytes
        <3>1. Buffer(p) = ByteAt(header, p)
            BY <2>3
        <3> QED BY <2>2, <2>3, <3>1
    <2>4. CASE ~ (p >= position /\ p < position + done)
               /\ ~ (Fetched(position, done, p) /\ p < header.numBytes)
        <3>1. Buffer(p) = Garbage
            BY <2>4
        <3> QED BY <3>1
    <2> QED BY <2>1, <2>3, <2>4
<1> HIDE DEF Buffer
<1>9. disk' \in [Sectors -> [block : Blocks] \cup [header : Headers]]
    <2>1. ASSUME NEW s \in Sectors, NEW i \in written, header.dataSectors[i + 1] = s
          PROVE  Block(s) \in Blocks
        <3>1. Index(s) = i /\ i \in Nat
            BY <1>7, <2>1
        <3>2. ASSUME NEW q \in 0 .. SectorSize - 1
              PROVE  Buffer(Index(s) * SectorSize + q) \in Bytes \cup {Garbage}
            <4>1. i * SectorSize + q \in Nat
                BY <3>1, FileSystemAssumption
            <4> QED BY <1>8, <3>1, <4>1
        <3> QED BY <3>2 DEF Blocks
    <2> HIDE DEF Block, written
    <2>2. \A s \in Sectors : disk[s] \in [block : Blocks] \cup [header : Headers]
        BY <1>1 DEF FileTypes
    <2> QED BY <1>5, <2>1, <2>2
<1>10. \A s \in Sectors \ DataSectors(header) : disk'[s] = disk[s]
    <2> HIDE DEF Block, written
    <2> QED BY <1>5, <1>7
<1>11. ASSUME NEW p \in 0 .. header.numBytes - 1
       PROVE  ByteAt(header, p)' = IF p >= position /\ p < position + done
                                   THEN bytes[p - position + 1] ELSE ByteAt(header, p)
    <2>0. PICK d, m : d = p \div SectorSize /\ m = p % SectorSize
        OBVIOUS
    <2>1. /\ d \in Nat /\ m \in 0 .. SectorSize - 1 /\ p = d * SectorSize + m /\ p \in Nat
          /\ p < header.numBytes
        <3>1. p \in Nat /\ p < header.numBytes
            BY <1>2
        <3> QED BY <2>0, <3>1, DivMod
    <2>2. PICK s : s = header.dataSectors[d + 1]
        OBVIOUS
    <2>3. s \in DataSectors(header) /\ s \in Sectors /\ d + 1 \in DOMAIN header.dataSectors
        BY <1>1, <2>0, <2>2, ByteIsByte DEF ByteToSector
    <2>4. /\ ByteAt(header, p) = IF "block" \in DOMAIN disk[s] THEN disk[s].block[m] ELSE Garbage
          /\ ByteAt(header, p)' = IF "block" \in DOMAIN disk'[s] THEN disk'[s].block[m] ELSE Garbage
        BY <2>0, <2>2 DEF ByteAt, ByteToSector
    <2>5. CASE d \in written
        <3>1. Index(s) = d /\ done > 0
            BY <1>7, <2>2, <2>5
        <3>2. disk'[s] = [block |-> Block(s)]
            <4> HIDE DEF Block, written, Index
            <4> QED BY <1>5, <2>2, <2>3, <2>5
        <3>3. ByteAt(header, p)' = Block(s)[m]
            <4> HIDE DEF Block
            <4> QED BY <2>4, <3>2
        <3>4. Block(s)[m] = Buffer(p)
            BY <2>1, <3>1
        <3>5. CASE p >= position /\ p < position + done
            BY <3>3, <3>4, <3>5 DEF Buffer
        <3>6. CASE ~ (p >= position /\ p < position + done)
            <4>1. p < position \/ p >= position + done
                BY <1>2, <1>3, <2>1, <3>6
            <4>2. /\ position \div SectorSize <= p \div SectorSize
                  /\ p \div SectorSize <= (position + done - 1) \div SectorSize
                <5>1. d \in sectors
                    BY <2>5
                <5> QED BY <2>0, <5>1
            <4>3. Fetched(position, done, p)
                BY <1>2, <1>3, <2>1, <3>1, <4>1, <4>2, FetchCovers
            <4>4. Buffer(p) = ByteAt(header, p)
                BY <2>1, <3>6, <4>3 DEF Buffer
            <4> QED BY <3>3, <3>4, <3>6, <4>4
        <3> QED BY <3>5, <3>6
    <2>6. CASE d \notin written
        <3>1. ASSUME NEW i \in written, header.dataSectors[i + 1] = s PROVE FALSE
            <4>1. i \in Nat /\ i + 1 \in DOMAIN header.dataSectors
                BY <1>7
            <4>2. i + 1 = d + 1
                BY <1>1, <2>2, <2>3, <3>1, <4>1 DEF Headers
            <4>3. i = d
                BY <2>1, <4>1, <4>2
            <4> QED BY <2>6, <4>3
        <3>2. disk'[s] = disk[s]
            <4> HIDE DEF Block, written
            <4> QED BY <1>5, <2>3, <3>1
        <3>3. ByteAt(header, p)' = ByteAt(header, p)
            BY <2>4, <3>2
        <3>4. ASSUME p >= position, p < position + done PROVE FALSE
            <4> DEFINE u == position + done - 1
            <4>1. u \in Nat /\ p <= u /\ done > 0
                BY <1>2, <1>3, <2>1, <3>4
            <4> HIDE DEF u
            <4>2. position \div SectorSize <= d /\ d <= u \div SectorSize
                BY <1>2, <2>0, <2>1, <3>4, <4>1, DivMonotone
            <4>3. position \div SectorSize \in Nat /\ u \div SectorSize \in Nat
                BY <1>2, <4>1, DivMod
            <4>4. d \in position \div SectorSize .. u \div SectorSize
                BY <2>1, <4>2, <4>3
            <4>5. d \in written
                BY <4>1, <4>4 DEF u
            <4> QED BY <2>6, <4>5
        <3> QED BY <3>3, <3>4
    <2> QED BY <2>5, <2>6
<1>12. /\ header = open[h].header /\ position = open[h].seek
       /\ done = Clipped(header, k, position)
       /\ open[h] # NULL /\ position + done <= header.numBytes
       /\ open' = [open EXCEPT ![h].seek = position + done]
       /\ disk' \in [Sectors -> [block : Blocks] \cup [header : Headers]]
       /\ \A s \in Sectors \ DataSectors(header) : disk'[s] = disk[s]
       /\ \A p \in 0 .. header.numBytes - 1 : ByteAt(header, p)' =
             IF p >= position /\ p < position + done THEN bytes[p - position + 1]
             ELSE ByteAt(header, p)
    BY <1>0, <1>1, <1>3, <1>6, <1>9, <1>10, <1>11
<1>13. header \in Headers /\ position \in Nat /\ done \in Nat
    BY <1>1, <1>2, <1>3
<1> QED BY <1>12, <1>13

(* The file an OpenFile is on: no other file, and no header, is in its data. *)
LEMMA OpenFile ==
    ASSUME FileInv, call = NULL, NEW h \in Handles, open[h] # NULL
    PROVE  \E i \in Entries :
             /\ dir[i].name = open[h].name /\ disk[dir[i].sector].header = open[h].header
             /\ \A j \in Entries : dir[j].name = open[h].name => j = i
             /\ \A j \in Entries : dir[j].sector \notin DataSectors(open[h].header)
             /\ \A j \in Entries \ {i} : DataSectors(disk[dir[j].sector].header)
                                          \cap DataSectors(open[h].header) = {}
<1>1. FileTypes /\ Whole(map, Entries) /\ Entries \subseteq Entries
    BY IdleFacts
<1>2. PICK i \in Entries : dir[i].name = open[h].name
                          /\ disk[dir[i].sector] = [header |-> open[h].header]
    BY HandleFacts
<1>3. disk[dir[i].sector].header = open[h].header
    BY <1>2
<1>4. /\ SectorsOf(i) = {dir[i].sector} \cup DataSectors(open[h].header)
      /\ dir[i].sector \notin DataSectors(open[h].header)
      /\ \A j \in Entries : dir[j].name = open[h].name => j = i
    BY <1>1, <1>2, <1>3, EntryFacts
<1>5. ASSUME NEW j \in Entries \ {i}
      PROVE  /\ dir[j].sector \notin DataSectors(open[h].header)
             /\ DataSectors(disk[dir[j].sector].header) \cap DataSectors(open[h].header) = {}
    <2>1. SectorsOf(j) = {dir[j].sector} \cup DataSectors(disk[dir[j].sector].header)
        BY DEF SectorsOf
    <2>2. SectorsOf(j) \cap SectorsOf(i) = {}
        BY <1>1 DEF Whole
    <2> QED BY <1>4, <2>1, <2>2
<1> QED BY <1>2, <1>3, <1>4, <1>5

LEMMA WriteStep ==
    ASSUME FileInv, NEW h \in Handles, NEW k \in 1 .. MaxTransfer, NEW bytes \in [1 .. k -> Bytes],
           Write(h, bytes)
    PROVE  FileInv'
<1>1. calls' \in 0 .. MaxCalls /\ call = NULL /\ UNCHANGED <<map, dir, call, up>>
    BY CallsBounded DEF Write, FileInv
<1>2. PICK header, position, done :
        /\ header = open[h].header
        /\ open[h] # NULL /\ header \in Headers /\ position \in Nat
        /\ position + done <= header.numBytes /\ done \in Nat
        /\ open' = [open EXCEPT ![h].seek = position + done]
        /\ disk' \in [Sectors -> [block : Blocks] \cup [header : Headers]]
        /\ \A s \in Sectors \ DataSectors(header) : disk'[s] = disk[s]
    BY WriteFacts
<1>3. FileTypes /\ Whole(map, Entries) /\ OpenIn(Entries) /\ Entries \subseteq Entries
    BY <1>1, IdleFacts
<1>4. \A j \in Entries : dir[j].sector \notin DataSectors(header)
    BY <1>1, <1>2, OpenFile
<1>5. \A j \in Entries : dir[j].sector \in Sectors
    BY <1>3, EntryFacts
<1>6. Entries' = Entries
    BY <1>1 DEF Entries
<1>7. \A j \in Entries : dir'[j] = dir[j] /\ disk'[dir[j].sector] = disk[dir[j].sector]
    BY <1>1, <1>2, <1>4, <1>5
<1>8. Whole(map, Entries)'
    <2>1. PICK used, E : used = map /\ E = Entries
        OBVIOUS
    <2>2. Whole(used, E)'
        BY <1>3, <1>7, <2>1, OthersKept
    <2> QED BY <1>1, <1>6, <2>1, <2>2 DEF Whole
<1>9. position + done \in Nat
    BY <1>2
<1>10. /\ open'[h] = [name |-> open[h].name, header |-> open[h].header, seek |-> position + done]
       /\ DOMAIN open' = Handles /\ \A g \in Handles : g # h => open'[g] = open[g]
       /\ \A g \in Handles : open'[g] = NULL \/
             open'[g] \in [name : Names, header : Headers, seek : Nat]
    BY <1>1, <1>2, <1>9, PositionStep
<1>11. FileTypes'
    BY <1>1, <1>2, <1>3, <1>10 DEF FileTypes
<1>12. OpenIn(Entries)'
    <2>1. /\ open'[h].name = open[h].name /\ open'[h].header = open[h].header
          /\ open'[h].seek <= open'[h].header.numBytes
        BY <1>2, <1>10
    <2>2. ASSUME NEW g \in Handles, open'[g] # NULL
          PROVE  /\ open'[g].seek <= open'[g].header.numBytes
                 /\ open[g] # NULL
                 /\ open'[g].name = open[g].name /\ open'[g].header = open[g].header
        <3>1. CASE g = h
            BY <1>2, <2>1, <3>1
        <3>2. CASE g # h
            BY <1>3, <1>10, <2>2, <3>2 DEF OpenIn
        <3> QED BY <3>1, <3>2
    <2>3. ASSUME NEW g \in Handles, open'[g] # NULL
          PROVE  \E i \in Entries : dir'[i].name = open'[g].name
                                    /\ disk'[dir'[i].sector] = [header |-> open'[g].header]
        BY <1>3, <1>7, <2>2, <2>3 DEF OpenIn
    <2> QED BY <1>6, <2>2, <2>3 DEF OpenIn
<1> QED BY <1>1, <1>8, <1>11, <1>12 DEF FileInv, Progress

-----------------------------------------------------------------------------
LEMMA FileInit ==
    ASSUME Init
    PROVE  FileInv
<1>1. Entries = {}
    <2>1. ASSUME NEW i \in Slots PROVE dir[i].sector = NULL
        <3>1. dir[i] \in [sector : {NULL}, name : Names \cup {Garbage}]
            BY DEF Init
        <3> QED BY <3>1
    <2> QED BY <2>1 DEF Entries
<1>2. FileTypes
    <2>1. map \subseteq Sectors
        BY FileSystemAssumption DEF Init
    <2>2. [p \in 0 .. SectorSize - 1 |-> Garbage] \in Blocks
        BY DEF Blocks
    <2>3. disk \in [Sectors -> [block : Blocks] \cup [header : Headers]]
        BY <2>2 DEF Init
    <2>4. dir \in [Slots -> Entry]
        <3>1. [sector : {NULL}, name : Names \cup {Garbage}] \subseteq Entry
            BY DEF Entry
        <3> QED BY <3>1 DEF Init
    <2> QED BY <2>1, <2>3, <2>4, FileSystemAssumption DEF Init, FileTypes
<1>3. Whole(map, Entries) /\ OpenIn(Entries)
    BY <1>1 DEF Whole, OpenIn, Init
<1> QED BY <1>2, <1>3 DEF FileInv, Progress, Init

LEMMA StutterStep ==
    ASSUME FileInv, UNCHANGED vars
    PROVE  FileInv'
<1>1. UNCHANGED <<map, dir, disk, call, open, data, up, calls>>
    BY DEF vars
<1>2. FileTypes'
    BY <1>1 DEF FileInv, FileTypes
<1>3. CASE call = NULL
    BY <1>1, <1>2, <1>3, IdleStep DEF FileInv, FileTypes
<1>4. CASE call # NULL
    <2>1. PICK s \in Slots : Creating(s) \/ Removing(s)
        BY <1>4 DEF FileInv, Progress
    <2>2. \A used : Apart(used, s) => Apart(used, s)'
        BY <1>1, ApartKept DEF Entries
    <2>3. /\ OwnSectors' = OwnSectors /\ SectorAt(s)' = SectorAt(s) /\ NameAt(s)' = NameAt(s)
          /\ Behind(SectorAt(s))' = Behind(SectorAt(s)) /\ Behind(NameAt(s))' = Behind(NameAt(s))
        BY <1>1 DEF OwnSectors, DataSectors, Behind, SectorAt, NameAt
    <2>4. CASE Creating(s)
        <3>1. PICK used : used = map
            OBVIOUS
        <3>2. Apart(map, s)'
            BY <1>1, <2>2, <2>4, <3>1 DEF Creating, Apart
        <3>3. Creating(s)'
            BY <1>1, <2>3, <2>4, <3>2 DEF Creating
        <3> QED BY <1>1, <1>2, <1>4, <3>3 DEF FileInv, Progress
    <2>5. CASE Removing(s)
        <3>1. PICK used : used = call.map
            OBVIOUS
        <3>2. Apart(call.map, s)'
            BY <1>1, <2>2, <2>5, <3>1 DEF Removing, Apart
        <3>3. Removing(s)'
            BY <1>1, <2>3, <2>5, <3>2 DEF Removing
        <3> QED BY <1>1, <1>2, <1>4, <3>3 DEF FileInv, Progress
    <2> QED BY <2>1, <2>4, <2>5
<1> QED BY <1>3, <1>4

LEMMA FileStep ==
    ASSUME FileInv, [Next]_vars
    PROVE  FileInv'
<1>1. CASE UNCHANGED vars
    BY <1>1, StutterStep
<1>2. CASE Next
    <2>1. ASSUME NEW n \in Names, Remove(n) PROVE FileInv'
        BY <2>1, RemoveStep
    <2>2. ASSUME NEW n \in Names, NEW size \in Sizes, Create(n, size) PROVE FileInv'
        BY <2>2, CreateStep
    <2>3. ASSUME WriteBack PROVE FileInv'
        BY <2>3, WriteBackStep
    <2>4. ASSUME NEW h \in Handles, NEW n \in Names, Open(h, n) PROVE FileInv'
        BY <2>4, OpenStep
    <2>5. ASSUME NEW h \in Handles, Close(h) PROVE FileInv'
        BY <2>5, CloseStep
    <2>6. ASSUME NEW h \in Handles, NEW position \in 0 .. MaxTransfer, Seek(h, position)
          PROVE FileInv'
        BY <2>6, SeekStep
    <2>7. ASSUME NEW h \in Handles, NEW k \in 1 .. MaxTransfer, Read(h, k) PROVE FileInv'
        BY <2>7, ReadStep
    <2>8. ASSUME NEW h \in Handles, NEW k \in 1 .. MaxTransfer, NEW bytes \in [1 .. k -> Bytes],
                 Write(h, bytes)
          PROVE FileInv'
        BY <2>8, WriteStep
    <2> QED BY <1>1, <1>2, <2>1, <2>2, <2>3, <2>4, <2>5, <2>6, <2>7, <2>8 DEF Next
<1> QED BY <1>1, <1>2

LEMMA FileInvariant == Spec => []FileInv
BY FileInit, FileStep, PTL DEF Spec

(* The map, the directory, the headers and the open files have their types. *)
THEOREM FileSystemTypes == Spec => []TypeOK
<1>1. ASSUME FileInv PROVE TypeOK
    <2>1. /\ map \subseteq Sectors /\ dir \in [Slots -> Entry]
          /\ up \in BOOLEAN /\ calls \in 0 .. MaxCalls
        BY <1>1 DEF FileInv, FileTypes
    <2>2. call # NULL => call \in Operation
        BY <1>1, OperationsAreRecords DEF FileInv, FileTypes
    <2>3. \A s \in Sectors : DOMAIN disk[s] = {"block"} \/ DOMAIN disk[s] = {"header"}
        <3>1. \A s \in Sectors : disk[s] \in [block : Blocks] \/ disk[s] \in [header : Headers]
            BY <1>1 DEF FileInv, FileTypes
        <3>2. \A s \in Sectors : disk[s] \in [block : Blocks] => DOMAIN disk[s] = {"block"}
            OBVIOUS
        <3>3. \A s \in Sectors : disk[s] \in [header : Headers] => DOMAIN disk[s] = {"header"}
            OBVIOUS
        <3> QED BY <3>1, <3>2, <3>3
    <2>4. \A h \in Handles : open[h] # NULL =>
              open[h].name \in Names /\ open[h].seek \in 0 .. open[h].header.numBytes
        BY <1>1, HandleFacts
    <2> QED BY <2>1, <2>2, <2>3, <2>4 DEF TypeOK
<1> QED BY <1>1, FileInvariant, PTL

(* If no file is created larger than its header has room for,               *)
(* FileHeader::Deallocate never finds one of a file's sectors free, however *)
(* files are created, written and removed: its ASSERT does not fail.        *)
THEOREM FileSystemNeverAborts == SizesFit => (Spec => []NeverAborts)
<1> SUFFICES ASSUME SizesFit PROVE Spec => []NeverAborts
    OBVIOUS
<1>1. Init => NeverAborts
    BY DEF Init, NeverAborts
<1>2. ASSUME FileInv, NeverAborts, [Next]_vars PROVE NeverAborts'
    <2>1. ASSUME NEW n \in Names, Remove(n) PROVE up' = up
        BY <1>2, <2>1, RemoveStep
    <2>2. ASSUME NEW n \in Names, NEW size \in Sizes, Create(n, size) PROVE up' = TRUE
        <3>1. up' = up \/ up' = (divRoundUp(size, SectorSize) <= NumDirect)
            BY <2>2 DEF Create
        <3>2. divRoundUp(size, SectorSize) <= NumDirect
            BY DEF SizesFit
        <3> QED BY <1>2, <3>1, <3>2 DEF NeverAborts
    <2>3. ASSUME WriteBack PROVE up' = up
        BY <2>3 DEF WriteBack
    <2>4. ASSUME NEW h \in Handles,
                 \/ \E n \in Names : Open(h, n)
                 \/ Close(h)
                 \/ \E position \in 0 .. MaxTransfer : Seek(h, position)
                 \/ \E k \in 1 .. MaxTransfer :
                      Read(h, k) \/ \E bytes \in [1 .. k -> Bytes] : Write(h, bytes)
          PROVE  up' = up
        BY <2>4 DEF Open, Close, Seek, Read, Write
    <2> QED BY <1>2, <2>1, <2>2, <2>3, <2>4 DEF Next, vars, NeverAborts
<1>3. FileInv /\ NeverAborts /\ [Next]_vars => NeverAborts'
    BY <1>2
<1> QED BY <1>1, <1>3, FileInvariant, PTL DEF Spec

(* Between two operations BitMap marks the sectors of the files there are   *)
(* and no others, and no two files share one.                               *)
THEOREM BitmapIsExact == Spec => []MapIsExact
<1>1. FileInv => MapIsExact
    BY DEF FileInv, Progress, Whole, MapIsExact
<1> QED BY <1>1, FileInvariant, PTL

(* Whichever sector of Create or Remove was the last to be written before   *)
(* NachOS exits, every entry in use leads to a header, and those that are   *)
(* not the entry of the file created or removed keep their sectors, marked  *)
(* and to themselves, and a name of their own.                              *)
THEOREM FilesSurviveExit == Spec => []OthersSurvive
<1>1. ASSUME FileInv PROVE OthersSurvive
    <2>1. CASE call = NULL
        <3>1. Whole(map, Entries) /\ Settled \subseteq Entries
            BY <1>1, <2>1, IdleFacts DEF Settled
        <3>2. \A i \in Entries : "header" \in DOMAIN disk[dir[i].sector]
            BY <3>1 DEF Whole
        <3> QED BY <3>1, <3>2 DEF Whole, OthersSurvive
    <2>2. CASE call # NULL
        <3>1. PICK s \in Slots : Creating(s) \/ Removing(s)
            BY <1>1, <2>2 DEF FileInv, Progress
        <3>2. \E rest \in SUBSET map :
                 /\ Whole(rest, Entries \ {s})
                 /\ s \in Entries => /\ dir[s].sector = call.sector
                                     /\ disk[call.sector] = [header |-> call.header]
                                     /\ SectorsOf(s) \cap rest = {}
            <4>0. (disk[call.sector] = [header |-> call.header] /\ dir[s].sector = call.sector)
                  => SectorsOf(s) = OwnSectors
                BY DEF SectorsOf, OwnSectors
            <4>1. CASE Creating(s)
                <5>1. Whole(map, Entries \ {s}) /\ OwnSectors \cap map = {}
                    BY <4>1 DEF Creating, Apart
                <5>2. ASSUME s \in Entries
                      PROVE  dir[s].sector = call.sector
                             /\ disk[call.sector] = [header |-> call.header]
                    <6>1. dir[s].sector = call.sector /\ Behind(SectorAt(s))
                        BY <4>1, <5>2 DEF Creating, Entries
                    <6>2. call.done > 0
                        <7>1. /\ SectorAt(s) \in Int /\ SectorAt(s) >= MapSector + 1
                              /\ MapSector \in Int
                            BY SlotPlaces DEF MapSector
                        <7>2. call.done \in Int
                            BY <4>1, SlotPlaces DEF Creating
                        <7> QED BY <6>1, <7>1, <7>2 DEF Behind
                    <6> QED BY <4>1, <6>1, <6>2 DEF Creating
                <5> QED BY <4>0, <5>1, <5>2
            <4>2. CASE Removing(s)
                <5>1. Whole(call.map, Entries \ {s}) /\ OwnSectors \cap call.map = {}
                    BY <4>2 DEF Removing, Apart
                <5>2. /\ call.map \subseteq map /\ disk[call.sector] = [header |-> call.header]
                      /\ (s \in Entries => dir[s].sector = call.sector)
                    BY <4>2 DEF Removing, Entries
                <5>3. s \in Entries => /\ dir[s].sector = call.sector
                                      /\ disk[call.sector] = [header |-> call.header]
                                      /\ SectorsOf(s) \cap call.map = {}
                    BY <4>0, <5>1, <5>2
                <5>4. call.map \in SUBSET map
                    BY <5>2
                <5> QED BY <5>1, <5>3, <5>4
            <4> QED BY <3>1, <4>1, <4>2
        <3>3. PICK rest \in SUBSET map :
                 /\ Whole(rest, Entries \ {s})
                 /\ s \in Entries => /\ dir[s].sector = call.sector
                                     /\ disk[call.sector] = [header |-> call.header]
                                     /\ SectorsOf(s) \cap rest = {}
            BY <3>2
        <3>4. \A i \in Entries : "header" \in DOMAIN disk[dir[i].sector]
            <4>1. \A i \in Entries \ {s} : disk[dir[i].sector] \in [header : Headers]
                BY <3>3 DEF Whole
            <4> QED BY <3>3, <4>1
        <3>5. Settled \subseteq Entries \ {s}
            BY <2>2, <3>3 DEF Settled
        <3>6. ASSUME NEW i \in Settled
              PROVE  /\ SectorsOf(i) \subseteq map /\ dir[i].name \in Names
                     /\ \A j \in Entries \ {i} : SectorsOf(i) \cap SectorsOf(j) = {}
                     /\ \A j \in Settled \ {i} : dir[i].name # dir[j].name
            <4>1. i \in Entries \ {s} /\ SectorsOf(i) \subseteq rest /\ dir[i].name \in Names
                BY <3>3, <3>5 DEF Whole
            <4>2. ASSUME NEW j \in Entries \ {i} PROVE SectorsOf(i) \cap SectorsOf(j) = {}
                <5>1. CASE j = s
                    BY <3>3, <4>1, <5>1
                <5>2. CASE j # s
                    BY <3>3, <4>1, <5>2 DEF Whole
                <5> QED BY <5>1, <5>2
            <4>3. \A j \in Settled \ {i} : dir[i].name # dir[j].name
                BY <3>3, <3>5, <4>1 DEF Whole
            <4> QED BY <4>1, <4>2, <4>3
        <3> QED BY <3>4, <3>6 DEF OthersSurvive
    <2> QED BY <2>1, <2>2
<1> QED BY <1>1, FileInvariant, PTL

-----------------------------------------------------------------------------
(* What AtomicFiles sees of a name, and of a header. *)
FileOf(d, n) == IF SlotsOf(d, n) = {} THEN NULL ELSE Contents(d, n)
File(n) == FileOf(Directory, n)
BytesOf(header) == [p \in 1 .. header.numBytes |-> ByteAt(header, p - 1)]

LEMMA BytesAreFile ==
    ASSUME FileTypes, NEW header \in Headers
    PROVE  /\ BytesOf(header) \in Seq(Bytes \cup {Garbage}) /\ BytesOf(header) # NULL
           /\ Len(BytesOf(header)) = header.numBytes
           /\ DOMAIN BytesOf(header) = 1 .. header.numBytes
           /\ \A p \in 0 .. header.numBytes - 1 : BytesOf(header)[p + 1] = ByteAt(header, p)
<1>1. header.numBytes \in Nat
    BY HeaderFacts
<1>2. ASSUME NEW p \in 1 .. header.numBytes PROVE ByteAt(header, p - 1) \in Bytes \cup {Garbage}
    <2>1. p - 1 \in 0 .. header.numBytes - 1
        BY <1>1
    <2> QED BY <2>1, ByteIsByte
<1>3. BytesOf(header) \in [1 .. header.numBytes -> Bytes \cup {Garbage}]
    BY <1>2 DEF BytesOf
<1>4. BytesOf(header) \in Seq(Bytes \cup {Garbage}) /\ Len(BytesOf(header)) = header.numBytes
    BY <1>1, <1>3
<1>5. ASSUME NEW p \in 0 .. header.numBytes - 1 PROVE BytesOf(header)[p + 1] = ByteAt(header, p)
    <2>1. p + 1 \in 1 .. header.numBytes /\ (p + 1) - 1 = p
        BY <1>1
    <2> QED BY <2>1 DEF BytesOf
<1> QED BY <1>3, <1>4, <1>5, FileSystemAssumption

(* The directory that is looked at: that of the operation once its first     *)
(* sector is written, and then until the end the same.                       *)
LEMMA Views ==
    /\ (call = NULL \/ ~ (call.done > 1)) => Directory = dir
    /\ (call # NULL /\ call.done > 1) => Directory = call.dir
    /\ (call' = NULL \/ ~ (call'.done > 1)) => Directory' = dir'
    /\ (call' # NULL /\ call'.done > 1) => Directory' = call'.dir
BY DEF Directory

LEMMA FileSeen ==
    ASSUME NEW n, NEW d
    PROVE  /\ Directory = d => File(n) = FileOf(d, n)
           /\ Directory' = d => File(n)' = FileOf(d, n)'
BY DEF File, FileOf, SlotsOf, Contents, HeaderOf

LEMMA HeaderSeen ==
    ASSUME NEW d, NEW n, NEW i \in Slots, SlotsOf(d, n) = {i}
    PROVE  /\ HeaderOf(d, n) = disk[d[i].sector].header
           /\ FileOf(d, n) = BytesOf(disk[d[i].sector].header)
           /\ HeaderOf(d, n)' = disk'[d[i].sector].header
           /\ FileOf(d, n)' = Contents(d, n)'
<1>1. Lowest({i}) = i
    BY LowestIsOne
<1>2. HeaderOf(d, n) = disk[d[i].sector].header
    BY <1>1 DEF HeaderOf
<1>3. HeaderOf(d, n)' = disk'[d[i].sector].header
    <2>1. HeaderOf(d, n)' = disk'[d[Lowest(SlotsOf(d, n))].sector].header
        BY DEF HeaderOf, SlotsOf, Lowest, Slots
    <2> QED BY <1>1, <2>1
<1>4. FileOf(d, n)' = Contents(d, n)'
    BY DEF FileOf, SlotsOf, Slots
<1> QED BY <1>2, <1>3, <1>4 DEF FileOf, Contents, BytesOf

LEMMA NameIsFile ==
    ASSUME FileInv, call = NULL, NEW i \in Entries
    PROVE  /\ SlotsOf(dir, dir[i].name) = {i} /\ i \in Slots
           /\ File(dir[i].name) = BytesOf(disk[dir[i].sector].header)
<1>1. i \in SlotsOf(dir, dir[i].name) /\ i \in Slots
    BY DEF SlotsOf, Entries
<1>2. SlotsOf(dir, dir[i].name) = {i}
    BY <1>1, IdleFacts DEF SlotsOf, Entries, Whole
<1>3. PICK d, n : d = dir /\ n = dir[i].name
    OBVIOUS
<1>4. SlotsOf(d, n) = {i}
    BY <1>2, <1>3
<1>5. FileOf(d, n) = BytesOf(disk[d[i].sector].header)
    BY <1>1, <1>4, HeaderSeen
<1>6. File(n) = FileOf(d, n)
    BY <1>3, Views, FileSeen
<1> QED BY <1>1, <1>2, <1>3, <1>5, <1>6

(* A file is the same as long as its header and its sectors are. *)
LEMMA FileKept ==
    ASSUME FileTypes, NEW n, NEW d, NEW e, SlotsOf(e, n) = SlotsOf(d, n),
           \A i \in SlotsOf(d, n) :
               /\ e[i].sector = d[i].sector /\ disk[d[i].sector].header \in Headers
               /\ disk'[d[i].sector] = disk[d[i].sector]
               /\ \A s \in DataSectors(disk[d[i].sector].header) : disk'[s] = disk[s]
    PROVE  FileOf(e, n)' = FileOf(d, n)
<1>0. SlotsOf(e, n)' = SlotsOf(d, n)
    BY DEF SlotsOf, Slots
<1>1. CASE SlotsOf(d, n) = {}
    BY <1>0, <1>1 DEF FileOf
<1>2. CASE SlotsOf(d, n) # {}
    <2>0. PICK i : i = Lowest(SlotsOf(d, n))
        OBVIOUS
    <2>1. i \in SlotsOf(d, n)
        <3>1. SlotsOf(d, n) \in SUBSET Slots
            BY DEF SlotsOf
        <3> QED BY <1>2, <2>0, <3>1, LowestIsOne
    <2>2. PICK header \in Headers : header = disk[d[i].sector].header
        BY <2>1
    <2>3. HeaderOf(d, n) = header
        BY <2>0, <2>2 DEF HeaderOf
    <2>4. HeaderOf(e, n)' = header
        <3>1. HeaderOf(e, n)' = disk'[e[i].sector].header
            BY <1>0, <2>0 DEF HeaderOf, Lowest
        <3> QED BY <2>1, <2>2, <3>1
    <2>5. ASSUME NEW p \in 1 .. header.numBytes
          PROVE  ByteAt(header, p - 1)' = ByteAt(header, p - 1)
        <3>1. header.numBytes \in Nat
            BY HeaderFacts
        <3>2. p - 1 \in 0 .. header.numBytes - 1
            BY <3>1
        <3>3. ByteToSector(header, p - 1) \in DataSectors(header)
            BY <3>2, ByteIsByte
        <3>4. disk'[ByteToSector(header, p - 1)] = disk[ByteToSector(header, p - 1)]
            BY <2>1, <2>2, <3>3
        <3> QED BY <3>4 DEF ByteAt, ByteToSector
    <2>6. Contents(e, n)' = Contents(d, n)
        <3>1. Contents(d, n) = [p \in 1 .. header.numBytes |-> ByteAt(header, p - 1)]
            BY <2>3 DEF Contents
        <3>2. Contents(e, n)' = [p \in 1 .. header.numBytes |-> ByteAt(header, p - 1)']
            BY <2>4 DEF Contents, ByteAt, ByteToSector
        <3> HIDE DEF ByteAt
        <3> QED BY <2>5, <3>1, <3>2
    <2> QED BY <1>0, <1>2, <2>6 DEF FileOf
<1> QED BY <1>1, <1>2

(* Steps that write nothing to the disk, seen from the directory, change no *)
(* file.                                                                    *)
LEMMA NoFileChanged ==
    ASSUME UNCHANGED <<Directory, disk>>, NEW n
    PROVE  File(n)' = File(n)
<1>1. PICK d : d = Directory
    OBVIOUS
<1>2. Directory' = d
    BY <1>1
<1>3. File(n) = FileOf(d, n) /\ File(n)' = FileOf(d, n)'
    BY <1>1, <1>2, FileSeen
<1>4. SlotsOf(d, n)' = SlotsOf(d, n)
    BY DEF SlotsOf, Slots
<1>5. HeaderOf(d, n)' = HeaderOf(d, n)
    BY <1>4 DEF HeaderOf
<1>6. \A header, p : ByteAt(header, p)' = ByteAt(header, p)
    BY DEF ByteAt, ByteToSector
<1>7. Contents(d, n)' = Contents(d, n)
    BY <1>5, <1>6 DEF Contents
<1> QED BY <1>3, <1>4, <1>7 DEF FileOf

LEMMA OpenFileIs ==
    ASSUME FileInv, call = NULL, NEW h \in Handles, open[h] # NULL
    PROVE  /\ open[h].name \in Names /\ File(open[h].name) = BytesOf(open[h].header)
           /\ File(open[h].name) # NULL /\ File(open[h].name) \in Seq(Bytes \cup {Garbage})
           /\ Len(File(open[h].name)) = open[h].header.numBytes
<1>1. PICK i \in Entries : dir[i].name = open[h].name
                          /\ disk[dir[i].sector] = [header |-> open[h].header]
    BY HandleFacts
<1>2. disk[dir[i].sector].header = open[h].header
    BY <1>1
<1>3. File(open[h].name) = BytesOf(open[h].header)
    BY <1>1, <1>2, NameIsFile
<1>4. open[h].header \in Headers /\ open[h].name \in Names
    BY HandleFacts
<1> QED BY <1>3, <1>4, BytesAreFile DEF FileInv

(* The operations of AtomicFiles, on the files the directory leads to. *)
LEMMA AbstractFiles ==
    /\ Abstract!Init <=> ([n \in Names |-> File(n)] = [n \in Names |-> NULL] /\ data = <<>>)
    /\ \A n : Abstract!Create(n) <=>
          /\ [m \in Names |-> File(m)][n] = NULL /\ [m \in Names |-> File(m)'][n] # NULL
          /\ [m \in Names |-> File(m)'] =
                 [[m \in Names |-> File(m)] EXCEPT ![n] = [m \in Names |-> File(m)'][n]]
          /\ UNCHANGED data
    /\ \A n : Abstract!Remove(n) <=>
          /\ [m \in Names |-> File(m)][n] # NULL
          /\ [m \in Names |-> File(m)'] = [[m \in Names |-> File(m)] EXCEPT ![n] = NULL]
          /\ UNCHANGED data
    /\ UNCHANGED Abstract!vars <=>
          ([m \in Names |-> File(m)'] = [m \in Names |-> File(m)] /\ UNCHANGED data)
BY DEF Abstract!Init, Abstract!Create, Abstract!Remove, Abstract!vars, File, FileOf

LEMMA AbstractWrite ==
    ASSUME NEW n, NEW position, NEW bytes
    PROVE  Abstract!Write(n, position, bytes) <=>
          /\ [m \in Names |-> File(m)][n] # NULL
          /\ [m \in Names |-> File(m)'] = [[m \in Names |-> File(m)] EXCEPT ![n] =
                 [p \in DOMAIN [m \in Names |-> File(m)][n] |->
                     IF position < p /\ p <= position + Len(bytes) THEN bytes[p - position]
                     ELSE [m \in Names |-> File(m)][n][p]]]
          /\ UNCHANGED data
BY DEF Abstract!Write, File, FileOf

LEMMA StutterOfFiles ==
    ASSUME \A n \in Names : File(n)' = File(n), UNCHANGED data
    PROVE  UNCHANGED Abstract!vars
BY AbstractFiles

LEMMA CreatesFile ==
    ASSUME NEW n \in Names, File(n) = NULL, File(n)' # NULL, UNCHANGED data,
           \A m \in Names \ {n} : File(m)' = File(m)
    PROVE  Abstract!Create(n)
BY AbstractFiles

LEMMA RemovesFile ==
    ASSUME NEW n \in Names, File(n) # NULL, File(n)' = NULL, UNCHANGED data,
           \A m \in Names \ {n} : File(m)' = File(m)
    PROVE  Abstract!Remove(n)
BY AbstractFiles

LEMMA ReadsFile ==
    ASSUME FileInv, NEW h \in Handles, NEW k \in 1 .. MaxTransfer, Read(h, k)
    PROVE  [Abstract!Next]_(Abstract!vars)
<1> DEFINE n == open[h].name
           file == File(n)
<1>0. PICK header, position, done : header = open[h].header /\ position = open[h].seek
                                    /\ done = Clipped(header, k, position)
    OBVIOUS
<1>1. /\ open[h] # NULL /\ header \in Headers /\ position \in 0 .. header.numBytes
      /\ n \in Names /\ file = BytesOf(header) /\ file # NULL
      /\ file \in Seq(Bytes \cup {Garbage}) /\ Len(file) = header.numBytes
    BY <1>0, HandleFacts, OpenFileIs DEF Read, Calls
<1>2. header.numBytes \in Nat /\ k \in Nat /\ position \in Nat
    BY <1>1, HeaderFacts, FileSystemAssumption
<1>3. PICK last : last = IF position + k < Len(file) THEN position + k ELSE Len(file)
    OBVIOUS
<1>4. done \in Nat /\ last \in Nat /\ last = position + done /\ last <= header.numBytes
    <2>1. /\ Clipped(header, k, position) \in 0 .. k
          /\ position + k <= header.numBytes => Clipped(header, k, position) = k
          /\ position + k > header.numBytes =>
                 Clipped(header, k, position) = header.numBytes - position
        BY <1>1, <1>2, ClippedFits
    <2>2. /\ done \in 0 .. k
          /\ position + k <= header.numBytes => done = k
          /\ position + k > header.numBytes => done = header.numBytes - position
        BY <1>0, <2>1
    <2> QED BY <1>1, <1>2, <1>3, <2>2
<1>5. data' = [i \in 1 .. done |-> ByteAt(header, position + i - 1)]
    BY <1>0 DEF Read
<1>6. ASSUME NEW i \in 1 .. done
      PROVE  /\ position + i \in 1 .. header.numBytes
             /\ data'[i] = file[position + i] /\ data'[i] \in Bytes \cup {Garbage}
    <2>1. position + i - 1 \in 0 .. header.numBytes - 1
        BY <1>2, <1>4
    <2>2. BytesOf(header)[(position + i - 1) + 1] = ByteAt(header, position + i - 1)
        BY <1>1, <2>1, BytesAreFile DEF FileInv
    <2>3. (position + i - 1) + 1 = position + i
        BY <1>2
    <2>4. ByteAt(header, position + i - 1) \in Bytes \cup {Garbage}
        BY <1>1, <2>1, ByteIsByte DEF FileInv
    <2>5. position + i \in 1 .. header.numBytes
        BY <1>2, <1>4
    <2> QED BY <1>1, <1>5, <2>2, <2>3, <2>4, <2>5
<1> HIDE DEF file
<1>7. data' \in Seq(Bytes \cup {Garbage}) /\ Len(data') = done
    <2>1. data' \in [1 .. done -> Bytes \cup {Garbage}]
        BY <1>5, <1>6
    <2> QED BY <1>4, <2>1
<1>8. data' = SubSeq(file, position + 1, last)
    <2> DEFINE s == SubSeq(file, position + 1, last)
               t == data'
    <2>1. \A j \in position + 1 .. last : file[j] \in Bytes \cup {Garbage}
        BY <1>1, <1>2, <1>4
    <2>2. /\ s \in Seq(Bytes \cup {Garbage})
          /\ Len(s) = IF position + 1 <= last THEN last - (position + 1) + 1 ELSE 0
          /\ \A i \in 1 .. last - (position + 1) + 1 : s[i] = file[(position + 1) + i - 1]
        <3>1. position + 1 \in Int /\ last \in Int
            BY <1>2, <1>4
        <3> QED BY <2>1, <3>1, SubSeqProperties
    <2>3. Len(s) = done
        BY <1>2, <1>4, <2>2
    <2>4. \A i \in 1 .. done : s[i] = file[position + i]
        <3>1. last - (position + 1) + 1 = done
            BY <1>2, <1>4
        <3>2. \A i \in 1 .. done : (position + 1) + i - 1 = position + i
            BY <1>2, <1>4
        <3> HIDE DEF s
        <3> QED BY <2>2, <3>1, <3>2
    <2>5. t \in Seq(Bytes \cup {Garbage}) /\ Len(t) = done
          /\ \A i \in 1 .. done : t[i] = file[position + i]
        BY <1>6, <1>7
    <2> HIDE DEF s, t
    <2>6. t = s
        BY <2>2, <2>3, <2>4, <2>5, SeqEqual
    <2> QED BY <2>6 DEF s, t
<1>9. UNCHANGED <<Directory, disk>>
    BY Views DEF Read, Calls
<1>10. [m \in Names |-> File(m)'] = [m \in Names |-> File(m)]
    BY <1>9, NoFileChanged
<1>11. [m \in Names |-> File(m)][n] = file
    BY <1>1 DEF file
<1>12. Abstract!Read(n, position, k)
    <2>1. /\ [m \in Names |-> File(m)][n] # NULL
          /\ data' = SubSeq([m \in Names |-> File(m)][n], position + 1,
                        IF position + k < Len([m \in Names |-> File(m)][n])
                        THEN position + k ELSE Len([m \in Names |-> File(m)][n]))
        BY <1>1, <1>3, <1>8, <1>11
    <2> QED BY <1>10, <2>1 DEF Abstract!Read, File, FileOf
<1>13. position \in Abstract!Positions(n)
    <2>1. position \in 0 .. IF [m \in Names |-> File(m)][n] = NULL THEN 0
                            ELSE Len([m \in Names |-> File(m)][n])
        BY <1>1, <1>2, <1>11
    <2> QED BY <2>1 DEF Abstract!Positions, File, FileOf
<1> QED BY <1>1, <1>12, <1>13 DEF Abstract!Next

LEMMA WritesFile ==
    ASSUME FileInv, NEW h \in Handles, NEW k \in 1 .. MaxTransfer, NEW bytes \in [1 .. k -> Bytes],
           Write(h, bytes)
    PROVE  [Abstract!Next]_(Abstract!vars)
<1>0. PICK header \in Headers, position \in Nat, done \in Nat :
        /\ header = open[h].header /\ position = open[h].seek
        /\ done = Clipped(header, k, position)
        /\ open[h] # NULL /\ position + done <= header.numBytes
        /\ \A s \in Sectors \ DataSectors(header) : disk'[s] = disk[s]
        /\ \A p \in 0 .. header.numBytes - 1 : ByteAt(header, p)' =
              IF p >= position /\ p < position + done THEN bytes[p - position + 1]
              ELSE ByteAt(header, p)
    BY WriteFacts
<1>1. PICK n, d : n = open[h].name /\ d = dir
    OBVIOUS
<1>2. /\ header.numBytes \in Nat /\ k \in Nat /\ Len(bytes) = k
      /\ position \in 0 .. header.numBytes
    BY <1>0, HeaderFacts, FileSystemAssumption
<1>3. done \in Nat /\ \A p \in 0 .. header.numBytes - 1 : p < position + done <=> p < position + k
    <2>1. /\ Clipped(header, k, position) \in 0 .. k
          /\ position + k <= header.numBytes => Clipped(header, k, position) = k
          /\ position + k > header.numBytes =>
                 Clipped(header, k, position) = header.numBytes - position
        BY <1>2, ClippedFits
    <2>2. /\ done \in 0 .. k
          /\ position + k <= header.numBytes => done = k
          /\ position + k > header.numBytes => done = header.numBytes - position
        BY <1>0, <2>1
    <2> QED BY <1>1, <1>2, <2>2
<1>4. /\ call = NULL /\ UNCHANGED <<dir, data>> /\ Directory = d /\ Directory' = d
    BY <1>1, Views DEF Write, Calls
<1>5. PICK i \in Entries :
          /\ d[i].name = n /\ disk[d[i].sector].header = header
          /\ \A j \in Entries : d[j].name = n => j = i
          /\ \A j \in Entries : d[j].sector \notin DataSectors(header)
          /\ \A j \in Entries \ {i} : DataSectors(disk[d[j].sector].header)
                                       \cap DataSectors(header) = {}
    BY <1>0, <1>1, <1>4, OpenFile
<1>6. /\ FileTypes /\ Whole(map, Entries) /\ Entries \subseteq Entries
    BY <1>4, IdleFacts
<1>7. \A m : File(m) = FileOf(d, m) /\ File(m)' = FileOf(d, m)'
    BY <1>4, FileSeen
<1>8. ASSUME NEW m \in Names \ {n} PROVE File(m)' = File(m)
    <2>1. ASSUME NEW j \in SlotsOf(d, m)
          PROVE  /\ disk[d[j].sector].header \in Headers
                 /\ disk'[d[j].sector] = disk[d[j].sector]
                 /\ \A s \in DataSectors(disk[d[j].sector].header) : disk'[s] = disk[s]
        <3>1. j \in Entries \ {i} /\ j \in Entries
            BY <1>1, <1>5, <1>8 DEF SlotsOf, Entries
        <3>2. /\ disk[d[j].sector].header \in Headers /\ d[j].sector \in Sectors
              /\ DataSectors(disk[d[j].sector].header) \subseteq Sectors
            BY <1>1, <1>6, <3>1, EntryFacts, HeaderFacts
        <3>3. /\ d[j].sector \in Sectors \ DataSectors(header)
              /\ DataSectors(disk[d[j].sector].header) \subseteq Sectors \ DataSectors(header)
            BY <1>5, <3>1, <3>2
        <3> QED BY <1>0, <3>2, <3>3
    <2>2. FileOf(d, m)' = FileOf(d, m)
        BY <1>6, <2>1, FileKept
    <2> QED BY <1>7, <2>2
<1>9. /\ SlotsOf(d, n) = {i} /\ i \in Slots
      /\ File(n) = BytesOf(header) /\ File(n) # NULL
      /\ DOMAIN File(n) = 1 .. header.numBytes /\ Len(File(n)) = header.numBytes
    <2>1. dir[i].name = n /\ disk[dir[i].sector].header = header
        BY <1>1, <1>4, <1>5
    <2>2. SlotsOf(dir, n) = {i} /\ i \in Slots /\ File(n) = BytesOf(header)
        BY <1>1, <1>4, <2>1, NameIsFile
    <2>3. SlotsOf(d, n) = {i}
        BY <1>1, <1>4, <2>2
    <2> QED BY <1>6, <2>2, <2>3, BytesAreFile
<1>10. File(n)' = [p \in 1 .. header.numBytes |-> ByteAt(header, p - 1)']
    <2>1. d[i].sector \in Sectors /\ disk'[d[i].sector] = disk[d[i].sector]
        BY <1>0, <1>1, <1>5, <1>6, EntryFacts
    <2>2. HeaderOf(d, n)' = header /\ FileOf(d, n)' = Contents(d, n)'
        BY <1>5, <1>9, <2>1, HeaderSeen
    <2>3. Contents(d, n)' = [p \in 1 .. header.numBytes |-> ByteAt(header, p - 1)']
        BY <2>2 DEF Contents, ByteAt, ByteToSector
    <2> QED BY <1>7, <2>2, <2>3
<1>11. File(n)' = [p \in DOMAIN File(n) |->
                     IF position < p /\ p <= position + Len(bytes) THEN bytes[p - position]
                     ELSE File(n)[p]]
    <2>1. ASSUME NEW p \in 1 .. header.numBytes
          PROVE  ByteAt(header, p - 1)' =
                     IF position < p /\ p <= position + Len(bytes) THEN bytes[p - position]
                     ELSE File(n)[p]
        <3>0. p \in Int /\ p - 1 \in 0 .. header.numBytes - 1
            BY <1>2
        <3>1. PICK q \in 0 .. header.numBytes - 1 : q = p - 1 /\ p = q + 1
            BY <3>0
        <3>2. BytesOf(header)[q + 1] = ByteAt(header, q)
            BY <1>1, <1>6, BytesAreFile
        <3>3. ByteAt(header, q)' = IF q >= position /\ q < position + done
                                   THEN bytes[q - position + 1] ELSE ByteAt(header, q)
            BY <1>0
        <3>4. (q >= position /\ q < position + done) <=> (position < p /\ p <= position + Len(bytes))
            BY <1>2, <1>3, <3>1
        <3>5. q - position + 1 = p - position
            BY <1>2, <3>1
        <3>6. ByteAt(header, q)' = IF position < p /\ p <= position + Len(bytes)
                                   THEN bytes[p - position] ELSE File(n)[p]
            BY <1>9, <3>1, <3>2, <3>3, <3>4, <3>5
        <3> QED BY <3>1, <3>6
    <2> HIDE DEF ByteAt
    <2> QED BY <1>9, <1>10, <2>1
<1>12. n \in Names
    BY <1>0, <1>1, <1>4, OpenFileIs
<1> DEFINE files == [m \in Names |-> File(m)]
           next == [m \in Names |-> File(m)']
<1>13. /\ files[n] = File(n) /\ next[n] = File(n)' /\ \A m \in Names \ {n} : next[m] = files[m]
       /\ DOMAIN files = Names /\ next = [m \in Names |-> next[m]]
    BY <1>8, <1>12
<1> HIDE DEF files, next
<1>14. next = [files EXCEPT ![n] =
               [p \in DOMAIN files[n] |-> IF position < p /\ p <= position + Len(bytes)
                                          THEN bytes[p - position] ELSE files[n][p]]]
    BY <1>11, <1>12, <1>13
<1>15. Abstract!Write(n, position, bytes)
    <2>1. files[n] # NULL /\ UNCHANGED data
        BY <1>4, <1>9, <1>13
    <2> QED BY <1>14, <2>1, AbstractWrite DEF files, next
<1>16. position \in Abstract!Positions(n)
    <2>1. position \in 0 .. IF files[n] = NULL THEN 0 ELSE Len(files[n])
        BY <1>2, <1>9, <1>13
    <2> QED BY <2>1 DEF Abstract!Positions, File, FileOf, files
<1> QED BY <1>12, <1>15, <1>16 DEF Abstract!Next

(* Of the writes of Create and Remove, the first of the directory is the one *)
(* that makes the file appear or go.                                         *)
LEMMA HeaderChangesNoFile ==
    ASSUME FileInv, WriteBack, NEW s \in Slots, Creating(s), call.done = 0
    PROVE  UNCHANGED Abstract!vars
<1>1. /\ dir' = dir /\ UNCHANGED data /\ call' # NULL /\ call'.done = 1
      /\ \A t \in map : disk'[t] = disk[t]
    BY HeaderWritten
<1>2. PICK d : d = dir
    OBVIOUS
<1>3. Directory = d /\ Directory' = d
    <2>1. ~ (call.done > 1) /\ ~ (call'.done > 1)
        BY <1>1
    <2> QED BY <1>1, <1>2, <2>1, Views
<1>4. PICK E : E = Entries \ {s}
    OBVIOUS
<1>5. /\ FileTypes /\ E \subseteq Entries /\ Whole(map, E) /\ s \notin Entries
    <2>1. ~ Behind(SectorAt(s))
        <3>1. SectorAt(s) \in Int /\ SectorAt(s) >= MapSector + 1 /\ MapSector \in Int
            BY SlotPlaces DEF MapSector
        <3> QED BY <3>1 DEF Behind
    <2> QED BY <1>4, <2>1 DEF Creating, Apart, Entries, FileInv
<1>6. ASSUME NEW n \in Names PROVE File(n)' = File(n)
    <2>1. ASSUME NEW i \in SlotsOf(d, n)
          PROVE  /\ disk[d[i].sector].header \in Headers
                 /\ disk'[d[i].sector] = disk[d[i].sector]
                 /\ \A t \in DataSectors(disk[d[i].sector].header) : disk'[t] = disk[t]
        <3>1. i \in E
            BY <1>2, <1>4, <1>5 DEF SlotsOf, Entries
        <3>2. /\ disk[dir[i].sector].header \in Headers
              /\ SectorsOf(i) = {dir[i].sector} \cup DataSectors(disk[dir[i].sector].header)
            BY <1>5, <3>1, EntryFacts
        <3>3. SectorsOf(i) \subseteq map
            BY <1>5, <3>1 DEF Whole
        <3> QED BY <1>1, <1>2, <3>2, <3>3
    <2>2. FileOf(d, n)' = FileOf(d, n)
        BY <1>5, <2>1, FileKept
    <2> QED BY <1>3, <2>2, FileSeen
<1> QED BY <1>1, <1>6, StutterOfFiles

(* The other files, when one write of the directory changes slot s. *)
LEMMA OtherSlots ==
    ASSUME FileTypes, NEW s \in Slots, NEW used, Apart(used, s), NEW d, d = dir, NEW e,
           \A i \in Slots \ {s} : e[i] = d[i], UNCHANGED disk, NEW n,
           d[s].sector # NULL => d[s].name # n, e[s].sector # NULL => e[s].name # n
    PROVE  FileOf(e, n)' = FileOf(d, n)
<1>1. SlotsOf(e, n) = SlotsOf(d, n) /\ SlotsOf(d, n) \subseteq Entries \ {s}
      /\ SlotsOf(d, n) \subseteq Slots \ {s}
    BY DEF SlotsOf, Entries
<1>2. PICK E : E = Entries \ {s}
    OBVIOUS
<1>3. E \subseteq Entries /\ Whole(used, E)
    BY <1>2 DEF Apart
<1>4. ASSUME NEW i \in SlotsOf(d, n) PROVE disk[d[i].sector].header \in Headers
    BY <1>1, <1>2, <1>3, EntryFacts
<1> QED BY <1>1, <1>4, FileKept

LEMMA EntryCreatesFile ==
    ASSUME FileInv, WriteBack, NEW s \in Slots, Creating(s), call.done \in 1 .. NumDirSectors,
           call.done = 1
    PROVE  \E n \in Names : Abstract!Create(n)
<1>1. /\ UNCHANGED <<disk, data>> /\ call' # NULL /\ call'.done = 2 /\ call'.dir = call.dir
      /\ FileTypes /\ call \in CallRecords
    BY EntryWritten DEF FileInv, FileTypes, WriteBack
<1>2. PICK d, e, used : d = dir /\ e = call.dir /\ used = map
    OBVIOUS
<1>3. Directory = d /\ Directory' = e
    <2>1. ~ (call.done > 1) /\ call'.done > 1
        BY <1>1
    <2> QED BY <1>1, <1>2, <2>1, Views
<1>4. PICK n \in Names, header \in Headers, sector \in Sectors :
          n = call.name /\ header = call.header /\ sector = call.sector
    BY <1>1 DEF CallRecords
<1>5. /\ Apart(used, s) /\ \A i \in Slots \ {s} : e[i] = d[i]
      /\ \A i \in Entries \ {s} : d[i].name # n
      /\ e[s].sector = sector /\ e[s].name = n /\ sector # NULL /\ d[s].sector = NULL
      /\ disk[sector] = [header |-> header]
    <2>1. ~ Behind(SectorAt(s))
        <3>1. SectorAt(s) \in Int /\ SectorAt(s) >= MapSector + 1 /\ MapSector \in Int
            BY SlotPlaces DEF MapSector
        <3> QED BY <3>1 DEF Behind
    <2>2. call.done > 0
        OBVIOUS
    <2>3. e[s] = [sector |-> sector, name |-> n]
        BY <1>2, <1>4 DEF Creating
    <2>4. sector # NULL
        BY FileSystemAssumption
    <2>5. Apart(map, s)
        BY DEF Creating
    <2>6. /\ \A i \in Slots \ {s} : e[i] = d[i]
          /\ \A i \in Entries \ {s} : d[i].name # n
        BY <1>2, <1>4, <2>5 DEF Apart
    <2> QED BY <1>2, <1>4, <2>1, <2>2, <2>3, <2>4, <2>5, <2>6 DEF Creating
<1>6. SlotsOf(d, n) = {} /\ SlotsOf(e, n) = {s}
    BY <1>2, <1>5 DEF SlotsOf, Entries
<1>7. ASSUME NEW m \in Names \ {n} PROVE File(m)' = File(m)
    <2>1. FileOf(e, m)' = FileOf(d, m)
        BY <1>1, <1>2, <1>5, OtherSlots
    <2> QED BY <1>3, <2>1, FileSeen
<1>8. File(n) = NULL
    BY <1>3, <1>6, FileSeen DEF FileOf
<1>9. File(n)' # NULL
    <2>1. HeaderOf(e, n)' = header /\ FileOf(e, n)' = Contents(e, n)'
        BY <1>1, <1>5, <1>6, HeaderSeen
    <2>2. Contents(e, n)' = [p \in 1 .. header.numBytes |-> ByteAt(header, p - 1)]
        BY <1>1, <2>1 DEF Contents, ByteAt, ByteToSector
    <2>3. Contents(e, n)' # NULL
        BY <1>1, <2>2, BytesAreFile DEF BytesOf
    <2> QED BY <1>3, <2>1, <2>3, FileSeen
<1> QED BY <1>1, <1>7, <1>8, <1>9, CreatesFile

LEMMA EntryRemovesFile ==
    ASSUME FileInv, WriteBack, NEW s \in Slots, Removing(s), call.done \in 1 .. NumDirSectors,
           call.done = 1
    PROVE  \E n \in Names : Abstract!Remove(n)
<1>1. /\ UNCHANGED <<disk, data>> /\ FileTypes /\ call \in CallRecords
      /\ \/ call' # NULL /\ call'.done = 2 /\ call'.dir = call.dir
         \/ call' = NULL /\ dir' = call.dir
    BY EntryCleared DEF FileInv, FileTypes, WriteBack
<1>2. PICK d, e, used : d = dir /\ e = call.dir /\ used = call.map
    OBVIOUS
<1>3. Directory = d /\ Directory' = e
    <2>1. ~ (call.done > 1)
        OBVIOUS
    <2>2. Directory' = e
        BY <1>1, <1>2, Views
    <2> QED BY <1>2, <2>1, <2>2, Views
<1>4. PICK n \in Names, header \in Headers, sector \in Sectors :
          n = call.name /\ header = call.header /\ sector = call.sector
    BY <1>1 DEF CallRecords
<1>5. /\ Apart(used, s) /\ \A i \in Slots \ {s} : e[i] = d[i]
      /\ \A i \in Entries \ {s} : d[i].name # n
      /\ d[s].sector = sector /\ d[s].name = n /\ sector # NULL /\ e[s].sector = NULL
      /\ disk[sector] = [header |-> header]
    <2>1. ~ Behind(SectorAt(s))
        <3>1. SectorAt(s) \in Int /\ SectorAt(s) >= MapSector + 1 /\ MapSector \in Int
            BY SlotPlaces DEF MapSector
        <3> QED BY <3>1 DEF Behind
    <2>2. e[s] = [sector |-> NULL, name |-> n] /\ d[s] = [sector |-> sector, name |-> n]
          /\ disk[sector] = [header |-> header]
        BY <1>2, <1>4, <2>1 DEF Removing
    <2>3. sector # NULL
        BY FileSystemAssumption
    <2>4. Apart(call.map, s)
        BY DEF Removing
    <2>5. /\ \A i \in Slots \ {s} : e[i] = d[i]
          /\ \A i \in Entries \ {s} : d[i].name # n
        BY <1>2, <1>4, <2>4 DEF Apart
    <2> QED BY <1>2, <2>2, <2>3, <2>4, <2>5
<1>6. SlotsOf(d, n) = {s} /\ SlotsOf(e, n) = {}
    <2>1. \A i \in Slots \ {s} : d[i].sector # NULL => d[i].name # n
        BY <1>2, <1>5 DEF Entries
    <2> QED BY <1>5, <2>1 DEF SlotsOf
<1>7. ASSUME NEW m \in Names \ {n} PROVE File(m)' = File(m)
    <2>1. FileOf(e, m)' = FileOf(d, m)
        BY <1>1, <1>2, <1>5, OtherSlots
    <2> QED BY <1>3, <2>1, FileSeen
<1>8. File(n) # NULL
    <2>1. FileOf(d, n) = BytesOf(header)
        BY <1>5, <1>6, HeaderSeen
    <2> QED BY <1>1, <1>3, <2>1, FileSeen, BytesAreFile
<1>9. File(n)' = NULL
    <2>1. SlotsOf(e, n)' = {}
        BY <1>6 DEF SlotsOf, Slots
    <2> QED BY <1>3, <2>1, FileSeen DEF FileOf
<1> QED BY <1>1, <1>7, <1>8, <1>9, RemovesFile

LEMMA WritesBackFile ==
    ASSUME FileInv, WriteBack
    PROVE  [Abstract!Next]_(Abstract!vars)
<1>0. ASSUME UNCHANGED <<Directory, disk, data>> PROVE UNCHANGED Abstract!vars
    BY <1>0, NoFileChanged, StutterOfFiles
<1>1. PICK s \in Slots :
          \/ Creating(s) /\ call.done = 0
          \/ Creating(s) /\ call.done \in 1 .. NumDirSectors
          \/ Creating(s) /\ call.done = NumDirSectors + 1
          \/ Removing(s) /\ call.done = 0
          \/ Removing(s) /\ call.done \in 1 .. NumDirSectors
    BY WriteCases
<1>2. NumDirSectors \in Nat /\ NumDirSectors > 0 /\ call # NULL
    <2>1. NumDirSectors \in Nat /\ SectorAt(s) \in MapSector + 1 .. MapSector + NumDirSectors
        BY SlotPlaces
    <2> QED BY <2>1 DEF MapSector, WriteBack
<1>3. CASE Creating(s) /\ call.done = 0
    BY <1>3, HeaderChangesNoFile
<1>4. CASE Creating(s) /\ call.done \in 1 .. NumDirSectors
    <2>1. CASE call.done = 1
        BY <1>4, <2>1, EntryCreatesFile DEF Abstract!Next
    <2>2. CASE call.done # 1
        <3>1. /\ UNCHANGED <<disk, data>> /\ call' # NULL /\ call'.done = call.done + 1
              /\ call'.dir = call.dir
            BY <1>4, EntryWritten
        <3>2. call.done > 1 /\ call'.done > 1
            BY <1>2, <1>4, <2>2, <3>1
        <3>3. UNCHANGED <<Directory, disk, data>>
            BY <1>2, <3>1, <3>2, Views
        <3> QED BY <1>0, <3>3
    <2> QED BY <2>1, <2>2
<1>5. CASE Creating(s) /\ call.done = NumDirSectors + 1
    <2>1. call' = NULL /\ dir = call.dir /\ UNCHANGED <<dir, disk, data>>
        BY <1>5, CreateDone
    <2>2. call.done > 1
        BY <1>2, <1>5
    <2>3. UNCHANGED <<Directory, disk, data>>
        BY <1>2, <2>1, <2>2, Views
    <2> QED BY <1>0, <2>3
<1>6. CASE Removing(s) /\ call.done = 0
    <2>1. UNCHANGED <<dir, disk, data>> /\ call' # NULL /\ call'.done = 1
        BY <1>6, MapWritten
    <2>2. ~ (call.done > 1) /\ ~ (call'.done > 1)
        BY <1>6, <2>1
    <2>3. UNCHANGED <<Directory, disk, data>>
        BY <2>1, <2>2, Views
    <2> QED BY <1>0, <2>3
<1>7. CASE Removing(s) /\ call.done \in 1 .. NumDirSectors
    <2>1. CASE call.done = 1
        BY <1>7, <2>1, EntryRemovesFile DEF Abstract!Next
    <2>2. CASE call.done # 1
        <3>1. /\ UNCHANGED <<disk, data>>
              /\ \/ call' # NULL /\ call'.done = call.done + 1 /\ call'.dir = call.dir
                 \/ call' = NULL /\ dir' = call.dir
            BY <1>7, EntryCleared
        <3>2. call.done > 1 /\ call.done + 1 > 1
            BY <1>2, <1>7, <2>2
        <3>3. UNCHANGED <<Directory, disk, data>>
            BY <1>2, <3>1, <3>2, Views
        <3> QED BY <1>0, <3>3
    <2> QED BY <2>1, <2>2
<1> QED BY <1>1, <1>3, <1>4, <1>5, <1>6, <1>7

LEMMA FilesRefine ==
    ASSUME FileInv, [Next]_vars
    PROVE  [Abstract!Next]_(Abstract!vars)
<1>0. ASSUME UNCHANGED <<Directory, disk, data>> PROVE UNCHANGED Abstract!vars
    BY <1>0, NoFileChanged, StutterOfFiles
<1>1. CASE UNCHANGED vars
    <2>1. UNCHANGED <<Directory, disk, data>>
        BY <1>1 DEF vars, Directory
    <2> QED BY <1>0, <2>1
<1>2. ASSUME call = NULL, call' = NULL \/ call'.done = 0, UNCHANGED <<dir, disk, data>>
      PROVE  UNCHANGED Abstract!vars
    <2>1. call'.done = 0 => ~ (call'.done > 1)
        OBVIOUS
    <2>2. UNCHANGED <<Directory, disk, data>>
        BY <1>2, <2>1, Views
    <2> QED BY <1>0, <2>2
<1>3. ASSUME NEW n \in Names, Remove(n) PROVE UNCHANGED Abstract!vars
    <2>0. \/ call' = call
          \/ \E sector, header, entries, used, writes :
                call' = [name |-> n, sector |-> sector, header |-> header, dir |-> entries,
                         map |-> used, writes |-> writes, done |-> 0]
        BY <1>3, Zenon DEF Remove
    <2>1. call = NULL /\ UNCHANGED <<dir, disk, data>> /\ (call' = NULL \/ call'.done = 0)
        BY <1>3, <2>0 DEF Remove, Calls
    <2> QED BY <1>2, <2>1
<1>4. ASSUME NEW n \in Names, NEW size \in Sizes, Create(n, size) PROVE UNCHANGED Abstract!vars
    <2>0. \/ call' = call
          \/ \E sector, header, entries, used, writes :
                call' = [name |-> n, sector |-> sector, header |-> header, dir |-> entries,
                         map |-> used, writes |-> writes, done |-> 0]
        BY <1>4, Zenon DEF Create
    <2>1. call = NULL /\ UNCHANGED <<dir, disk, data>> /\ (call' = NULL \/ call'.done = 0)
        BY <1>4, <2>0 DEF Create, Calls
    <2> QED BY <1>2, <2>1
<1>5. ASSUME NEW h \in Handles, NEW n \in Names, Open(h, n) PROVE UNCHANGED Abstract!vars
    BY <1>2, <1>5 DEF Open, Calls
<1>6. ASSUME NEW h \in Handles, Close(h) PROVE UNCHANGED Abstract!vars
    BY <1>2, <1>6 DEF Close, Calls
<1>7. ASSUME NEW h \in Handles, NEW position \in 0 .. MaxTransfer, Seek(h, position)
      PROVE  UNCHANGED Abstract!vars
    BY <1>2, <1>7 DEF Seek, Calls
<1>8. ASSUME NEW h \in Handles, NEW k \in 1 .. MaxTransfer, Read(h, k)
      PROVE  [Abstract!Next]_(Abstract!vars)
    BY <1>8, ReadsFile
<1>9. ASSUME NEW h \in Handles, NEW k \in 1 .. MaxTransfer, NEW bytes \in [1 .. k -> Bytes],
             Write(h, bytes)
      PROVE  [Abstract!Next]_(Abstract!vars)
    BY <1>9, WritesFile
<1>10. ASSUME WriteBack PROVE [Abstract!Next]_(Abstract!vars)
    BY <1>10, WritesBackFile
<1> QED BY <1>1, <1>3, <1>4, <1>5, <1>6, <1>7, <1>8, <1>9, <1>10 DEF Next

(* The file system implements AtomicFiles: seen through the directory and   *)
(* the headers, Create and Remove are one step, that of the directory's     *)
(* first sector; Read returns the bytes of the file and of no other, Write  *)
(* changes those it covers, up to the end of the file, whatever sectors it  *)
(* reads, fills and writes whole.                                           *)
THEOREM FileSystemIsAtomicFiles == Spec => ImplementsAtomicFiles
<1>1. Init => Abstract!Init
    <2>1. ASSUME Init PROVE /\ [n \in Names |-> File(n)] = [n \in Names |-> NULL]
                           /\ data = <<>>
        <3>1. Directory = dir /\ \A i \in Slots : dir[i].sector = NULL
            <4>1. \A i \in Slots : dir[i] \in [sector : {NULL}, name : Names \cup {Garbage}]
                BY <2>1 DEF Init
            <4> QED BY <2>1, <4>1, Views DEF Init
        <3>2. \A n : File(n) = NULL
            BY <3>1 DEF File, FileOf, SlotsOf
        <3> QED BY <2>1, <3>2 DEF Init
    <2> QED BY <2>1, AbstractFiles
<1>2. FileInv /\ [Next]_vars => [Abstract!Next]_(Abstract!vars)
    BY FilesRefine
<1> QED BY <1>1, <1>2, FileInvariant, PTL DEF Spec, ImplementsAtomicFiles, Abstract!Spec
=============================================================================
