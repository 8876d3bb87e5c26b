------------------------- MODULE IsoEncoder_proofs -------------------------
(***************************************************************************)
(* The encoder keeps its types, stores every chunk in the group that was   *)
(* allotted to it, lays the container out without overlaps, leaves no byte *)
(* of the disc out and cuts entries that stay apart, for every disc and    *)
(* every size, and wherever it stops.                                      *)
(***************************************************************************)
EXTENDS IsoEncoderProps, HashGroup_proofs

Regions == RawEntries \cup PartEntries
Stored == [from : Nat, size : Nat, word : Nat, len : Nat]

(* The disc in hand is one of Isos, or what there is of it when the size of *)
(* a growing file is taken for that of the disc (RvzCli).                  *)
CutDiscs ==
  {d \in Discs : (d.wii => d.size >= DiscHeader) /\ \E e \in Isos : d.table = e.table}

(* The types of everything but of the disc, which is one of CutDiscs.      *)
Typed ==
  /\ iso \in CutDiscs /\ available \in 0 .. iso.size
  /\ pc \in {"begin", "detect", "next", "before", "setup", "fst", "head", "entries",
             "data0", "data1", "rest", "partTable", "rawTable", "groupTable",
             "header", "done", "failed", "panic"}
  /\ table \in Seq(Partitions)
  /\ part \in [key : Keys \cup {NoKey}, offset : Nat, dataOffset : Nat,
               start : Nat, end : Nat, split : Nat]
  /\ lastEnd \in Nat
  /\ region \in RawEntries \cup PartEntries /\ k \in Nat
  /\ groupIndex \in Nat
  /\ raws \in Seq(RawEntries) /\ parts \in Seq(PartEntries)
  /\ chunks \in Seq([from : Nat, size : Nat, word : Nat, len : Nat])
  /\ bytesDone \in Nat /\ reported \in Nat
  /\ pos \in Nat
  /\ tables \in Seq([what : {"part", "raw", "group"}, at : Nat, len : Nat])
  /\ header \in {"none", "zero", "full"}

(* A candidate is in hand while a partition is being set up or stored, and *)
(* the data of one that is set up is split in two.                         *)
CandidateInHand ==
  pc \in {"before", "setup", "fst", "head", "entries", "data0", "data1"} => table # <<>>
DataSplit ==
  pc \in {"fst", "head", "entries"} =>
    part.key \in Keys /\ part.start <= part.split /\ part.split <= part.end

(* Entries have the groups that their sizes need.                          *)
RawShape == \A n \in DOMAIN raws : raws[n].ng = CeilDiv(LogicalSize(raws[n]), Chunk)
PartShape == \A n \in DOMAIN parts : parts[n].ng = CeilDiv(parts[n].ns, ChunkBlocks)

(* The ledger of groups: all groups of an entry are stored, but for those  *)
(* of the open entries, which are the next ones, in order.                 *)
Settled(e) == e.gi + e.ng <= Len(chunks)
SettledBut(open) ==
  /\ \A n \in DOMAIN raws : raws[n] \in open \/ Settled(raws[n])
  /\ \A n \in DOMAIN parts : parts[n] \in open \/ Settled(parts[n])
InHand == k < region.ng /\ region.gi + k = Len(chunks)

Balanced == groupIndex = Len(chunks) /\ SettledBut({})
RawLedger ==
  /\ InHand /\ region \in RawEntries
  /\ region.gi + region.ng = groupIndex
  /\ SettledBut({region})
PartLedger ==
  /\ InHand /\ region \in PartEntries /\ parts # <<>>
  /\ region.ng = CeilDiv(region.ns, ChunkBlocks)
FirstLedger ==
  LET last == parts[Len(parts)]
  IN  /\ region.gi + region.ng = last.gi
      /\ last.gi + last.ng = groupIndex
      /\ SettledBut({region, last})
SecondLedger ==
  /\ region = parts[Len(parts)]
  /\ region.gi + region.ng = groupIndex
  /\ SettledBut({region})
Ledger ==
  /\ ~ StoringRaw /\ ~ StoringPart /\ pc \notin {"failed", "panic"} => Balanced
  /\ StoringRaw => RawLedger
  /\ StoringPart => PartLedger
  /\ pc = "data0" => FirstLedger
  /\ pc = "data1" => SecondLedger

IInv ==
  /\ Typed /\ CandidateInHand /\ DataSplit /\ RawShape /\ PartShape /\ Ledger
  /\ EntriesNameTheirChunks

-----------------------------------------------------------------------------
(* Sizes and entries.                                                      *)

LEMMA ConstantTypes ==
  /\ Block \in Nat \ {0} /\ ChunkBlocks \in Nat \ {0} /\ GroupBlocks \in Nat \ {0}
  /\ Chunk \in Nat \ {0}
  /\ DiscHeader \in Nat /\ OffsetRange \in Nat \ {0}
BY FormatAssumption, EncoderAssumption DEF Chunk

LEMMA AlignDownIsBlocks ==
  ASSUME NEW x \in Nat
  PROVE  AlignDown(x) = (x \div Block) * Block /\ AlignDown(x) \in Nat
         /\ x \div Block \in Nat /\ x % Block \in 0 .. Block - 1
<1> DEFINE q == x \div Block
           r == x % Block
<1>1. x = Block * q + r /\ r \in 0 .. Block - 1 /\ q \in Nat
  BY ConstantTypes, DivMod
<1>2. AlignDown(x) = x - r
  BY DEF AlignDown
<1> HIDE DEF q, r
<1>3. Block * q = q * Block /\ q * Block \in Nat
  BY <1>1, ConstantTypes
<1>4. x - r = q * Block
  BY <1>1, <1>3
<1>5. QED
  BY <1>1, <1>2, <1>3, <1>4 DEF q, r

LEMMA RawEntryTypes ==
  ASSUME NEW e \in RawEntries
  PROVE  /\ e.kind = "raw" /\ e.offset \in Nat /\ e.size \in Nat /\ e.gi \in Nat /\ e.ng \in Nat
         /\ LogicalSize(e) \in Nat /\ AlignDown(e.offset) \in Nat
<1>1. e.kind = "raw" /\ e.offset \in Nat /\ e.size \in Nat /\ e.gi \in Nat /\ e.ng \in Nat
  BY DEF RawEntries
<1>2. e.offset % Block \in 0 .. Block - 1 /\ AlignDown(e.offset) \in Nat
  BY <1>1, AlignDownIsBlocks
<1>3. QED
  BY <1>1, <1>2, ConstantTypes DEF LogicalSize

LEMMA PartEntryTypes ==
  ASSUME NEW e \in PartEntries
  PROVE  e.kind = "part" /\ e.fs \in Nat /\ e.ns \in Nat /\ e.gi \in Nat /\ e.ng \in Nat
BY DEF PartEntries

(* create_pde makes entries whose groups fit their blocks.                 *)
LEMMA EntryTypes ==
  ASSUME NEW key \in Keys, NEW offset \in Nat, NEW size \in Nat, NEW gi \in Nat
  PROVE  /\ Entry(key, offset, size, gi) \in PartEntries
         /\ Entry(key, offset, size, gi).gi = gi
         /\ Entry(key, offset, size, gi).ng = CeilDiv(Entry(key, offset, size, gi).ns, ChunkBlocks)
<1> DEFINE e == Entry(key, offset, size, gi)
           q == size \div Block
<1>1. AlignDown(size) = q * Block /\ q \in Nat /\ offset \div Block \in Nat
  BY AlignDownIsBlocks
<1>2. e = [kind |-> "part", key |-> key, fs |-> offset \div Block, ns |-> q,
           gi |-> gi, ng |-> CeilDiv(AlignDown(size), Chunk)]
  BY DEF Entry
<1> HIDE DEF q
<1>3. CeilDiv(AlignDown(size), Chunk) = CeilDiv(q, ChunkBlocks)
  <2>1. CeilDiv(q * Block, ChunkBlocks * Block) = CeilDiv(q, ChunkBlocks)
    BY <1>1, ConstantTypes, CeilDivScaled
  <2>2. QED
    BY <1>1, <2>1 DEF Chunk
<1>4. CeilDiv(q, ChunkBlocks) \in Nat
  BY <1>1, ConstantTypes, CeilDivBounds
<1> HIDE DEF e
<1>5. e \in PartEntries /\ e.gi = gi /\ e.ng = CeilDiv(e.ns, ChunkBlocks)
  BY <1>1, <1>2, <1>3, <1>4 DEF PartEntries
<1>6. QED
  BY <1>5 DEF e

(* The chunk in hand begins inside its entry and is the last one exactly   *)
(* when it reaches the end.                                                *)
LEMMA LastChunk ==
  ASSUME NEW n \in Nat, NEW c \in Nat, c < CeilDiv(n, ChunkBlocks)
  PROVE  /\ c * ChunkBlocks < n
         /\ Expected(n, c, ChunkBlocks) \in Nat
         /\ c * ChunkBlocks + Expected(n, c, ChunkBlocks) < n <=> c + 1 < CeilDiv(n, ChunkBlocks)
<1> DEFINE x == c * ChunkBlocks
<1>1. x \in Nat /\ x < n
  BY ConstantTypes, CeilDivUnit
<1>2. Expected(n, c, ChunkBlocks) = Lesser(ChunkBlocks, n - x)
  BY <1>1, ConstantTypes DEF Expected
<1>3. c + 1 < CeilDiv(n, ChunkBlocks) <=> x + ChunkBlocks < n
  <2>1. (c + 1) * ChunkBlocks = x + ChunkBlocks
    BY ConstantTypes
  <2>2. QED
    BY <2>1, ConstantTypes, CeilDivUnit
<1> HIDE DEF x
<1>4. Lesser(ChunkBlocks, n - x) \in Nat /\ (x + Lesser(ChunkBlocks, n - x) < n <=> x + ChunkBlocks < n)
  BY <1>1, ConstantTypes DEF Lesser
<1>5. QED
  BY <1>1, <1>2, <1>3, <1>4 DEF x
-----------------------------------------------------------------------------
(* The ledger in the steps that leave it alone.                            *)

Idle(p) ==
  p \in {"begin", "detect", "next", "setup", "fst", "entries", "partTable", "rawTable",
         "groupTable", "header", "done"}

LEMMA IdleLedger ==
  ASSUME Idle(pc), Balanced
  PROVE  Ledger
BY DEF Idle, Ledger, StoringRaw, StoringPart

LEMMA LedgerIdle ==
  ASSUME Idle(pc), Ledger
  PROVE  Balanced
BY DEF Idle, Ledger, StoringRaw, StoringPart

LEMMA BooksUntouched ==
  ASSUME RawShape, PartShape, Ledger, EntriesNameTheirChunks,
         UNCHANGED <<raws, parts, chunks, groupIndex, region, k>>,
         pc' = pc \/ pc' \in {"failed", "panic"} \/ (Idle(pc) /\ Idle(pc'))
  PROVE  RawShape' /\ PartShape' /\ Ledger' /\ EntriesNameTheirChunks'
<1>1. RawShape' /\ PartShape' /\ EntriesNameTheirChunks'
  BY DEF RawShape, PartShape, EntriesNameTheirChunks, RawNamed, PartNamed, HasChunk, ChunkOf
<1>2. CASE pc' = pc
  BY <1>1, <1>2 DEF Ledger, StoringRaw, StoringPart, Balanced, SettledBut, Settled, RawLedger,
     PartLedger, FirstLedger, SecondLedger, InHand
<1>3. CASE pc' \in {"failed", "panic"}
  BY <1>1, <1>3 DEF Ledger, StoringRaw, StoringPart
<1>4. CASE Idle(pc) /\ Idle(pc')
  <2>1. Balanced
    BY <1>4, LedgerIdle
  <2>2. Balanced'
    BY <2>1 DEF Balanced, SettledBut, Settled
  <2>3. QED
    BY <1>1, <1>4, <2>2 DEF Idle, Ledger, StoringRaw, StoringPart
<1>5. QED
  BY <1>1, <1>2, <1>3, <1>4

(* An encoder that has not begun, of which the disc may be there already.  *)
Fresh ==
  /\ iso \in CutDiscs /\ available \in 0 .. iso.size
  /\ pc = "begin"
  /\ table = <<>> /\ part = NoPartition /\ lastEnd = 0
  /\ groupIndex = 0 /\ raws = <<>> /\ parts = <<>>
  /\ region = NoRegion /\ k = 0
  /\ chunks = <<>> /\ bytesDone = 0 /\ reported = 0
  /\ pos = HeaderArea /\ tables = <<>> /\ header = "none"

LEMMA DiscsAreCut ==
  ASSUME NEW d \in Isos
  PROVE  d \in CutDiscs /\ d.size \in Nat
BY EncoderAssumption DEF CutDiscs, Discs

LEMMA InitIsFresh ==
  ASSUME Init
  PROVE  Fresh
<1>1. iso \in CutDiscs /\ 0 \in 0 .. iso.size
  BY DiscsAreCut DEF Init
<1>2. QED
  BY <1>1 DEF Init, Fresh

LEMMA FreshIInv ==
  ASSUME Fresh
  PROVE  IInv
<1>1. NoRegion \in RawEntries
  BY DEF NoRegion, RawEntries
<1>2. Typed
  BY <1>1, EncoderAssumption DEF Fresh, Typed, NoPartition
<1>3. RawShape /\ PartShape /\ EntriesNameTheirChunks /\ Balanced
  BY DEF Fresh, RawShape, PartShape, EntriesNameTheirChunks, Balanced, SettledBut
<1>4. Ledger
  BY <1>3, IdleLedger DEF Fresh, Idle
<1>5. QED
  BY <1>2, <1>3, <1>4 DEF IInv, Fresh, CandidateInHand, DataSplit

LEMMA StutterKeepsIInv ==
  ASSUME IInv, UNCHANGED vars
  PROVE  IInv'
<1>1. Typed' /\ CandidateInHand' /\ DataSplit'
  BY DEF IInv, Typed, CandidateInHand, DataSplit, vars, plan, allotted, cursor, stored, container
<1>2. RawShape' /\ PartShape' /\ Ledger' /\ EntriesNameTheirChunks'
  BY BooksUntouched DEF IInv, vars, plan, allotted, cursor, stored, container
<1>3. QED
  BY <1>1, <1>2 DEF IInv

LEMMA GrowKeepsIInv ==
  ASSUME IInv, Grow
  PROVE  IInv'
<1>1. iso.size \in Nat
  BY DEF IInv, Typed, CutDiscs, Discs
<1>2. available' \in 0 .. iso.size
  BY <1>1, ConstantTypes DEF IInv, Typed, Grow, Lesser
<1>3. Typed' /\ CandidateInHand' /\ DataSplit'
  BY <1>2 DEF IInv, Grow, Typed, CandidateInHand, DataSplit, vars, plan, allotted, cursor,
     stored, container
<1>4. RawShape' /\ PartShape' /\ Ledger' /\ EntriesNameTheirChunks'
  BY BooksUntouched DEF IInv, Grow, plan, allotted, cursor, stored, container
<1>5. QED
  BY <1>3, <1>4 DEF IInv

LEMMA FailKeepsIInv ==
  ASSUME IInv, Fail
  PROVE  IInv'
<1>1. Typed' /\ CandidateInHand' /\ DataSplit'
  BY DEF IInv, Fail, Typed, CandidateInHand, DataSplit, plan, allotted, cursor, stored, container
<1>2. RawShape' /\ PartShape' /\ Ledger' /\ EntriesNameTheirChunks'
  BY BooksUntouched DEF IInv, Fail, plan, allotted, cursor, stored, container
<1>3. QED
  BY <1>1, <1>2 DEF IInv

(* What is written after the last chunk: the tables and the header.        *)
LEMMA WriteTableTypes ==
  ASSUME NEW what \in {"part", "raw", "group"}, NEW len \in Nat,
         tables \in Seq([what : {"part", "raw", "group"}, at : Nat, len : Nat]), pos \in Nat,
         WriteTable(what, len)
  PROVE  tables' \in Seq([what : {"part", "raw", "group"}, at : Nat, len : Nat])
BY DEF WriteTable

LEMMA PaddedTypes ==
  ASSUME NEW n \in Nat
  PROVE  Padded(n) \in Nat /\ Padded(n) >= n /\ Padded(n) % 4 = 0
BY DEF Padded

LEMMA TablesKeepIInv ==
  ASSUME IInv, WritePartTable \/ WriteRawTable \/ WriteGroupTable \/ WriteHeader
  PROVE  IInv'
<1>1. /\ pos \in Nat /\ Len(parts) \in Nat
      /\ tables \in Seq([what : {"part", "raw", "group"}, at : Nat, len : Nat])
      /\ TableSizes \subseteq Nat
  BY EncoderAssumption, LenProperties DEF IInv, Typed
<1>2. /\ pos' \in Nat
      /\ tables' \in Seq([what : {"part", "raw", "group"}, at : Nat, len : Nat])
      /\ header' \in {"none", "zero", "full"}
      /\ pc \in {"partTable", "rawTable", "groupTable", "header"}
      /\ pc' \in {"rawTable", "groupTable", "header", "done"}
      /\ UNCHANGED <<iso, available, plan, allotted, cursor, stored>>
  <2>1. CASE WritePartTable
    <3>1. CASE parts # <<>>
      <4>1. pos' = Padded(pos + Len(parts)) /\ WriteTable("part", Len(parts))
        BY <2>1, <3>1 DEF WritePartTable
      <4>2. pos' \in Nat
        <5>1. PICK n \in Nat : n = pos + Len(parts)
          BY <1>1
        <5>. QED
          BY <4>1, <5>1, PaddedTypes
      <4>3. tables' \in Seq([what : {"part", "raw", "group"}, at : Nat, len : Nat])
        BY <1>1, <4>1, WriteTableTypes
      <4>4. /\ header' \in {"none", "zero", "full"} /\ pc = "partTable" /\ pc' = "rawTable"
            /\ UNCHANGED <<iso, available, plan, allotted, cursor, stored>>
        BY <2>1, <4>1 DEF WritePartTable, WriteTable, IInv, Typed
      <4>. QED
        BY <4>2, <4>3, <4>4
    <3>2. CASE parts = <<>>
      BY <1>1, <2>1, <3>2 DEF WritePartTable, container, IInv, Typed
    <3>3. QED
      BY <3>1, <3>2
  <2>2. CASE WriteRawTable
    <3>1. PICK len \in TableSizes : WriteTable("raw", len) /\ pos' = Padded(pos + len)
      BY <2>2 DEF WriteRawTable
    <3>2. pos' \in Nat
      BY <1>1, <3>1, PaddedTypes
    <3>3. tables' \in Seq([what : {"part", "raw", "group"}, at : Nat, len : Nat])
      BY <1>1, <3>1, WriteTableTypes
    <3>4. /\ header' \in {"none", "zero", "full"} /\ pc = "rawTable" /\ pc' = "groupTable"
          /\ UNCHANGED <<iso, available, plan, allotted, cursor, stored>>
      BY <2>2, <3>1 DEF WriteRawTable, WriteTable, IInv, Typed
    <3>. QED
      BY <3>2, <3>3, <3>4
  <2>3. CASE WriteGroupTable
    <3>1. PICK len \in TableSizes : WriteTable("group", len) /\ pos' = pos + len
      BY <2>3 DEF WriteGroupTable
    <3>2. QED
      BY <1>1, <2>3, <3>1, WriteTableTypes
         DEF WriteGroupTable, WriteTable, IInv, Typed
  <2>4. CASE WriteHeader
    BY <1>1, <2>4 DEF WriteHeader
  <2>5. QED
    BY <2>1, <2>2, <2>3, <2>4
<1>3. Typed' /\ CandidateInHand' /\ DataSplit'
  BY <1>2 DEF IInv, Typed, CandidateInHand, DataSplit, plan, allotted, cursor, stored
<1>4. RawShape' /\ PartShape' /\ Ledger' /\ EntriesNameTheirChunks'
  <2>1. Idle(pc) /\ Idle(pc')
    BY <1>2 DEF Idle
  <2>2. QED
    BY <1>2, <2>1, BooksUntouched DEF IInv, allotted, cursor, stored
<1>5. QED
  BY <1>3, <1>4 DEF IInv
-----------------------------------------------------------------------------
(* The walk over the candidates.                                           *)

LEMMA DiscTypes ==
  ASSUME Typed
  PROVE  iso.size \in Nat /\ iso.table \in Seq(Partitions)
BY DEF Typed, CutDiscs, Discs

(* The candidates of a walk are those of the tables within the disc.       *)
LEMMA WalksTake ==
  ASSUME Typed, NEW lost, NEW t \in Walks(lost), NEW S,
         \A n \in DOMAIN iso.table :
           iso.table[n].offset < iso.size => iso.table[n] \in S
  PROVE  t \in Seq(S)
<1> DEFINE kept == {n \in DOMAIN iso.table : iso.table[n].offset < iso.size
                                              /\ iso.table[n].grp \notin lost}
           c == Cardinality(kept)
<1>1. iso.table \in Seq(Partitions) /\ DOMAIN iso.table = 1 .. Len(iso.table)
      /\ Len(iso.table) \in Nat
  BY DiscTypes, LenProperties
<1>2. IsFiniteSet(kept)
  <2>1. IsFiniteSet(1 .. Len(iso.table)) /\ kept \in SUBSET (1 .. Len(iso.table))
    BY <1>1, FS_Interval
  <2>2. QED
    BY <2>1, FS_Subset
<1>3. c \in Nat
  BY <1>2, FS_CardinalityType
<1>4. PICK p \in [1 .. c -> kept] : t = [n \in DOMAIN p |-> iso.table[p[n]]]
  BY DEF Walks
<1>5. \A n \in kept : iso.table[n] \in S
  OBVIOUS
<1> HIDE DEF kept, c
<1>6. t \in [1 .. c -> S]
  BY <1>4, <1>5
<1>7. QED
  BY <1>3, <1>6

LEMMA WalksTypes ==
  ASSUME Typed, NEW lost, NEW t \in Walks(lost)
  PROVE  t \in Seq(Partitions)
<1>1. \A n \in DOMAIN iso.table : iso.table[n] \in Partitions
  BY DiscTypes, ElementOfSeq
<1>2. QED
  BY <1>1, WalksTake

LEMMA HeadTypes ==
  ASSUME Typed, table # <<>>
  PROVE  /\ Tail(table) \in Seq(Partitions)
         /\ Head(table) \in Partitions
         /\ Head(table).offset \in Nat /\ Head(table).dataOffset \in Nat
         /\ Head(table).dataSize \in Nat /\ Head(table).fst \in Nat
         /\ Head(table).key \in Keys
<1>1. Tail(table) \in Seq(Partitions) /\ Head(table) \in Partitions
  BY HeadTailProperties DEF Typed
<1>2. QED
  BY <1>1 DEF Partitions

LEMMA BeginKeepsIInv ==
  ASSUME IInv, Begin \/ Detect \/ SkipCandidate
  PROVE  IInv'
<1>1. /\ table' \in Seq(Partitions)
      /\ header' \in {"none", "zero", "full"}
      /\ Idle(pc) /\ pc' \in {"detect", "next"}
      /\ UNCHANGED <<iso, available, part, lastEnd, allotted, cursor, stored, pos, tables>>
  <2>1. CASE Begin
    BY <2>1 DEF Begin, IInv, Typed, Idle, plan
  <2>2. CASE Detect
    <3>1. table' \in Seq(Partitions)
      <4>1. CASE table' = <<>>
        BY <4>1
      <4>2. CASE table' # <<>>
        <5>1. PICK lost \in SUBSET {iso.table[n].grp : n \in DOMAIN iso.table} :
                table' \in Walks(lost)
          BY <2>2, <4>2 DEF Detect
        <5>2. Typed
          BY DEF IInv
        <5>3. QED
          BY <5>1, <5>2, WalksTypes
      <4>3. QED
        BY <4>1, <4>2
    <3>2. QED
      BY <2>2, <3>1 DEF Detect, IInv, Typed, Idle, container
  <2>3. CASE SkipCandidate
    BY <2>3, HeadTypes DEF SkipCandidate, IInv, Typed, Idle, container
  <2>4. QED
    BY <2>1, <2>2, <2>3
<1>2. Typed' /\ CandidateInHand' /\ DataSplit'
  BY <1>1 DEF IInv, Typed, CandidateInHand, DataSplit, allotted, cursor, stored
<1>3. RawShape' /\ PartShape' /\ Ledger' /\ EntriesNameTheirChunks'
  BY <1>1, BooksUntouched DEF IInv, Idle, allotted, cursor, stored
<1>4. QED
  BY <1>2, <1>3 DEF IInv

LEMMA SetUpKeepsIInv ==
  ASSUME IInv, SetUp
  PROVE  IInv'
<1> DEFINE c == Head(table)
           start == c.offset + c.dataOffset
<1>1. table # <<>> /\ Typed /\ Idle(pc)
  BY DEF IInv, SetUp, CandidateInHand, Idle
<1>2. /\ Tail(table) \in Seq(Partitions) /\ table \in Seq(Partitions)
      /\ c.offset \in Nat /\ c.dataOffset \in Nat /\ c.dataSize \in Nat /\ c.key \in Keys
      /\ start \in Nat /\ iso.size \in Nat
  <2>1. table \in Seq(Partitions)
    BY DEF IInv, Typed
  <2>2. QED
    BY <1>1, <2>1, HeadTypes, DiscTypes
<1>3. /\ pc' \in {"next", "panic", "fst"} /\ table' \in Seq(Partitions)
      /\ part' \in [key : Keys \cup {NoKey}, offset : Nat, dataOffset : Nat,
                    start : Nat, end : Nat, split : Nat]
      /\ pc' = "fst" => /\ table' # <<>> /\ part'.key \in Keys
                        /\ part'.start <= part'.split /\ part'.split <= part'.end
  <2>1. CASE Rejected(c)
    BY <1>1, <1>2, <2>1 DEF SetUp, Typed
  <2>2. CASE Overruns(c)
    BY <1>1, <1>2, <2>2 DEF SetUp, Typed, Overruns
  <2>3. CASE ~ Rejected(c) /\ ~ Overruns(c)
    <3>1. start <= iso.size
      BY <1>2, <2>3 DEF Overruns
    <3>2. /\ Lesser(start + c.dataSize, iso.size) \in Nat
          /\ start <= Lesser(start + c.dataSize, iso.size)
      <4> HIDE DEF start, c
      <4>1. QED
        BY <1>2, <3>1 DEF Lesser
    <3>3. c.dataOffset % OffsetRange \in Nat
      BY <1>2, ConstantTypes
    <3>4. /\ pc' = "fst" /\ table' = table
          /\ part' = [key |-> c.key, offset |-> c.offset,
                      dataOffset |-> c.dataOffset % OffsetRange, start |-> start,
                      end |-> Lesser(start + c.dataSize, iso.size), split |-> start]
      BY <2>3 DEF SetUp
    <3> HIDE DEF start, c
    <3>5. QED
      BY <1>1, <1>2, <3>2, <3>3, <3>4
  <2>4. QED
    BY <2>1, <2>2, <2>3
<1>4. lastEnd' \in Nat /\ UNCHANGED <<iso, available, allotted, cursor, stored, container>>
  BY <1>2 DEF SetUp
<1> HIDE DEF c, start
<1>5. Typed' /\ CandidateInHand' /\ DataSplit'
  BY <1>3, <1>4 DEF IInv, Typed, CandidateInHand, DataSplit, allotted, cursor, stored, container
<1>6. RawShape' /\ PartShape' /\ Ledger' /\ EntriesNameTheirChunks'
  BY <1>1, <1>3, <1>4, BooksUntouched DEF IInv, Idle, allotted, cursor, stored
<1>7. QED
  BY <1>5, <1>6 DEF IInv
-----------------------------------------------------------------------------
(* Allotting groups.                                                       *)

LEMMA AppendElements ==
  ASSUME NEW S, NEW s \in Seq(S), NEW e \in S
  PROVE  /\ Append(s, e) \in Seq(S)
         /\ Len(Append(s, e)) = Len(s) + 1
         /\ \A n \in DOMAIN Append(s, e) :
              \/ n \in DOMAIN s /\ Append(s, e)[n] = s[n]
              \/ n = Len(s) + 1 /\ Append(s, e)[n] = e
         /\ \A n \in DOMAIN s : Append(s, e)[n] = s[n]
<1>1. Append(s, e) \in Seq(S) /\ Len(Append(s, e)) = Len(s) + 1
  BY AppendProperties
<1>2. DOMAIN Append(s, e) = 1 .. Len(s) + 1 /\ DOMAIN s = 1 .. Len(s) /\ Len(s) \in Nat
  BY <1>1, LenProperties
<1>3. QED
  BY <1>1, <1>2, AppendProperties

(* A raw region without bytes leaves everything alone; one with bytes gets *)
(* the next groups and becomes the region in hand.                         *)
LEMMA BeginRawKeepsBooks ==
  ASSUME IInv, Idle(pc), NEW offset \in Nat, NEW size \in Nat,
         NEW during \in {"before", "head", "rest"}, NEW after, Idle(after),
         BeginRaw(offset, size, during, after), UNCHANGED <<parts, chunks>>
  PROVE  /\ raws' \in Seq(RawEntries) /\ groupIndex' \in Nat
         /\ region' \in Regions /\ k' \in Nat
         /\ pc' \in {during, after}
         /\ RawShape' /\ PartShape' /\ Ledger' /\ EntriesNameTheirChunks'
<1> DEFINE skip == IF offset < DiscHeader THEN Lesser(DiscHeader - offset, size) ELSE 0
           ng == RawChunks(offset + skip, size - skip)
           e == [kind |-> "raw", key |-> NoKey, offset |-> offset + skip,
                 size |-> size - skip, gi |-> groupIndex, ng |-> ng]
<1>1. Balanced /\ groupIndex = Len(chunks)
  BY LedgerIdle DEF IInv, Balanced
<1>2. /\ raws \in Seq(RawEntries) /\ groupIndex \in Nat /\ region \in Regions /\ k \in Nat
      /\ Len(chunks) \in Nat
  BY LenProperties DEF IInv, Typed, Regions
<1>3. skip \in Nat /\ size - skip \in Nat
  BY ConstantTypes DEF Lesser
<1>4. CASE size = skip
  <2>1. pc' = after /\ UNCHANGED <<raws, groupIndex, region, k>>
    BY <1>4 DEF BeginRaw
  <2>2. RawShape' /\ PartShape' /\ Ledger' /\ EntriesNameTheirChunks'
    BY <2>1, BooksUntouched DEF IInv
  <2>3. QED
    BY <1>2, <2>1, <2>2
<1>5. CASE size # skip
  <2>1. /\ pc' = during /\ raws' = Append(raws, e) /\ groupIndex' = groupIndex + ng
        /\ region' = e /\ k' = 0
    BY <1>5 DEF BeginRaw
  <2> DEFINE from == offset + skip
             rest == size - skip
  <2>2. from \in Nat /\ rest \in Nat \ {0} /\ from % Block \in Nat
    BY <1>3, <1>5, ConstantTypes
  <2> HIDE DEF skip
  <2>3. /\ ng = CeilDiv(rest + (from % Block), Chunk)
        /\ e = [kind |-> "raw", key |-> NoKey, offset |-> from, size |-> rest,
                gi |-> groupIndex, ng |-> ng]
    BY DEF RawChunks
  <2> HIDE DEF from, rest, ng, e
  <2>4. ng \in Nat /\ 0 < ng
    <3> DEFINE n == rest + (from % Block)
    <3>1. n \in Nat /\ 0 * Chunk < n
      BY <2>2, ConstantTypes
    <3> HIDE DEF n
    <3>2. CeilDiv(n, Chunk) \in Nat /\ 0 < CeilDiv(n, Chunk)
      BY <3>1, ConstantTypes, CeilDivBounds, CeilDivUnit
    <3>3. QED
      BY <2>3, <3>2 DEF n
  <2>5. /\ e \in RawEntries /\ e.gi = groupIndex /\ e.ng = ng
        /\ e.ng = CeilDiv(LogicalSize(e), Chunk)
    BY <1>2, <2>2, <2>3, <2>4 DEF RawEntries, LogicalSize
  <2>6. /\ raws' \in Seq(RawEntries)
        /\ \A n \in DOMAIN raws' : (n \in DOMAIN raws /\ raws'[n] = raws[n]) \/ raws'[n] = e
    BY <1>2, <2>1, <2>5, AppendElements
  <2>7. RawShape' /\ PartShape'
    BY <2>5, <2>6 DEF IInv, RawShape, PartShape
  <2>8. EntriesNameTheirChunks'
    <3>1. \A x : RawNamed(x) => RawNamed(x)'
      BY DEF RawNamed, HasChunk, ChunkOf
    <3>2. \A x : PartNamed(x) => PartNamed(x)'
      BY DEF PartNamed, HasChunk, ChunkOf
    <3>3. RawNamed(region)'
      <4>1. \A c \in 0 .. region'.ng - 1 : ~ (region'.gi + c < Len(chunks'))
        BY <1>1, <1>2, <2>1, <2>4, <2>5
      <4>2. QED
        BY <4>1 DEF RawNamed, HasChunk
    <3>4. QED
      BY <2>1, <2>6, <3>1, <3>2, <3>3 DEF IInv, EntriesNameTheirChunks
  <2>9. Ledger'
    <3>1. StoringRaw' /\ ~ StoringPart' /\ pc' \notin {"data0", "data1"}
      BY <2>1 DEF StoringRaw, StoringPart
    <3>2. InHand' /\ (region.gi + region.ng = groupIndex)'
      BY <1>1, <1>2, <2>1, <2>4, <2>5 DEF InHand
    <3>3. SettledBut({region})'
      BY <1>1, <2>1, <2>6 DEF Balanced, SettledBut, Settled
    <3>4. RawLedger'
      BY <2>1, <2>5, <3>2, <3>3 DEF RawLedger
    <3>5. QED
      BY <3>1, <3>4 DEF Ledger
  <2>10. QED
    BY <1>2, <2>1, <2>4, <2>5, <2>6, <2>7, <2>8, <2>9 DEF Regions
<1>6. QED
  BY <1>4, <1>5

LEMMA ReachKeepsIInv ==
  ASSUME IInv, ReachCandidate \/ ReachEnd
  PROVE  IInv'
<1>1. iso.size \in Nat /\ lastEnd \in Nat /\ Idle(pc)
  BY DiscTypes DEF IInv, Typed, ReachCandidate, ReachEnd, Idle
<1>2. /\ raws' \in Seq(RawEntries) /\ groupIndex' \in Nat
      /\ region' \in Regions /\ k' \in Nat
      /\ pc' \in {"before", "setup", "rest", "partTable"}
      /\ pc' \in {"before", "setup"} => table # <<>>
      /\ RawShape' /\ PartShape' /\ Ledger' /\ EntriesNameTheirChunks'
  <2>1. CASE ReachCandidate
    <3>1. Head(table).offset \in Nat
      BY <2>1, HeadTypes DEF IInv, ReachCandidate
    <3>2. Head(table).offset - lastEnd \in Nat
      BY <1>1, <2>1, <3>1 DEF ReachCandidate
    <3>3. /\ BeginRaw(lastEnd, Head(table).offset - lastEnd, "before", "setup")
          /\ UNCHANGED <<parts, chunks>> /\ Idle("setup")
      BY <2>1 DEF ReachCandidate, stored, Idle
    <3>4. QED
      BY <1>1, <2>1, <3>2, <3>3, BeginRawKeepsBooks DEF ReachCandidate
  <2>2. CASE ReachEnd
    <3>1. iso.size - Lesser(lastEnd, iso.size) \in Nat
      BY <1>1 DEF Lesser
    <3>2. /\ BeginRaw(lastEnd, iso.size - Lesser(lastEnd, iso.size), "rest", "partTable")
          /\ UNCHANGED <<parts, chunks>> /\ Idle("partTable")
      BY <2>2 DEF ReachEnd, stored, Idle
    <3>3. QED
      BY <1>1, <3>1, <3>2, BeginRawKeepsBooks
  <2>3. QED
    BY <2>1, <2>2
<1>3. UNCHANGED <<iso, available, plan, parts, stored, container>>
  BY DEF ReachCandidate, ReachEnd
<1>4. Typed' /\ CandidateInHand' /\ DataSplit'
  BY <1>2, <1>3 DEF IInv, Typed, CandidateInHand, DataSplit, Regions, plan, stored, container
<1>5. QED
  BY <1>2, <1>4 DEF IInv

LEMMA SplitAtInside ==
  ASSUME NEW p, p.start \in Nat, p.end \in Nat, p.start <= p.end, NEW fst \in Nat
  PROVE  SplitAt(p, fst) \in Nat /\ p.start <= SplitAt(p, fst) /\ SplitAt(p, fst) <= p.end
<1> DEFINE gb == GroupBlocks * Block
           m == CeilDiv(fst, gb)
           d == m * gb
<1>1. gb \in Nat \ {0}
  BY ConstantTypes
<1>2. m \in Nat
  <2> HIDE DEF gb
  <2>1. QED
    BY <1>1, CeilDivBounds
<1>3. d \in Nat /\ CeilDiv(fst, GroupBlocks * Block) * GroupBlocks * Block = d
  BY <1>1, <1>2, ConstantTypes
<1> HIDE DEF d, m, gb
<1>4. QED
  BY <1>3 DEF SplitAt, Lesser

LEMMA ReadFstKeepsIInv ==
  ASSUME IInv, ReadFst
  PROVE  IInv'
<1> DEFINE Parts == [key : Keys \cup {NoKey}, offset : Nat, dataOffset : Nat,
                     start : Nat, end : Nat, split : Nat]
<1>1. /\ part \in Parts /\ part.key \in Keys /\ part.start <= part.end
      /\ table # <<>> /\ Idle(pc) /\ Typed
  BY DEF IInv, Typed, DataSplit, CandidateInHand, ReadFst, Idle
<1>2. PICK fst \in Nat : part' = [part EXCEPT !.split = SplitAt(part, fst)]
  BY <1>1, HeadTypes DEF ReadFst
<1>3. /\ part.start \in Nat /\ part.end \in Nat /\ part.offset \in Nat /\ part.dataOffset \in Nat
  BY <1>1
<1>4. /\ SplitAt(part, fst) \in Nat /\ part.start <= SplitAt(part, fst)
      /\ SplitAt(part, fst) <= part.end
  BY <1>1, <1>3, SplitAtInside
<1>5. /\ part' \in Parts /\ part'.key \in Keys
      /\ part'.start <= part'.split /\ part'.split <= part'.end
  BY <1>1, <1>2, <1>4
<1>6. /\ raws' \in Seq(RawEntries) /\ groupIndex' \in Nat
      /\ region' \in Regions /\ k' \in Nat
      /\ pc' \in {"head", "entries"}
      /\ RawShape' /\ PartShape' /\ Ledger' /\ EntriesNameTheirChunks'
  <2>1. /\ BeginRaw(part.offset, part.dataOffset, "head", "entries")
        /\ UNCHANGED <<parts, chunks>> /\ Idle("entries")
    BY DEF ReadFst, stored, Idle
  <2>2. QED
    BY <1>1, <1>3, <2>1, BeginRawKeepsBooks
<1>7. UNCHANGED <<iso, available, table, lastEnd, parts, stored, container>>
  BY DEF ReadFst
<1>8. Typed' /\ CandidateInHand' /\ DataSplit'
  BY <1>1, <1>5, <1>6, <1>7 DEF Typed, CandidateInHand, DataSplit, Regions, stored, container
<1>9. QED
  BY <1>6, <1>8 DEF IInv
LEMMA PairAppended ==
  ASSUME NEW S, NEW s \in Seq(S), NEW a \in S, NEW b \in S
  PROVE  /\ s \o <<a, b>> \in Seq(S) /\ s \o <<a, b>> # <<>>
         /\ (s \o <<a, b>>)[Len(s \o <<a, b>>)] = b
         /\ \A n \in DOMAIN (s \o <<a, b>>) :
              \/ n \in DOMAIN s /\ (s \o <<a, b>>)[n] = s[n]
              \/ (s \o <<a, b>>)[n] \in {a, b}
<1> DEFINE p == <<a, b>>
           t == s \o p
<1>1. p \in Seq(S) /\ Len(p) = 2 /\ p[1] = a /\ p[2] = b
  OBVIOUS
<1> HIDE DEF p
<1>2. /\ t \in Seq(S) /\ Len(t) = Len(s) + 2
      /\ \A n \in 1 .. Len(s) + 2 : t[n] = IF n <= Len(s) THEN s[n] ELSE p[n - Len(s)]
  <2>1. /\ s \o p \in Seq(S) /\ Len(s \o p) = Len(s) + Len(p)
        /\ \A n \in 1 .. Len(s) + Len(p) :
             (s \o p)[n] = IF n <= Len(s) THEN s[n] ELSE p[n - Len(s)]
    BY <1>1, ConcatProperties
  <2>2. QED
    BY <1>1, <2>1
<1>3. DOMAIN t = 1 .. Len(s) + 2 /\ DOMAIN s = 1 .. Len(s) /\ Len(s) \in Nat
  BY <1>2, LenProperties
<1>4. t[Len(t)] = b /\ t # <<>>
  BY <1>1, <1>2, <1>3
<1>5. ASSUME NEW n \in DOMAIN t
      PROVE  (n \in DOMAIN s /\ t[n] = s[n]) \/ t[n] \in {a, b}
  <2>1. CASE n <= Len(s)
    BY <1>2, <1>3, <2>1
  <2>2. CASE n = Len(s) + 1
    BY <1>1, <1>2, <1>3, <2>2
  <2>3. CASE n = Len(s) + 2
    BY <1>1, <1>2, <1>3, <2>3
  <2>4. QED
    BY <1>3, <2>1, <2>2, <2>3
<1>6. QED
  BY <1>2, <1>4, <1>5 DEF p

LEMMA CeilDivZero ==
  ASSUME NEW n \in Nat
  PROVE  CeilDiv(n, ChunkBlocks) \in Nat /\ (0 < CeilDiv(n, ChunkBlocks) <=> 0 < n)
<1>1. CeilDiv(n, ChunkBlocks) \in Nat /\ (0 < CeilDiv(n, ChunkBlocks) <=> 0 * ChunkBlocks < n)
  BY ConstantTypes, CeilDivBounds, CeilDivUnit
<1>2. QED
  BY <1>1, ConstantTypes

(* Both data entries are allotted in a row before the first is stored.     *)
LEMMA CreateEntriesKeepsIInv ==
  ASSUME IInv, CreateEntries
  PROVE  IInv'
<1>1. /\ part.key \in Keys /\ part.start \in Nat /\ part.split \in Nat /\ part.end \in Nat
      /\ part.start <= part.split /\ part.split <= part.end
      /\ table # <<>> /\ Idle(pc) /\ Typed
  BY DEF IInv, Typed, DataSplit, CandidateInHand, CreateEntries, Idle
<1>2. Balanced /\ groupIndex = Len(chunks) /\ Len(chunks) \in Nat
  BY <1>1, LedgerIdle, LenProperties DEF IInv, Balanced, Typed
<1>3. PICK e0 \in PartEntries, e1 \in PartEntries :
        /\ e0.gi = groupIndex /\ e1.gi = groupIndex + e0.ng
        /\ e0.ng = CeilDiv(e0.ns, ChunkBlocks) /\ e1.ng = CeilDiv(e1.ns, ChunkBlocks)
        /\ parts' = parts \o <<e0, e1>>
        /\ groupIndex' = groupIndex + e0.ng + e1.ng
        /\ lastEnd' = (e1.fs + e1.ns) * Block
        /\ k' = 0
        /\ \/ e0.ns > 0 /\ pc' = "data0" /\ region' = e0 /\ table' = table
           \/ e0.ns = 0 /\ e1.ns > 0 /\ pc' = "data1" /\ region' = e1 /\ table' = table
           \/ e0.ns = 0 /\ e1.ns = 0 /\ pc' = "next" /\ region' = region
              /\ table' = Tail(table)
        /\ UNCHANGED <<iso, available, part, raws, stored, container>>
  <2>1. groupIndex \in Nat
    BY <1>2
  <2>2. PICK key \in Keys, from \in Nat, split \in Nat, s0 \in Nat, s1 \in Nat, g \in Nat :
          /\ key = part.key /\ from = part.start /\ split = part.split
          /\ s0 = part.split - part.start /\ s1 = part.end - part.split
          /\ g = groupIndex
    BY <1>1, <2>1
  <2> DEFINE e0 == Entry(key, from, s0, g)
             e1 == Entry(key, split, s1, g + e0.ng)
  <2>3. e0 \in PartEntries /\ e0.gi = g /\ e0.ng = CeilDiv(e0.ns, ChunkBlocks)
    BY EntryTypes
  <2>4. g + e0.ng \in Nat
    <3> HIDE DEF e0
    <3>1. QED
      BY <2>3, PartEntryTypes
  <2>5. e1 \in PartEntries /\ e1.gi = g + e0.ng /\ e1.ng = CeilDiv(e1.ns, ChunkBlocks)
    <3> DEFINE gi == g + e0.ng
    <3>1. gi \in Nat
      BY <2>4
    <3> HIDE DEF e0, gi
    <3>2. /\ Entry(key, split, s1, gi) \in PartEntries
          /\ Entry(key, split, s1, gi).gi = gi
          /\ Entry(key, split, s1, gi).ng
               = CeilDiv(Entry(key, split, s1, gi).ns, ChunkBlocks)
      BY <3>1, EntryTypes
    <3>3. QED
      BY <3>2 DEF gi
  <2>6. /\ parts' = parts \o <<e0, e1>>
        /\ groupIndex' = groupIndex + e0.ng + e1.ng
        /\ lastEnd' = (e1.fs + e1.ns) * Block
        /\ k' = 0
        /\ \/ e0.ns > 0 /\ pc' = "data0" /\ region' = e0 /\ table' = table
           \/ e0.ns = 0 /\ e1.ns > 0 /\ pc' = "data1" /\ region' = e1 /\ table' = table
           \/ e0.ns = 0 /\ e1.ns = 0 /\ pc' = "next" /\ region' = region
              /\ table' = Tail(table)
        /\ UNCHANGED <<iso, available, part, raws, stored, container>>
    BY <2>2 DEF CreateEntries
  <2> HIDE DEF e0, e1
  <2>7. QED
    BY <2>2, <2>3, <2>5, <2>6
<1>4. /\ e0.ns \in Nat /\ e0.ng \in Nat /\ e0.fs \in Nat
      /\ e1.ns \in Nat /\ e1.ng \in Nat /\ e1.fs \in Nat
      /\ 0 < e0.ng <=> 0 < e0.ns
      /\ 0 < e1.ng <=> 0 < e1.ns
  BY <1>3, PartEntryTypes, CeilDivZero
<1>5. /\ parts' \in Seq(PartEntries) /\ parts' # <<>> /\ parts'[Len(parts')] = e1
      /\ \A n \in DOMAIN parts' :
           (n \in DOMAIN parts /\ parts'[n] = parts[n]) \/ parts'[n] \in {e0, e1}
  <2>1. parts \in Seq(PartEntries)
    BY DEF IInv, Typed
  <2>2. QED
    BY <1>3, <2>1, PairAppended
<1>6. chunks' = chunks /\ raws' = raws
  BY <1>3 DEF stored
<1>7. RawShape' /\ PartShape'
  BY <1>3, <1>5 DEF IInv, RawShape, PartShape
<1>8. EntriesNameTheirChunks'
  <2>1. ASSUME NEW n \in DOMAIN parts'
        PROVE  PartNamed(parts[n])'
    <3>1. CASE n \in DOMAIN parts /\ parts'[n] = parts[n]
      BY <1>6, <3>1 DEF IInv, EntriesNameTheirChunks, PartNamed, HasChunk, ChunkOf
    <3>2. CASE parts'[n] \in {e0, e1}
      <4>1. /\ e0.gi = Len(chunks') /\ e1.gi = Len(chunks') + e0.ng
            /\ Len(chunks') \in Nat
        BY <1>2, <1>3, <1>6
      <4>2. \A c \in 0 .. parts'[n].ng - 1 : ~ (parts'[n].gi + c < Len(chunks'))
        BY <1>4, <3>2, <4>1
      <4>3. QED
        BY <4>2 DEF PartNamed, HasChunk
    <3>3. QED
      BY <1>5, <3>1, <3>2
  <2>2. \A n \in DOMAIN raws' : RawNamed(raws[n])'
    BY <1>6 DEF IInv, EntriesNameTheirChunks, RawNamed, HasChunk, ChunkOf
  <2>3. QED
    BY <2>1, <2>2 DEF EntriesNameTheirChunks
<1>9. Ledger'
  <2>1. \A n \in DOMAIN raws' : Settled(raws[n])'
    BY <1>2, <1>6 DEF Balanced, SettledBut, Settled
  <2>2. \A n \in DOMAIN parts' : parts'[n] \in {e0, e1} \/ Settled(parts[n])'
    BY <1>2, <1>5, <1>6 DEF Balanced, SettledBut, Settled
  <2>3. CASE e0.ns > 0
    <3>1. pc' = "data0" /\ region' = e0 /\ k' = 0
      BY <1>3, <1>4, <2>3
    <3>2. PartLedger'
      <4>1. InHand'
        <5>1. 0 < e0.ng /\ e0.gi + 0 = Len(chunks)
          BY <1>2, <1>3, <1>4, <2>3
        <5>. QED
          BY <1>6, <3>1, <5>1 DEF InHand
      <4>2. region' \in PartEntries /\ region'.ng = CeilDiv(region'.ns, ChunkBlocks)
        BY <1>2, <1>3, <3>1
      <4>3. parts' # <<>>
        BY <1>5
      <4>. QED
        BY <4>1, <4>2, <4>3 DEF PartLedger
    <3>3. SettledBut({region, parts[Len(parts)]})'
      BY <1>5, <2>1, <2>2, <3>1 DEF SettledBut
    <3>4. FirstLedger'
      BY <1>3, <1>5, <3>1, <3>3 DEF FirstLedger
    <3>5. QED
      BY <3>1, <3>2, <3>4 DEF Ledger, StoringRaw, StoringPart
  <2>4. CASE e0.ns = 0 /\ e1.ns > 0
    <3>1. pc' = "data1" /\ region' = e1 /\ k' = 0 /\ e0.ng = 0
      BY <1>3, <1>4, <2>4
    <3>2. PartLedger'
      <4>1. InHand'
        <5>1. 0 < e1.ng /\ e1.gi + 0 = Len(chunks)
          BY <1>2, <1>3, <1>4, <2>4, <3>1
        <5>. QED
          BY <1>6, <3>1, <5>1 DEF InHand
      <4>2. e1.ng = CeilDiv(e1.ns, ChunkBlocks) /\ e1 \in PartEntries
        BY <1>3
      <4>3. parts' # <<>>
        BY <1>5
      <4>. QED
        BY <3>1, <4>1, <4>2, <4>3 DEF PartLedger
    <3>3. \A n \in DOMAIN parts' : parts'[n] \in {e1} \/ Settled(parts[n])'
      <4>1. e0.gi + e0.ng <= Len(chunks')
        BY <1>2, <1>3, <1>6, <3>1
      <4>2. QED
        BY <2>2, <4>1 DEF Settled
    <3>4. SettledBut({region})'
      BY <2>1, <3>1, <3>3 DEF SettledBut
    <3>5. SecondLedger'
      BY <1>2, <1>3, <1>4, <1>5, <3>1, <3>4 DEF SecondLedger
    <3>6. QED
      BY <3>1, <3>2, <3>5 DEF Ledger, StoringRaw, StoringPart
  <2>5. CASE e0.ns = 0 /\ e1.ns = 0
    <3>1. pc' = "next" /\ e0.ng = 0 /\ e1.ng = 0
      BY <1>3, <1>4, <2>5
    <3>2. /\ e0.gi + e0.ng <= Len(chunks') /\ e1.gi + e1.ng <= Len(chunks')
          /\ groupIndex' = Len(chunks')
      BY <1>2, <1>3, <1>6, <3>1
    <3>3. \A n \in DOMAIN parts' : Settled(parts[n])'
      BY <2>2, <3>2 DEF Settled
    <3>4. Balanced'
      BY <2>1, <3>2, <3>3 DEF Balanced, SettledBut
    <3>5. QED
      BY <3>1, <3>4 DEF Ledger, StoringRaw, StoringPart
  <2>6. QED
    BY <1>4, <2>3, <2>4, <2>5
<1>10. Typed' /\ CandidateInHand' /\ DataSplit'
  <2>1. lastEnd' \in Nat /\ groupIndex' \in Nat /\ k' \in Nat
    <3>1. e1.fs + e1.ns \in Nat
      BY <1>4
    <3>2. (e1.fs + e1.ns) * Block \in Nat
      BY <3>1, ConstantTypes
    <3>3. groupIndex + e0.ng + e1.ng \in Nat
      BY <1>2, <1>4
    <3>4. QED
      BY <1>3, <3>2, <3>3
  <2>2. /\ table' \in Seq(Partitions) /\ pc' \in {"data0", "data1", "next"}
        /\ region' \in RawEntries \cup PartEntries
        /\ pc' # "next" => table' # <<>>
    <3>1. table \in Seq(Partitions) /\ Tail(table) \in Seq(Partitions)
          /\ region \in RawEntries \cup PartEntries
      <4>1. table \in Seq(Partitions) /\ region \in RawEntries \cup PartEntries
        BY <1>1 DEF Typed
      <4>2. QED
        BY <1>1, <4>1, HeadTypes
    <3>2. QED
      BY <1>1, <1>3, <3>1
  <2>3. QED
    BY <1>1, <1>3, <1>5, <2>1, <2>2 DEF Typed, CandidateInHand, DataSplit, stored, container
<1>11. QED
  BY <1>7, <1>8, <1>9, <1>10 DEF IInv
-----------------------------------------------------------------------------
(* Storing chunks.                                                         *)

LEMMA StoreTypes ==
  ASSUME Typed, NEW from \in Nat, NEW size \in Nat, Store(from, size)
  PROVE  /\ chunks' \in Seq(Stored) /\ Len(chunks) \in Nat /\ Len(chunks') = Len(chunks) + 1
         /\ \A n \in 1 .. Len(chunks) : chunks'[n] = chunks[n]
         /\ chunks'[Len(chunks) + 1].from = from
         /\ chunks'[Len(chunks) + 1].size = size
         /\ pos' \in Nat
<1>1. PICK len \in StoredSizes :
        /\ chunks' = Append(chunks, [from |-> from, size |-> size, word |-> pos \div 4, len |-> len])
        /\ pos' = Padded(pos + len)
  BY DEF Store
<1>2. chunks \in Seq(Stored) /\ pos \in Nat /\ len \in Nat /\ Len(chunks) \in Nat
  BY EncoderAssumption, LenProperties DEF Typed, Stored
<1> DEFINE c == [from |-> from, size |-> size, word |-> pos \div 4, len |-> len]
<1>3. c \in Stored /\ c.from = from /\ c.size = size
  BY <1>2 DEF Stored
<1>4. pos' \in Nat
  <2>1. pos + len \in Nat
    BY <1>2
  <2>2. Padded(pos + len) \in Nat
    BY <2>1, PaddedTypes
  <2>3. QED
    BY <1>1, <2>2
<1> HIDE DEF c
<1>5. /\ Append(chunks, c) \in Seq(Stored) /\ Len(Append(chunks, c)) = Len(chunks) + 1
      /\ \A n \in 1 .. Len(chunks) : Append(chunks, c)[n] = chunks[n]
      /\ Append(chunks, c)[Len(chunks) + 1] = c
  BY <1>2, <1>3, AppendProperties
<1>6. chunks' = Append(chunks, c)
  BY <1>1 DEF c
<1>7. QED
  BY <1>2, <1>3, <1>4, <1>5, <1>6

(* What one more chunk does to an entry that waits for none.               *)
LEMMA StoreKeepsSettled ==
  ASSUME Len(chunks) \in Nat, Len(chunks') = Len(chunks) + 1,
         \A n \in 1 .. Len(chunks) : chunks'[n] = chunks[n],
         NEW e, e.gi \in Nat, e.ng \in Nat, Settled(e)
  PROVE  /\ Settled(e)'
         /\ RawNamed(e) => RawNamed(e)'
         /\ PartNamed(e) => PartNamed(e)'
<1>1. e.gi + e.ng <= Len(chunks)
  BY DEF Settled
<1>2. ASSUME NEW c \in 0 .. e.ng - 1
      PROVE  HasChunk(e, c) /\ HasChunk(e, c)' /\ ChunkOf(e, c)' = ChunkOf(e, c)
  <2>1. e.gi + c < Len(chunks) /\ e.gi + c < Len(chunks') /\ e.gi + c + 1 \in 1 .. Len(chunks)
    BY <1>1
  <2>2. QED
    BY <2>1 DEF HasChunk, ChunkOf
<1>3. Settled(e)'
  BY <1>1 DEF Settled
<1>4. RawNamed(e) => RawNamed(e)'
  BY <1>2 DEF RawNamed
<1>5. PartNamed(e) => PartNamed(e)'
  BY <1>2 DEF PartNamed
<1>6. QED
  BY <1>3, <1>4, <1>5

LEMMA ChunksOfHand ==
  ASSUME Len(chunks) \in Nat, Len(chunks') = Len(chunks) + 1,
         \A n \in 1 .. Len(chunks) : chunks'[n] = chunks[n],
         NEW e, e.gi \in Nat, e.ng \in Nat, NEW i \in Nat, e.gi + i = Len(chunks)
  PROVE  \A c \in 0 .. e.ng - 1 :
           \/ ~ HasChunk(e, c)'
           \/ c = i /\ ChunkOf(e, c)' = chunks'[Len(chunks) + 1]
           \/ HasChunk(e, c) /\ ChunkOf(e, c)' = ChunkOf(e, c)
<1>. SUFFICES ASSUME NEW c \in 0 .. e.ng - 1, HasChunk(e, c)'
              PROVE  \/ c = i /\ ChunkOf(e, c)' = chunks'[Len(chunks) + 1]
                     \/ HasChunk(e, c) /\ ChunkOf(e, c)' = ChunkOf(e, c)
  OBVIOUS
<1>1. PICK g, l \in Nat : g = e.gi /\ l = Len(chunks)
  OBVIOUS
<1>2. c \in Nat /\ g + i = l /\ g + c < l + 1
  BY <1>1 DEF HasChunk
<1>3. CASE c = i
  BY <1>1, <1>2, <1>3 DEF ChunkOf
<1>4. CASE c # i
  <2>1. g + c < l /\ g + c + 1 \in 1 .. l
    BY <1>2, <1>4
  <2>. QED
    BY <1>1, <2>1 DEF HasChunk, ChunkOf
<1>. QED
  BY <1>3, <1>4

LEMMA RawChunkKeepsIInv ==
  ASSUME IInv, RawChunk
  PROVE  IInv'
<1> DEFINE from == AlignDown(region.offset) + k * Chunk
           len == Expected(LogicalSize(region), k, Chunk)
<1>1. /\ Typed /\ RawLedger /\ StoringRaw
      /\ raws \in Seq(RawEntries) /\ parts \in Seq(PartEntries) /\ k \in Nat
  BY DEF IInv, Typed, RawChunk, Ledger
<1>2. /\ region \in RawEntries /\ k < region.ng /\ region.gi + k = Len(chunks)
      /\ region.gi + region.ng = groupIndex /\ SettledBut({region})
  BY <1>1 DEF RawLedger, InHand
<1>3. /\ region.gi \in Nat /\ region.ng \in Nat /\ LogicalSize(region) \in Nat
      /\ AlignDown(region.offset) \in Nat
  BY <1>2, RawEntryTypes
<1>4. from \in Nat /\ len \in Nat
  <2>1. k * Chunk \in Nat
    BY <1>1, ConstantTypes
  <2>2. len \in 0 .. Chunk
    BY <1>1, <1>3, ConstantTypes, ExpectedRange
  <2>3. QED
    BY <1>3, <2>1, <2>2, ConstantTypes
<1>5. /\ Store(from, len) /\ bytesDone' = bytesDone + len /\ reported' = bytesDone'
      /\ k' = k + 1 /\ pc' = IF k + 1 < region.ng THEN pc ELSE AfterRaw
      /\ UNCHANGED <<iso, available, plan, allotted, region, tables, header>>
  BY DEF RawChunk, Counted
<1> HIDE DEF from, len
<1>6. /\ chunks' \in Seq(Stored) /\ Len(chunks) \in Nat /\ Len(chunks') = Len(chunks) + 1
      /\ \A n \in 1 .. Len(chunks) : chunks'[n] = chunks[n]
      /\ chunks'[Len(chunks) + 1].from = from
      /\ chunks'[Len(chunks) + 1].size = len
      /\ pos' \in Nat
  BY <1>1, <1>4, <1>5, StoreTypes
<1>7. raws' = raws /\ parts' = parts /\ groupIndex' = groupIndex /\ region' = region
  BY <1>5 DEF allotted
<1>8. /\ \A n \in DOMAIN raws : raws[n] = region \/ Settled(raws[n])
      /\ \A n \in DOMAIN parts : Settled(parts[n])
  <2>1. \A n \in DOMAIN parts : parts[n] # region
    <3>1. region.kind = "raw"
      BY <1>2, RawEntryTypes
    <3>2. \A n \in DOMAIN parts : parts[n] \in PartEntries
      BY <1>1, ElementOfSeq
    <3>3. \A n \in DOMAIN parts : parts[n].kind = "part"
      BY <3>2, PartEntryTypes
    <3>4. QED
      BY <3>1, <3>3
  <2>2. QED
    BY <1>2, <2>1 DEF SettledBut
<1>9. /\ \A n \in DOMAIN raws : Settled(raws[n]) =>
           Settled(raws[n])' /\ (RawNamed(raws[n]) => RawNamed(raws[n])')
      /\ \A n \in DOMAIN parts : Settled(parts[n])' /\ (PartNamed(parts[n]) => PartNamed(parts[n])')
  <2>1. ASSUME NEW n \in DOMAIN raws, Settled(raws[n])
        PROVE  Settled(raws[n])' /\ (RawNamed(raws[n]) => RawNamed(raws[n])')
    <3>1. PICK e \in RawEntries : e = raws[n]
      BY <1>1, ElementOfSeq
    <3>2. e.gi \in Nat /\ e.ng \in Nat /\ Settled(e)
      BY <2>1, <3>1, RawEntryTypes
    <3>3. Settled(e)' /\ (RawNamed(e) => RawNamed(e)')
      BY <1>6, <3>2, StoreKeepsSettled
    <3>4. QED
      BY <1>7, <3>1, <3>3
  <2>2. ASSUME NEW n \in DOMAIN parts
        PROVE  Settled(parts[n])' /\ (PartNamed(parts[n]) => PartNamed(parts[n])')
    <3>1. PICK e \in PartEntries : e = parts[n]
      BY <1>1, ElementOfSeq
    <3>2. e.gi \in Nat /\ e.ng \in Nat /\ Settled(e)
      BY <1>8, <3>1, PartEntryTypes
    <3>3. Settled(e)' /\ (PartNamed(e) => PartNamed(e)')
      BY <1>6, <3>2, StoreKeepsSettled
    <3>4. QED
      BY <1>7, <3>1, <3>3
  <2>3. QED
    BY <2>1, <2>2
<1>10. EntriesNameTheirChunks'
  <2>1. RawNamed(region) => RawNamed(region)'
    <3>1. \A c \in 0 .. region.ng - 1 :
            \/ ~ HasChunk(region, c)'
            \/ c = k /\ ChunkOf(region, c)' = chunks'[Len(chunks) + 1]
            \/ HasChunk(region, c) /\ ChunkOf(region, c)' = ChunkOf(region, c)
      <4>1. PICK e \in RawEntries : e = region
        BY <1>2
      <4>2. \A c \in 0 .. e.ng - 1 :
              \/ ~ HasChunk(e, c)'
              \/ c = k /\ ChunkOf(e, c)' = chunks'[Len(chunks) + 1]
              \/ HasChunk(e, c) /\ ChunkOf(e, c)' = ChunkOf(e, c)
        BY <1>1, <1>2, <1>3, <1>6, <4>1, ChunksOfHand
      <4>3. QED
        BY <1>7, <4>1, <4>2
    <3>2. RawOutput(region, k, Zeros).offset = from /\ RawOutput(region, k, Zeros).len = len
      BY DEF RawOutput, from, len
    <3>3. \A c : RawOutput(region, c, Zeros)' = RawOutput(region, c, Zeros)
      BY <1>7 DEF RawOutput, Zeros, NoTree
    <3>4. QED
      BY <1>6, <1>7, <3>1, <3>2, <3>3 DEF RawNamed
  <2>2. ASSUME NEW n \in DOMAIN raws
        PROVE  RawNamed(raws[n])'
    <3>1. RawNamed(raws[n])
      BY DEF IInv, EntriesNameTheirChunks
    <3>2. CASE raws[n] = region
      BY <1>7, <2>1, <3>1, <3>2
    <3>3. CASE Settled(raws[n])
      BY <1>9, <3>1, <3>3
    <3>4. QED
      BY <1>8, <3>2, <3>3
  <2>3. \A n \in DOMAIN parts : PartNamed(parts[n])'
    BY <1>9 DEF IInv, EntriesNameTheirChunks
  <2>4. QED
    BY <1>7, <2>2, <2>3 DEF EntriesNameTheirChunks
<1>11. Ledger'
  <2>1. SettledBut({region})'
    BY <1>7, <1>8, <1>9 DEF SettledBut
  <2>2. CASE k + 1 < region.ng
    <3>1. RawLedger'
      <4>1. k' < region'.ng /\ region'.gi + k' = Len(chunks')
        <5>1. region.gi + (k + 1) = Len(chunks) + 1
          <6>1. region.gi \in Nat /\ k \in Nat /\ region.gi + k = Len(chunks)
            BY <1>1, <1>2, <1>3
          <6>2. QED
            BY <6>1
        <5>2. QED
          BY <1>5, <1>6, <1>7, <2>2, <5>1
      <4>2. QED
        BY <1>2, <1>7, <2>1, <4>1 DEF RawLedger, InHand
    <3>2. pc' = pc
      BY <1>5, <2>2
    <3>3. QED
      BY <1>1, <3>1, <3>2 DEF Ledger, StoringRaw, StoringPart
  <2>3. CASE k + 1 = region.ng
    <3>1. groupIndex' = Len(chunks') /\ (region.gi + region.ng <= Len(chunks))'
      <4>1. region.gi + region.ng = Len(chunks) + 1
        BY <1>1, <1>2, <1>3, <2>3
      <4>2. QED
        BY <1>2, <1>6, <1>7, <4>1
    <3>2. SettledBut({})'
      BY <2>1, <3>1 DEF SettledBut, Settled
    <3>3. pc' \in {"setup", "entries", "partTable"}
      BY <1>1, <1>5, <2>3 DEF AfterRaw, StoringRaw
    <3>4. QED
      BY <3>1, <3>2, <3>3 DEF Ledger, StoringRaw, StoringPart, Balanced
  <2>4. QED
    BY <1>1, <1>2, <1>3, <2>2, <2>3
<1>12. RawShape' /\ PartShape'
  BY <1>7 DEF IInv, RawShape, PartShape
<1>13. Typed' /\ CandidateInHand' /\ DataSplit'
  <2>1. bytesDone' \in Nat /\ reported' \in Nat /\ k' \in Nat
    BY <1>1, <1>4, <1>5 DEF Typed
  <2>2. /\ pc' \in {"before", "head", "rest", "setup", "entries", "partTable"}
        /\ pc' \in {"before", "setup"} => pc = "before"
        /\ pc' \in {"head", "entries"} => pc = "head"
    BY <1>1, <1>5 DEF StoringRaw, AfterRaw
  <2>3. QED
    BY <1>1, <1>5, <1>6, <2>1, <2>2
       DEF IInv, Typed, CandidateInHand, DataSplit, Stored, plan, allotted
<1>14. QED
  BY <1>10, <1>11, <1>12, <1>13 DEF IInv
(* A window is counted from its first block, inside the entry.             *)
LEMMA WindowTypes ==
  ASSUME region.ns \in Nat, k \in Nat, k * ChunkBlocks < region.ns
  PROVE  WindowEnd - ((k * ChunkBlocks) \div GroupBlocks) * GroupBlocks \in Nat
<1> DEFINE x == k * ChunkBlocks
           q == x \div GroupBlocks
           w == q * GroupBlocks
<1>1. x \in Nat /\ x < region.ns
  BY ConstantTypes
<1> DEFINE r == x % GroupBlocks
<1>2. x = GroupBlocks * q + r /\ r \in Nat /\ q \in Nat
  <2> HIDE DEF x
  <2>1. x \in Nat /\ GroupBlocks \in Nat \ {0}
    BY <1>1, ConstantTypes
  <2>2. x = GroupBlocks * (x \div GroupBlocks) + (x % GroupBlocks)
        /\ x % GroupBlocks \in 0 .. GroupBlocks - 1 /\ x \div GroupBlocks \in Nat
    BY <2>1, DivMod
  <2>3. x % GroupBlocks \in Nat
    BY <2>1, <2>2
  <2>4. QED
    BY <2>2, <2>3
<1>3. WindowEnd = Lesser(region.ns, (q + 1) * GroupBlocks)
  BY DEF WindowEnd
<1> HIDE DEF x, q, r
<1>4. w \in Nat /\ (q + 1) * GroupBlocks = w + GroupBlocks /\ GroupBlocks * q = w
  BY <1>2, ConstantTypes
<1> HIDE DEF w
<1>5. w <= x
  BY <1>1, <1>2, <1>4
<1>6. Lesser(region.ns, w + GroupBlocks) - w \in Nat
  BY <1>1, <1>4, <1>5, ConstantTypes DEF Lesser
<1>7. QED
  BY <1>3, <1>4, <1>6 DEF x, q, w

LEMMA PartChunkKeepsIInv ==
  ASSUME IInv, PartChunk
  PROVE  IInv'
<1> DEFINE first == k * ChunkBlocks
           n == Expected(region.ns, k, ChunkBlocks)
           last == parts[Len(parts)]
           from == (region.fs + first) * Block
           size == n * Block
<1>1. /\ Typed /\ PartLedger /\ StoringPart /\ pc \in {"data0", "data1"}
      /\ pc = "data0" => FirstLedger
      /\ pc = "data1" => SecondLedger
      /\ raws \in Seq(RawEntries) /\ parts \in Seq(PartEntries) /\ k \in Nat
      /\ table # <<>>
  BY DEF IInv, Typed, PartChunk, Ledger, StoringPart, CandidateInHand
<1>2. /\ region \in PartEntries /\ k < region.ng /\ region.gi + k = Len(chunks)
      /\ parts # <<>> /\ region.ng = CeilDiv(region.ns, ChunkBlocks)
  BY <1>1 DEF PartLedger, InHand
<1>3. region.gi \in Nat /\ region.ng \in Nat /\ region.fs \in Nat /\ region.ns \in Nat
  BY <1>2, PartEntryTypes
<1>4. /\ last \in PartEntries /\ last.ng = CeilDiv(last.ns, ChunkBlocks)
  <2>1. Len(parts) \in DOMAIN parts /\ Len(parts) \in 1 .. Len(parts)
    BY <1>1, <1>2, EmptySeq, LenProperties
  <2>2. QED
    BY <1>1, <2>1, ElementOfSeq DEF IInv, PartShape
<1>5. /\ last.gi \in Nat /\ last.ng \in Nat /\ last.ns \in Nat
      /\ 0 < last.ng <=> 0 < last.ns
  <2> HIDE DEF last
  <2>1. QED
    BY <1>4, PartEntryTypes, CeilDivZero
<1>6. /\ first \in Nat /\ first < region.ns /\ n \in Nat
      /\ first + n < region.ns <=> k + 1 < region.ng
  <2>1. first \in Nat
    BY <1>1, ConstantTypes
  <2>2. QED
    BY <1>1, <1>2, <1>3, <2>1, LastChunk
<1>7. from \in Nat /\ size \in Nat
  <2>1. region.fs + first \in Nat
    BY <1>3, <1>6
  <2> HIDE DEF first, n
  <2>2. QED
    BY <1>6, <2>1, ConstantTypes
<1>8. /\ Store(from, size) /\ reported' = bytesDone
      /\ bytesDone' \in Nat
      /\ \/ /\ first + n < region.ns
            /\ k' = k + 1 /\ UNCHANGED <<pc, table, region>>
         \/ /\ first + n >= region.ns
            /\ pc = "data0" /\ last.ns > 0
            /\ pc' = "data1" /\ region' = last /\ k' = 0 /\ table' = table
         \/ /\ first + n >= region.ns
            /\ pc = "data1" \/ last.ns = 0
            /\ pc' = "next" /\ table' = Tail(table) /\ region' = region /\ k' = k
      /\ UNCHANGED <<iso, available, part, lastEnd, allotted, tables, header>>
  <2>1. bytesDone \in Nat
    BY <1>1 DEF Typed
  <2> DEFINE w == WindowEnd - (first \div GroupBlocks) * GroupBlocks
  <2>2. w \in Nat
    BY <1>1, <1>3, <1>6, WindowTypes
  <2>3. bytesDone' = bytesDone + w * Block \/ bytesDone' = bytesDone
    BY DEF PartChunk
  <2> HIDE DEF w
  <2>4. bytesDone' \in Nat
    BY <2>1, <2>2, <2>3, ConstantTypes
  <2>5. QED
    BY <2>4 DEF PartChunk
<1> HIDE DEF first, n, last, from, size
<1>9. /\ chunks' \in Seq(Stored) /\ Len(chunks) \in Nat /\ Len(chunks') = Len(chunks) + 1
      /\ \A m \in 1 .. Len(chunks) : chunks'[m] = chunks[m]
      /\ chunks'[Len(chunks) + 1].from = from
      /\ chunks'[Len(chunks) + 1].size = size
      /\ pos' \in Nat
  BY <1>1, <1>7, <1>8, StoreTypes
<1>10. raws' = raws /\ parts' = parts /\ groupIndex' = groupIndex
  BY <1>8 DEF allotted
<1>11. pc = "data0" => /\ region.gi + region.ng = last.gi
                       /\ last.gi + last.ng = groupIndex
  BY <1>1 DEF FirstLedger, last
<1>12. pc = "data1" => region = last /\ region.gi + region.ng = groupIndex
  BY <1>1 DEF SecondLedger, last
<1>13. /\ \A m \in DOMAIN raws : Settled(raws[m])
       /\ \A m \in DOMAIN parts :
            parts[m] = region \/ (pc = "data0" /\ parts[m] = last) \/ Settled(parts[m])
  <2>1. \/ pc = "data0" /\ SettledBut({region, last})
        \/ pc = "data1" /\ SettledBut({region})
    BY <1>1 DEF FirstLedger, SecondLedger, last
  <2>2. region.kind = "part" /\ last.kind = "part"
    BY <1>2, <1>4, PartEntryTypes
  <2>3. \A m \in DOMAIN raws : raws[m] \in RawEntries
    BY <1>1, ElementOfSeq
  <2>4. \A m \in DOMAIN raws : raws[m] # region /\ raws[m] # last
    BY <2>2, <2>3, RawEntryTypes
  <2>5. QED
    BY <2>1, <2>4 DEF SettledBut
<1>14. /\ \A m \in DOMAIN raws : Settled(raws[m])' /\ (RawNamed(raws[m]) => RawNamed(raws[m])')
       /\ \A m \in DOMAIN parts : Settled(parts[m]) =>
            Settled(parts[m])' /\ (PartNamed(parts[m]) => PartNamed(parts[m])')
  <2>1. ASSUME NEW m \in DOMAIN raws
        PROVE  Settled(raws[m])' /\ (RawNamed(raws[m]) => RawNamed(raws[m])')
    <3>1. PICK e \in RawEntries : e = raws[m]
      BY <1>1, ElementOfSeq
    <3>2. e.gi \in Nat /\ e.ng \in Nat /\ Settled(e)
      BY <1>13, <3>1, RawEntryTypes
    <3>3. Settled(e)' /\ (RawNamed(e) => RawNamed(e)')
      BY <1>9, <3>2, StoreKeepsSettled
    <3>4. QED
      BY <1>10, <3>1, <3>3
  <2>2. ASSUME NEW m \in DOMAIN parts, Settled(parts[m])
        PROVE  Settled(parts[m])' /\ (PartNamed(parts[m]) => PartNamed(parts[m])')
    <3>1. PICK e \in PartEntries : e = parts[m]
      BY <1>1, ElementOfSeq
    <3>2. e.gi \in Nat /\ e.ng \in Nat /\ Settled(e)
      BY <2>2, <3>1, PartEntryTypes
    <3>3. Settled(e)' /\ (PartNamed(e) => PartNamed(e)')
      BY <1>9, <3>2, StoreKeepsSettled
    <3>4. QED
      BY <1>10, <3>1, <3>3
  <2>3. QED
    BY <2>1, <2>2
<1>15. EntriesNameTheirChunks'
  <2>1. PICK e \in PartEntries : e = region
    BY <1>2
  <2>2. PartNamed(e) => PartNamed(e)'
    <3>1. \A c \in 0 .. e.ng - 1 :
            \/ ~ HasChunk(e, c)'
            \/ c = k /\ ChunkOf(e, c)' = chunks'[Len(chunks) + 1]
            \/ HasChunk(e, c) /\ ChunkOf(e, c)' = ChunkOf(e, c)
      BY <1>1, <1>2, <1>3, <1>9, <2>1, ChunksOfHand
    <3>2. from = (e.fs + k * ChunkBlocks) * Block /\ size = Expected(e.ns, k, ChunkBlocks) * Block
      BY <2>1 DEF from, size, first, n
    <3>3. QED
      BY <1>9, <3>1, <3>2 DEF PartNamed
  <2>3. ASSUME NEW m \in DOMAIN parts
        PROVE  PartNamed(parts[m])'
    <3>1. PartNamed(parts[m])
      BY DEF IInv, EntriesNameTheirChunks
    <3>2. CASE parts[m] = region
      BY <1>10, <2>1, <2>2, <3>1, <3>2
    <3>3. CASE pc = "data0" /\ parts[m] = last
      <4>1. last.gi >= Len(chunks')
        <5>1. last.gi \in Nat /\ last.gi = region.gi + region.ng
          BY <1>5, <1>11, <3>3
        <5>2. k + 1 <= region.ng
          BY <1>1, <1>2, <1>3
        <5>3. QED
          BY <1>1, <1>2, <1>3, <1>9, <5>1, <5>2
      <4>2. parts'[m] = last
        BY <1>10, <3>3
      <4>3. Len(chunks') \in Nat
        BY <1>9
      <4>4. \A c \in 0 .. parts'[m].ng - 1 : ~ (parts'[m].gi + c < Len(chunks'))
        BY <1>5, <4>1, <4>2, <4>3
      <4>5. QED
        BY <4>4 DEF PartNamed, HasChunk
    <3>4. CASE Settled(parts[m])
      BY <1>14, <3>1, <3>4
    <3>5. QED
      BY <1>13, <3>2, <3>3, <3>4
  <2>4. \A m \in DOMAIN raws : RawNamed(raws[m])'
    BY <1>14 DEF IInv, EntriesNameTheirChunks
  <2>5. QED
    BY <1>10, <2>3, <2>4 DEF EntriesNameTheirChunks
<1>16. Ledger'
  <2>1. \A m \in DOMAIN raws' : Settled(raws[m])'
    BY <1>10, <1>14
  <2>2. \A m \in DOMAIN parts' :
          parts'[m] = region \/ (pc = "data0" /\ parts'[m] = last) \/ Settled(parts[m])'
    BY <1>10, <1>13, <1>14
  <2>3. region.gi + (k + 1) = Len(chunks')
    <3>1. region.gi \in Nat /\ k \in Nat /\ region.gi + k = Len(chunks)
      BY <1>1, <1>2, <1>3
    <3>2. QED
      BY <1>9, <3>1
  <2>4. CASE k + 1 < region.ng
    <3>1. k' = k + 1 /\ UNCHANGED <<pc, table, region>>
      BY <1>3, <1>6, <1>8, <2>4
    <3>2. PartLedger'
      <4>1. k' < region'.ng /\ region'.gi + k' = Len(chunks')
        BY <2>3, <2>4, <3>1
      <4>2. QED
        BY <1>2, <1>10, <3>1, <4>1 DEF PartLedger, InHand
    <3>3. pc = "data0" => FirstLedger'
      <4>1. ASSUME pc = "data0"
            PROVE  SettledBut({region, parts[Len(parts)]})'
        <5>1. parts'[Len(parts')] = last /\ region' = region
          BY <1>10, <3>1 DEF last
        <5>2. QED
          BY <2>1, <2>2, <5>1 DEF SettledBut
      <4>2. QED
        BY <1>10, <1>11, <3>1, <4>1 DEF FirstLedger, last
    <3>4. pc = "data1" => SecondLedger'
      <4>1. ASSUME pc = "data1"
            PROVE  SettledBut({region})'
        BY <2>1, <2>2, <3>1, <4>1 DEF SettledBut
      <4>2. QED
        BY <1>10, <1>12, <3>1, <4>1 DEF SecondLedger, last
    <3>5. QED
      BY <1>1, <3>1, <3>2, <3>3, <3>4 DEF Ledger, StoringRaw, StoringPart
  <2>5. CASE k + 1 = region.ng
    <3>1. region.gi + region.ng = Len(chunks')
      BY <2>3, <2>5
    <3>2. \A m \in DOMAIN parts' : (pc = "data0" /\ parts'[m] = last) \/ Settled(parts[m])'
      BY <1>2, <1>3, <1>9, <2>2, <3>1 DEF Settled
    <3>3. first + n >= region.ns
      BY <1>3, <1>6, <2>5
    <3>4. CASE pc = "data0" /\ last.ns > 0
      <4>1. pc' = "data1" /\ region' = last /\ k' = 0
        BY <1>3, <1>5, <1>6, <1>8, <3>3, <3>4
      <4>2. k' < region'.ng /\ region'.gi + k' = Len(chunks')
        <5>1. last.gi = Len(chunks') /\ 0 < last.ng /\ last.gi \in Nat
          BY <1>5, <1>11, <3>1, <3>4
        <5>2. QED
          BY <4>1, <5>1
      <4>3. PartLedger'
        BY <1>2, <1>4, <1>10, <4>1, <4>2 DEF PartLedger, InHand
      <4>4. SettledBut({region})'
        BY <2>1, <3>2, <4>1 DEF SettledBut
      <4>5. SecondLedger'
        BY <1>10, <1>11, <3>4, <4>1, <4>4 DEF SecondLedger, last
      <4>6. QED
        BY <4>1, <4>3, <4>5 DEF Ledger, StoringRaw, StoringPart
    <3>5. CASE pc = "data1" \/ last.ns = 0
      <4>1. pc' = "next"
        BY <1>1, <1>3, <1>5, <1>6, <1>8, <3>3, <3>5
      <4>2. groupIndex' = Len(chunks')
        <5>1. CASE pc = "data1"
          BY <1>10, <1>12, <3>1, <5>1
        <5>2. CASE pc = "data0" /\ last.ns = 0
          <6>1. last.ng = 0 /\ last.gi = Len(chunks') /\ last.gi + last.ng = groupIndex
            BY <1>5, <1>11, <3>1, <5>2
          <6>2. QED
            BY <1>5, <1>10, <6>1
        <5>3. QED
          BY <1>1, <3>5, <5>1, <5>2
      <4>3. pc = "data0" => last.gi + last.ng <= Len(chunks')
        BY <1>5, <1>10, <1>11, <4>2
      <4>4. \A m \in DOMAIN parts' : Settled(parts[m])'
        BY <3>2, <4>3 DEF Settled
      <4>5. Balanced'
        BY <2>1, <4>2, <4>4 DEF Balanced, SettledBut
      <4>6. QED
        BY <4>1, <4>5 DEF Ledger, StoringRaw, StoringPart
    <3>6. QED
      BY <1>1, <1>5, <3>4, <3>5
  <2>6. QED
    BY <1>1, <1>2, <1>3, <2>4, <2>5
<1>17. RawShape' /\ PartShape'
  BY <1>10 DEF IInv, RawShape, PartShape
<1>18. Typed' /\ CandidateInHand' /\ DataSplit'
  <2>1. reported' \in Nat /\ k' \in Nat
    BY <1>1, <1>8 DEF Typed
  <2>2. /\ table' \in Seq(Partitions) /\ pc' \in {"data0", "data1", "next"}
        /\ region' \in RawEntries \cup PartEntries
        /\ pc' # "next" => table' # <<>>
    <3>1. table \in Seq(Partitions)
      BY <1>1 DEF Typed
    <3>2. Tail(table) \in Seq(Partitions)
      BY <1>1, <3>1, HeadTypes
    <3>3. QED
      BY <1>1, <1>2, <1>4, <1>8, <3>1, <3>2
  <2>3. QED
    BY <1>1, <1>8, <1>9, <2>1, <2>2
       DEF Typed, CandidateInHand, DataSplit, Stored, allotted
<1>19. QED
  BY <1>15, <1>16, <1>17, <1>18 DEF IInv
-----------------------------------------------------------------------------
LEMMA NextKeepsIInv ==
  ASSUME IInv, [Next]_vars
  PROVE  IInv'
<1>1. CASE Begin \/ Detect \/ SkipCandidate
  BY <1>1, BeginKeepsIInv
<1>2. CASE ReachCandidate \/ ReachEnd
  BY <1>2, ReachKeepsIInv
<1>3. CASE SetUp
  BY <1>3, SetUpKeepsIInv
<1>4. CASE ReadFst
  BY <1>4, ReadFstKeepsIInv
<1>5. CASE CreateEntries
  BY <1>5, CreateEntriesKeepsIInv
<1>6. CASE RawChunk
  BY <1>6, RawChunkKeepsIInv
<1>7. CASE PartChunk
  BY <1>7, PartChunkKeepsIInv
<1>8. CASE WritePartTable \/ WriteRawTable \/ WriteGroupTable \/ WriteHeader
  BY <1>8, TablesKeepIInv
<1>9. CASE Grow
  BY <1>9, GrowKeepsIInv
<1>10. CASE Fail
  BY <1>10, FailKeepsIInv
<1>11. CASE UNCHANGED vars
  BY <1>11, StutterKeepsIInv
<1>12. QED
  BY <1>1, <1>2, <1>3, <1>4, <1>5, <1>6, <1>7, <1>8, <1>9, <1>10, <1>11 DEF Next, Encode

LEMMA InitIInv ==
  ASSUME Init
  PROVE  IInv
BY InitIsFresh, FreshIInv

(* The inductive invariant holds in every reachable state, for every set   *)
(* of discs, whatever their partition tables say, every size of block,     *)
(* chunk and hash group, and wherever reads fail.                          *)
THEOREM EncoderInvariant == Spec => []IInv
BY InitIInv, NextKeepsIInv, PTL DEF Spec

LEMMA NextKeepsDisc ==
  ASSUME [Next]_vars
  PROVE  UNCHANGED iso
BY DEF Next, Encode, Begin, Detect, SkipCandidate, ReachCandidate, ReachEnd, SetUp, ReadFst,
       CreateEntries, RawChunk, PartChunk, WritePartTable, WriteRawTable, WriteGroupTable,
       WriteTable, WriteHeader, Fail, Grow, vars

(* The variables of the encoder keep their types.                          *)
THEOREM EncoderTypeCorrect == Spec => []TypeOK
<1>1. Init => iso \in Isos
  BY DEF Init
<1>2. iso \in Isos /\ [Next]_vars => (iso \in Isos)'
  BY NextKeepsDisc
<1>3. IInv /\ iso \in Isos => TypeOK
  BY DEF IInv, Typed, TypeOK
<1>4. QED
  BY <1>1, <1>2, <1>3, EncoderInvariant, PTL DEF Spec

(* Every group of every entry is made from the bytes that are restored     *)
(* from it, however regions, failures and the growing disc interleave.     *)
THEOREM ChunksNamedRightly == Spec => []EntriesNameTheirChunks
<1>1. IInv => EntriesNameTheirChunks
  BY DEF IInv
<1>2. QED
  BY <1>1, EncoderInvariant, PTL

FinishedIsWellFormed == pc = "done" => WellFormed(Container)

LEMMA FinishedTables ==
  ASSUME IInv
  PROVE  FinishedIsWellFormed
<1> SUFFICES ASSUME pc = "done"
             PROVE  WellFormed(Container)
  BY DEF FinishedIsWellFormed
<1>1. Balanced /\ RawShape /\ PartShape
      /\ raws \in Seq(RawEntries) /\ parts \in Seq(PartEntries) /\ chunks \in Seq(Stored)
  BY LedgerIdle DEF IInv, Typed, Idle, Stored
<1> DEFINE gs == [n \in DOMAIN chunks |-> [zero |-> FALSE, bad |-> FALSE, ex |-> {}]]
<1>2. Len(gs) = Len(chunks)
  <2> DEFINE G == [zero : BOOLEAN, bad : BOOLEAN, ex : SUBSET Nat]
  <2>1. DOMAIN chunks = 1 .. Len(chunks) /\ Len(chunks) \in Nat
    BY <1>1, LenProperties
  <2>2. gs \in Seq(G) /\ DOMAIN gs = 1 .. Len(chunks)
    BY <2>1
  <2> HIDE DEF gs
  <2>3. QED
    BY <2>1, <2>2, LenProperties
<1>3. Container.parts = parts /\ Container.raws = raws /\ Container.groups = gs
  BY DEF Container
<1> HIDE DEF gs
<1>4. ASSUME NEW n \in DOMAIN parts
      PROVE  WellFormedEntry(parts[n], gs)
  <2>1. parts[n].kind = "part"
    BY <1>1, ElementOfSeq, PartEntryTypes
  <2>2. QED
    BY <1>1, <1>2, <2>1 DEF Balanced, SettledBut, Settled, PartShape, WellFormedEntry
<1>5. ASSUME NEW n \in DOMAIN raws
      PROVE  WellFormedEntry(raws[n], gs)
  <2>1. raws[n].kind = "raw"
    BY <1>1, ElementOfSeq, RawEntryTypes
  <2>2. QED
    BY <1>1, <1>2, <2>1 DEF Balanced, SettledBut, Settled, RawShape, WellFormedEntry
<1>6. QED
  BY <1>3, <1>4, <1>5 DEF WellFormed

(* The tables of a finished container are well-formed: what the decoders   *)
(* assume of one is what the encoder writes.                               *)
THEOREM FinishedContainers == Spec => []FinishedIsWellFormed
BY FinishedTables, EncoderInvariant, PTL

-----------------------------------------------------------------------------
(* The container: what has been written lies before its end, which is at a *)
(* word boundary until the group table is written; the tables come in      *)
(* order after the chunks, and the header after them.                      *)

Tabulating == {"rawTable", "groupTable", "header", "done", "failed"}
At4(c) == c.word * 4
Laid ==
  /\ pos >= HeaderArea
  /\ \A n \in DOMAIN chunks : At4(chunks[n]) + chunks[n].len <= pos
  /\ \A t \in DOMAIN tables : tables[t].at + tables[t].len <= pos
  /\ pc \notin {"header", "done", "failed"} => pos % 4 = 0
  /\ pc \notin Tabulating => tables = <<>>

Kinds == [n \in DOMAIN tables |-> tables[n].what]
First == IF parts # <<>> THEN <<"part">> ELSE <<>>
Ordered ==
  /\ pc = "rawTable" => Kinds = First
  /\ pc = "groupTable" => Kinds = First \o <<"raw">>
  /\ pc \in {"header", "done"} => Kinds = First \o <<"raw", "group">>
  /\ header = "full" => pc = "done"

LInv == StoredApart /\ Laid /\ Ordered

LEMMA LayoutTypes ==
  ASSUME Typed
  PROVE  /\ pos \in Nat /\ HeaderArea \in Nat /\ HeaderArea % 4 = 0
         /\ Len(chunks) \in Nat /\ DOMAIN chunks = 1 .. Len(chunks)
         /\ Len(tables) \in Nat /\ DOMAIN tables = 1 .. Len(tables)
         /\ \A n \in DOMAIN chunks : chunks[n].word \in Nat /\ chunks[n].len \in Nat
         /\ \A t \in DOMAIN tables : tables[t].at \in Nat /\ tables[t].len \in Nat
<1> DEFINE Written == [what : {"part", "raw", "group"}, at : Nat, len : Nat]
<1>1. chunks \in Seq(Stored) /\ tables \in Seq(Written) /\ pos \in Nat
  BY DEF Typed, Stored
<1>2. \A t \in Written : t.at \in Nat /\ t.len \in Nat
  OBVIOUS
<1> HIDE DEF Written
<1>3. /\ \A n \in DOMAIN chunks : chunks[n] \in Stored
      /\ \A t \in DOMAIN tables : tables[t] \in Written
  BY <1>1, ElementOfSeq
<1>4. QED
  BY <1>1, <1>2, <1>3, LenProperties, EncoderAssumption DEF Stored

LEMMA FreshLInv ==
  ASSUME Fresh
  PROVE  LInv
BY EncoderAssumption DEF Fresh, LInv, StoredApart, Laid, Ordered, Tabulating

(* Steps that write nothing but the header.                                *)
LEMMA QuietKeepsLInv ==
  ASSUME LInv, UNCHANGED <<chunks, tables, pos>>,
         \/ UNCHANGED <<pc, header, parts>>
         \/ pc' = "failed" /\ header' = header /\ pc # "done"
         \/ pc \notin Tabulating /\ pc' \notin Tabulating /\ (header' = header \/ header' = "zero")
         \/ pc = "header" /\ pc' = "done" /\ parts' = parts
  PROVE  LInv'
<1>1. StoredApart'
  BY DEF LInv, StoredApart
<1>2. Laid'
  BY DEF LInv, Laid, Tabulating, At4
<1>3. Ordered'
  BY DEF LInv, Ordered, Tabulating, Kinds, First
<1>4. QED
  BY <1>1, <1>2, <1>3 DEF LInv

LEMMA StoreKeepsLInv ==
  ASSUME Typed, LInv, NEW from, NEW size, Store(from, size),
         pc \notin Tabulating, pc' \notin Tabulating, UNCHANGED <<tables, header>>
  PROVE  LInv'
<1>1. PICK len \in StoredSizes :
        /\ chunks' = Append(chunks, [from |-> from, size |-> size, word |-> pos \div 4, len |-> len])
        /\ pos' = Padded(pos + len)
  BY DEF Store
<1> DEFINE c == [from |-> from, size |-> size, word |-> pos \div 4, len |-> len]
<1>2. len \in Nat /\ tables = <<>> /\ pos % 4 = 0 /\ header # "full"
  BY EncoderAssumption DEF LInv, Laid, Ordered, Tabulating
<1>3. pos \in Nat /\ HeaderArea \in Nat /\ pos >= HeaderArea
  BY LayoutTypes DEF LInv, Laid
<1>4. c.word * 4 = pos /\ c.len = len
  BY <1>2, <1>3
<1>5. pos' \in Nat /\ pos' >= pos + len /\ pos' % 4 = 0
  <2>1. pos + len \in Nat
    BY <1>2, <1>3
  <2>2. QED
    BY <1>1, <2>1, PaddedTypes
<1> HIDE DEF c
<1>6. /\ DOMAIN chunks' = 1 .. Len(chunks) + 1
      /\ \A n \in 1 .. Len(chunks) : chunks'[n] = chunks[n]
      /\ chunks'[Len(chunks) + 1] = c
      /\ DOMAIN chunks = 1 .. Len(chunks) /\ Len(chunks) \in Nat
  <2>1. chunks' = Append(chunks, c) /\ chunks \in Seq(Stored)
    BY <1>1 DEF c, Typed, Stored
  <2>2. QED
    BY <2>1, LenProperties
<1>7. /\ \A n \in DOMAIN chunks : At4(chunks[n]) + chunks[n].len <= pos
      /\ \A n \in DOMAIN chunks : At4(chunks[n]) \in Nat /\ chunks[n].len \in Nat
  BY LayoutTypes DEF LInv, Laid, At4
<1>8. \A n \in DOMAIN chunks' : \/ n \in DOMAIN chunks /\ chunks'[n] = chunks[n]
                                \/ n = Len(chunks) + 1 /\ chunks'[n] = c
  BY <1>6
<1>9. Laid'
  <2>1. ASSUME NEW n \in DOMAIN chunks'
        PROVE  At4(chunks'[n]) + chunks'[n].len <= pos'
    <3>1. CASE n \in DOMAIN chunks /\ chunks'[n] = chunks[n]
      BY <1>2, <1>3, <1>5, <1>7, <3>1
    <3>2. CASE chunks'[n] = c
      BY <1>4, <1>5, <3>2 DEF At4
    <3>3. QED
      BY <1>8, <3>1, <3>2
  <2>2. tables' = <<>> /\ pos' >= HeaderArea
    BY <1>2, <1>3, <1>5
  <2>3. \A n \in DOMAIN chunks' : At4(chunks[n])' + chunks'[n].len <= pos'
    BY <2>1 DEF At4
  <2>4. \A t \in DOMAIN tables' : tables'[t].at + tables'[t].len <= pos'
    BY <2>2
  <2>5. QED
    BY <1>5, <2>2, <2>3, <2>4 DEF Laid
<1>10. StoredApart'
  <2>1. \A n \in DOMAIN chunks' : At4(chunks'[n]) >= HeaderArea
    BY <1>3, <1>4, <1>8 DEF LInv, StoredApart, At4
  <2>2. ASSUME NEW m \in DOMAIN chunks', NEW n \in DOMAIN chunks', m < n
        PROVE  At4(chunks'[m]) + chunks'[m].len <= At4(chunks'[n])
    <3>1. m \in DOMAIN chunks /\ chunks'[m] = chunks[m]
      BY <1>6, <2>2
    <3>2. CASE n \in DOMAIN chunks /\ chunks'[n] = chunks[n]
      BY <2>2, <3>1, <3>2 DEF LInv, StoredApart, At4
    <3>3. CASE chunks'[n] = c
      BY <1>4, <1>7, <3>1, <3>3 DEF At4
    <3>4. QED
      BY <1>8, <3>2, <3>3
  <2>3. tables' = <<>>
    BY <1>2
  <2>4. QED
    BY <2>1, <2>2, <2>3 DEF StoredApart, At4
<1>11. Ordered'
  BY <1>2 DEF Ordered, Tabulating
<1>12. QED
  BY <1>9, <1>10, <1>11 DEF LInv
(* A table goes to the end of the container, behind the chunks and the     *)
(* tables before it.                                                       *)
LEMMA TableIsApart ==
  ASSUME Typed, StoredApart, Laid, NEW what \in {"part", "raw", "group"}, NEW len \in Nat,
         WriteTable(what, len), pos' \in Nat, pos' >= pos + len
  PROVE  /\ StoredApart' /\ pos' >= HeaderArea
         /\ \A n \in DOMAIN chunks' : At4(chunks[n])' + chunks'[n].len <= pos'
         /\ \A t \in DOMAIN tables' : tables'[t].at + tables'[t].len <= pos'
         /\ Kinds' = Append(Kinds, what)
<1> DEFINE Written == [what : {"part", "raw", "group"}, at : Nat, len : Nat]
           w == [what |-> what, at |-> pos, len |-> len]
<1>1. /\ pos \in Nat /\ HeaderArea \in Nat /\ pos >= HeaderArea
      /\ Len(tables) \in Nat /\ DOMAIN tables = 1 .. Len(tables)
      /\ DOMAIN chunks = 1 .. Len(chunks) /\ Len(chunks) \in Nat
      /\ \A n \in DOMAIN chunks : chunks[n].word \in Nat /\ chunks[n].len \in Nat
      /\ \A t \in DOMAIN tables : tables[t].at \in Nat /\ tables[t].len \in Nat
  BY LayoutTypes DEF Laid
<1>2. /\ w \in Written /\ w.what = what /\ w.at = pos /\ w.len = len
      /\ tables \in Seq(Written)
  BY <1>1 DEF Typed
<1>3. tables' = Append(tables, w) /\ chunks' = chunks
  BY DEF WriteTable, stored
<1> HIDE DEF w, Written
<1>4. /\ DOMAIN tables' = 1 .. Len(tables) + 1
      /\ \A t \in 1 .. Len(tables) : tables'[t] = tables[t]
      /\ tables'[Len(tables) + 1] = w
  BY <1>1, <1>2, <1>3
<1>5. \A t \in DOMAIN tables' : \/ t \in DOMAIN tables /\ tables'[t] = tables[t]
                                \/ t = Len(tables) + 1 /\ tables'[t] = w
  BY <1>1, <1>4
<1>6. \A n \in DOMAIN chunks : At4(chunks[n]) \in Nat /\ At4(chunks[n]) + chunks[n].len <= pos
  BY <1>1 DEF Laid, At4
<1>7. \A t \in DOMAIN tables : tables[t].at + tables[t].len <= pos
  BY DEF Laid
<1>8. StoredApart'
  <2>1. /\ \A n \in DOMAIN chunks' : At4(chunks'[n]) >= HeaderArea
        /\ \A m, n \in DOMAIN chunks' :
             m < n => At4(chunks'[m]) + chunks'[m].len <= At4(chunks'[n])
    BY <1>3 DEF StoredApart, At4
  <2>2. ASSUME NEW n \in DOMAIN chunks', NEW t \in DOMAIN tables'
        PROVE  At4(chunks'[n]) + chunks'[n].len <= tables'[t].at
    <3>1. CASE t \in DOMAIN tables /\ tables'[t] = tables[t]
      BY <1>3, <3>1 DEF StoredApart, At4
    <3>2. CASE tables'[t] = w
      BY <1>2, <1>3, <1>6, <3>2
    <3>3. QED
      BY <1>5, <3>1, <3>2
  <2>3. ASSUME NEW r \in DOMAIN tables', NEW t \in DOMAIN tables', r < t
        PROVE  tables'[r].at + tables'[r].len <= tables'[t].at
    <3>1. r \in DOMAIN tables /\ tables'[r] = tables[r]
      BY <1>1, <1>4, <2>3
    <3>2. CASE t \in DOMAIN tables /\ tables'[t] = tables[t]
      BY <2>3, <3>1, <3>2 DEF StoredApart
    <3>3. CASE tables'[t] = w
      BY <1>2, <1>7, <3>1, <3>3
    <3>4. QED
      BY <1>5, <3>2, <3>3
  <2>4. QED
    BY <2>1, <2>2, <2>3 DEF StoredApart, At4
<1>9. \A n \in DOMAIN chunks' : At4(chunks[n])' + chunks'[n].len <= pos'
  <2>1. ASSUME NEW n \in DOMAIN chunks
        PROVE  At4(chunks[n]) + chunks[n].len <= pos'
    <3>1. At4(chunks[n]) + chunks[n].len \in Nat /\ At4(chunks[n]) + chunks[n].len <= pos
      BY <1>1, <1>6
    <3> HIDE DEF At4
    <3>2. QED
      BY <1>1, <3>1
  <2>2. QED
    BY <1>3, <2>1 DEF At4
<1>10. \A t \in DOMAIN tables' : tables'[t].at + tables'[t].len <= pos'
  <2>1. ASSUME NEW t \in DOMAIN tables'
        PROVE  tables'[t].at + tables'[t].len <= pos'
    <3>1. CASE t \in DOMAIN tables /\ tables'[t] = tables[t]
      <4>1. tables[t].at \in Nat /\ tables[t].len \in Nat /\ tables[t].at + tables[t].len <= pos
        BY <1>1, <1>7, <3>1
      <4>2. QED
        BY <1>1, <3>1, <4>1
    <3>2. CASE tables'[t] = w
      BY <1>2, <3>2
    <3>3. QED
      BY <1>5, <3>1, <3>2
  <2>2. QED
    BY <2>1
<1>11. Kinds' = Append(Kinds, what)
  <2>1. /\ Kinds \in Seq({"part", "raw", "group"}) /\ Len(Kinds) = Len(tables)
    <3>1. \A t \in DOMAIN tables : tables[t] \in Written
      BY <1>2, ElementOfSeq
    <3>2. Kinds \in [1 .. Len(tables) -> {"part", "raw", "group"}]
      BY <1>1, <3>1 DEF Kinds, Written
    <3>3. QED
      BY <1>1, <3>2
  <2>2. Kinds' = [t \in 1 .. Len(tables) + 1 |-> tables'[t].what]
    BY <1>4 DEF Kinds
  <2>3. Append(Kinds, what) = [t \in 1 .. Len(tables) + 1 |->
                                 IF t <= Len(tables) THEN Kinds[t] ELSE what]
    <3> DEFINE K == Kinds
               N == Len(tables)
    <3>1. N \in Nat /\ K \in Seq({"part", "raw", "group"}) /\ Len(K) = N
      BY <1>1, <2>1
    <3> HIDE DEF K, N
    <3>2. /\ Append(K, what) \in Seq({"part", "raw", "group"}) /\ Len(Append(K, what)) = N + 1
          /\ \A t \in 1 .. N : Append(K, what)[t] = K[t]
          /\ Append(K, what)[N + 1] = what
      BY <3>1, AppendProperties
    <3>3. Append(K, what) \in [1 .. N + 1 -> {"part", "raw", "group"}]
      <4> DEFINE s == Append(K, what)
                 L == Len(s)
      <4>1. s \in Seq({"part", "raw", "group"}) /\ L = N + 1
        BY <3>2
      <4> HIDE DEF s
      <4>2. s \in [1 .. L -> {"part", "raw", "group"}]
        BY <4>1, LenProperties
      <4>3. QED
        BY <4>1, <4>2 DEF s
    <3>4. \A t \in 1 .. N + 1 : Append(K, what)[t] = IF t <= N THEN K[t] ELSE what
      BY <3>1, <3>2
    <3>5. Append(K, what) = [t \in 1 .. N + 1 |-> IF t <= N THEN K[t] ELSE what]
      BY <3>3, <3>4
    <3>6. QED
      BY <3>5 DEF K, N
  <2>4. \A t \in 1 .. Len(tables) + 1 :
          tables'[t].what = IF t <= Len(tables) THEN Kinds[t] ELSE what
    BY <1>1, <1>2, <1>4 DEF Kinds
  <2>5. QED
    BY <2>2, <2>3, <2>4
<1>12. QED
  BY <1>1, <1>8, <1>9, <1>10, <1>11

LEMMA WriteTablesKeepLInv ==
  ASSUME IInv, LInv, WritePartTable \/ WriteRawTable \/ WriteGroupTable
  PROVE  LInv'
<1>1. /\ Typed /\ StoredApart /\ Laid /\ Ordered
      /\ pos \in Nat /\ Len(parts) \in Nat /\ TableSizes \subseteq Nat
  BY LayoutTypes, LenProperties, EncoderAssumption DEF IInv, LInv, Typed
<1>2. /\ pc \in {"partTable", "rawTable", "groupTable"} /\ header # "full"
      /\ pc' = CASE pc = "partTable" -> "rawTable" [] pc = "rawTable" -> "groupTable"
                  [] pc = "groupTable" -> "header"
      /\ parts' = parts /\ header' = header
  BY <1>1 DEF WritePartTable, WriteRawTable, WriteGroupTable, WriteTable, Ordered, allotted,
     container
<1>3. First \in {<<>>, <<"part">>} /\ First' = First
  BY <1>2 DEF First
<1>4. CASE WritePartTable /\ parts = <<>>
  <2>1. pc = "partTable" /\ UNCHANGED <<chunks, pos, tables>>
    BY <1>4 DEF WritePartTable, stored, container
  <2>2. StoredApart' /\ Laid'
    BY <1>1, <1>2, <2>1 DEF StoredApart, Laid, At4, Tabulating
  <2>3. tables = <<>>
    BY <1>1, <2>1 DEF Laid, Tabulating
  <2>4. Ordered'
    BY <1>2, <1>4, <2>1, <2>3 DEF Ordered, Kinds, First
  <2>5. QED
    BY <2>2, <2>4 DEF LInv
<1>5. CASE ~ (WritePartTable /\ parts = <<>>)
  <2>1. PICK len \in Nat, what \in {"part", "raw", "group"} :
          /\ WriteTable(what, len)
          /\ pos' = Padded(pos + len) \/ (pos' = pos + len /\ pc = "groupTable")
          /\ what = CASE pc = "partTable" -> "part" [] pc = "rawTable" -> "raw"
                       [] pc = "groupTable" -> "group"
          /\ pc = "partTable" => parts # <<>>
    <3>1. CASE WritePartTable
      BY <1>1, <1>5, <3>1 DEF WritePartTable
    <3>2. CASE WriteRawTable
      BY <1>1, <3>2 DEF WriteRawTable
    <3>3. CASE WriteGroupTable
      BY <1>1, <3>3 DEF WriteGroupTable
    <3>4. QED
      BY <3>1, <3>2, <3>3
  <2>2. pos' \in Nat /\ pos' >= pos + len /\ (pc # "groupTable" => pos' % 4 = 0)
    <3>1. pos + len \in Nat
      BY <1>1
    <3>2. /\ Padded(pos + len) \in Nat /\ Padded(pos + len) >= pos + len
          /\ Padded(pos + len) % 4 = 0
      BY <3>1, PaddedTypes
    <3>3. QED
      BY <2>1, <3>1, <3>2
  <2>3. /\ StoredApart' /\ pos' >= HeaderArea
        /\ \A n \in DOMAIN chunks' : At4(chunks[n])' + chunks'[n].len <= pos'
        /\ \A t \in DOMAIN tables' : tables'[t].at + tables'[t].len <= pos'
        /\ Kinds' = Append(Kinds, what)
    BY <1>1, <2>1, <2>2, TableIsApart
  <2>4. Laid'
    BY <1>2, <2>2, <2>3 DEF Laid, Tabulating
  <2>5. Ordered'
    <3>1. CASE pc = "partTable"
      <4>1. Kinds = <<>> /\ First = <<"part">> /\ what = "part" /\ pc' = "rawTable"
        BY <1>1, <1>2, <2>1, <3>1 DEF Kinds, First, Laid, Tabulating
      <4>2. Kinds' = First
        BY <2>3, <4>1
      <4>3. QED
        BY <1>2, <1>3, <4>1, <4>2 DEF Ordered
    <3>2. CASE pc = "rawTable"
      <4>1. Kinds = First /\ what = "raw" /\ pc' = "groupTable"
        BY <1>1, <1>2, <2>1, <3>2 DEF Ordered
      <4>2. Kinds' = First \o <<"raw">>
        BY <1>3, <2>3, <4>1
      <4>3. QED
        BY <1>2, <1>3, <4>1, <4>2 DEF Ordered
    <3>3. CASE pc = "groupTable"
      <4>1. Kinds = First \o <<"raw">> /\ what = "group" /\ pc' = "header"
        BY <1>1, <1>2, <2>1, <3>3 DEF Ordered
      <4>2. Kinds' = First \o <<"raw", "group">>
        BY <1>3, <2>3, <4>1
      <4>3. QED
        BY <1>2, <1>3, <4>1, <4>2 DEF Ordered
    <3>4. QED
      BY <1>2, <3>1, <3>2, <3>3
  <2>6. QED
    BY <2>3, <2>4, <2>5 DEF LInv
<1>6. QED
  BY <1>4, <1>5

(* What the encoder has written lies in a row: header, chunks, then the    *)
(* tables, as far as it has got (encode_iso_to_rvz).                       *)
THEOREM LayoutInvariant == Spec => []LInv
<1>1. Init => LInv
  BY InitIsFresh, FreshLInv
<1>2. IInv /\ LInv /\ [Next]_vars => LInv'
  <2> SUFFICES ASSUME IInv, LInv, [Next]_vars PROVE LInv'
    OBVIOUS
  <2>1. CASE Begin \/ Detect \/ SkipCandidate \/ ReachCandidate \/ ReachEnd \/ SetUp \/ ReadFst
             \/ CreateEntries
    <3>1. UNCHANGED <<chunks, tables, pos>> /\ (header' = header \/ header' = "zero")
      BY <2>1 DEF Begin, Detect, SkipCandidate, ReachCandidate, ReachEnd, SetUp, ReadFst,
         CreateEntries, stored, container
    <3>2. pc \notin Tabulating /\ pc' \notin Tabulating
      BY <2>1 DEF Begin, Detect, SkipCandidate, ReachCandidate, ReachEnd, SetUp, ReadFst,
         CreateEntries, BeginRaw, Tabulating
    <3>3. QED
      BY <3>1, <3>2, QuietKeepsLInv
  <2>2. CASE RawChunk
    <3>1. PICK from, size : Store(from, size)
      BY <2>2 DEF RawChunk
    <3>2. pc \notin Tabulating /\ pc' \notin Tabulating
      BY <2>2 DEF RawChunk, StoringRaw, AfterRaw, Tabulating
    <3>3. QED
      BY <2>2, <3>1, <3>2, StoreKeepsLInv DEF IInv, RawChunk
  <2>3. CASE PartChunk
    <3>1. PICK from, size : Store(from, size)
      BY <2>3 DEF PartChunk
    <3>2. pc \notin Tabulating /\ pc' \notin Tabulating
      BY <2>3 DEF PartChunk, StoringPart, Tabulating
    <3>3. QED
      BY <2>3, <3>1, <3>2, StoreKeepsLInv DEF IInv, PartChunk
  <2>4. CASE WritePartTable \/ WriteRawTable \/ WriteGroupTable
    BY <2>4, WriteTablesKeepLInv
  <2>5. CASE WriteHeader
    BY <2>5, QuietKeepsLInv DEF WriteHeader, allotted, stored
  <2>6. CASE Fail
    BY <2>6, QuietKeepsLInv DEF Fail, Stopped, stored, container
  <2>7. CASE Grow
    BY <2>7, QuietKeepsLInv DEF Grow, allotted, stored, container
  <2>8. CASE UNCHANGED vars
    BY <2>8, QuietKeepsLInv DEF vars, allotted, stored, container
  <2>9. QED
    BY <2>1, <2>2, <2>3, <2>4, <2>5, <2>6, <2>7, <2>8 DEF Next, Encode
<1>3. QED
  BY <1>1, <1>2, EncoderInvariant, PTL DEF Spec

(* No chunk or table overlaps another or the header, and the positions in  *)
(* the group table, which count words, are exact.                          *)
THEOREM NothingOverlaps == Spec => []StoredApart
<1>1. LInv => StoredApart
  BY DEF LInv
<1>2. QED
  BY <1>1, LayoutInvariant, PTL

(* A container with a header is complete: stopping anywhere before leaves  *)
(* one that no reader takes for finished.                                  *)
THEOREM HeaderIsLast == Spec => []HeaderComesLast
<1>1. IInv /\ LInv => HeaderComesLast
  <2> SUFFICES ASSUME IInv, LInv, header = "full"
               PROVE  /\ Len(chunks) = groupIndex
                      /\ Kinds = First \o <<"raw", "group">>
    BY DEF HeaderComesLast, Kinds, First
  <2>1. pc = "done" /\ Kinds = First \o <<"raw", "group">>
    BY DEF LInv, Ordered
  <2>2. Balanced
    BY <2>1, LedgerIdle DEF IInv, Idle
  <2>3. QED
    BY <2>1, <2>2 DEF Balanced
<1>2. QED
  BY <1>1, EncoderInvariant, LayoutInvariant, PTL

-----------------------------------------------------------------------------

(* The sizes of the code: the disc header is part of the first block, and  *)
(* no data offset of the discs needs more than its 32 bits.                *)
CodeRanges ==
  /\ DiscHeader < Block
  /\ \A d \in Isos : \A n \in DOMAIN d.table : d.table[n].dataOffset < OffsetRange

\* The chunks `cs' hold the disc up to `f'; a point inside the disc header is
\* passed without storing anything.
ReachOf(cs, f) ==
  \A x \in 0 .. f - 1 : \E n \in DOMAIN cs : cs[n].from <= x /\ x < cs[n].from + cs[n].size
ReachIf(cs, f) == f > DiscHeader => ReachOf(cs, f)

InRange == {c \in Partitions : c.offset < iso.size /\ c.dataOffset < OffsetRange}
WithinDisc ==
  /\ \A n \in DOMAIN chunks : chunks[n].from + chunks[n].size <= iso.size
  /\ table \in Seq(InRange)
  /\ lastEnd <= iso.size
\* The raw region in hand ends at `to', and the disc is stored up to its
\* next chunk.
RawFront(to) ==
  /\ region.ng = CeilDiv(LogicalSize(region), Chunk)
  /\ region.offset + region.size = to /\ to <= iso.size
  /\ ReachOf(chunks, AlignDown(region.offset) + k * Chunk)
\* The partition set up is cut at blocks.
PartSet ==
  /\ part.offset + part.dataOffset = part.start
  /\ part.start % Block = 0 /\ part.end <= iso.size
  /\ part.split % Block = 0 \/ part.split = part.end
\* The disc is stored up to the next chunk of the data entry in hand, and the
\* entries of a partition meet.
PartFront ==
  /\ lastEnd = (parts[Len(parts)].fs + parts[Len(parts)].ns) * Block
  /\ ReachOf(chunks, (region.fs + k * ChunkBlocks) * Block)
  /\ pc = "data0" => region.fs + region.ns = parts[Len(parts)].fs

WalkFront ==
  /\ pc \in {"begin", "detect"} => lastEnd = 0
  /\ pc = "next" => ReachIf(chunks, lastEnd)
  /\ pc = "setup" => ReachIf(chunks, Head(table).offset)
  /\ pc = "fst" => ReachIf(chunks, part.offset)
  /\ pc = "entries" => ReachOf(chunks, part.start)
  /\ pc \in {"partTable", "rawTable", "groupTable", "header", "done"} => ReachIf(chunks, iso.size)
StoreFront ==
  /\ pc = "before" => RawFront(Head(table).offset)
  /\ pc = "head" => RawFront(part.start)
  /\ pc = "rest" => RawFront(iso.size)
  /\ StoringPart => PartFront
CInv ==
  /\ WithinDisc
  /\ pc \in {"fst", "head", "entries"} => PartSet
  /\ WalkFront /\ StoreFront

-----------------------------------------------------------------------------
LEMMA ReachStore ==
  ASSUME Typed, NEW from \in Nat, NEW size \in Nat, Store(from, size)
  PROVE  /\ \A f \in Nat : ReachOf(chunks, f) => ReachOf(chunks', f)
         /\ ReachOf(chunks, from) => ReachOf(chunks', from + size)
         /\ \A n \in DOMAIN chunks' :
              \/ n \in DOMAIN chunks /\ chunks'[n] = chunks[n]
              \/ chunks'[n].from = from /\ chunks'[n].size = size
<1>1. /\ chunks' \in Seq(Stored) /\ Len(chunks) \in Nat /\ Len(chunks') = Len(chunks) + 1
      /\ \A n \in 1 .. Len(chunks) : chunks'[n] = chunks[n]
      /\ chunks'[Len(chunks) + 1].from = from
      /\ chunks'[Len(chunks) + 1].size = size
  BY StoreTypes
<1>2. chunks \in Seq(Stored)
  BY DEF Typed, Stored
<1>3. /\ DOMAIN chunks = 1 .. Len(chunks) /\ DOMAIN chunks' = 1 .. Len(chunks) + 1
  BY <1>1, <1>2, LenProperties
<1>4. \A f \in Nat : ReachOf(chunks, f) => ReachOf(chunks', f)
  <2>. SUFFICES ASSUME NEW f \in Nat, ReachOf(chunks, f), NEW x \in 0 .. f - 1
                PROVE  \E n \in DOMAIN chunks' :
                         chunks'[n].from <= x /\ x < chunks'[n].from + chunks'[n].size
    BY DEF ReachOf
  <2>1. PICK n \in DOMAIN chunks : chunks[n].from <= x /\ x < chunks[n].from + chunks[n].size
    BY DEF ReachOf
  <2>2. n \in DOMAIN chunks' /\ chunks'[n] = chunks[n]
    BY <1>1, <1>3, <2>1
  <2>. QED
    BY <2>1, <2>2
<1>5. ASSUME ReachOf(chunks, from) PROVE ReachOf(chunks', from + size)
  <2>. SUFFICES ASSUME NEW x \in 0 .. from + size - 1
                PROVE  \E n \in DOMAIN chunks' :
                         chunks'[n].from <= x /\ x < chunks'[n].from + chunks'[n].size
    BY DEF ReachOf
  <2>1. CASE x < from
    <3>1. ReachOf(chunks', from)
      BY <1>4, <1>5
    <3>2. x \in 0 .. from - 1
      BY <2>1
    <3>. QED
      BY <3>1, <3>2 DEF ReachOf
  <2>2. CASE x >= from
    <3>1. Len(chunks) + 1 \in DOMAIN chunks'
      BY <1>1, <1>3
    <3>2. from <= x /\ x < from + size
      BY <2>2
    <3>. QED
      BY <1>1, <3>1, <3>2
  <2>. QED
    BY <2>1, <2>2
<1>. QED
  BY <1>1, <1>3, <1>4, <1>5

LEMMA ReachLess ==
  ASSUME NEW cs, NEW f \in Nat, NEW g \in Nat, g <= f, ReachOf(cs, f)
  PROVE  ReachOf(cs, g)
BY DEF ReachOf

LEMMA AlignDownBelow ==
  ASSUME NEW x \in Nat
  PROVE  /\ x \in Nat /\ AlignDown(x) \in Nat /\ AlignDown(x) <= x
         /\ x % Block \in Nat /\ AlignDown(x) + (x % Block) = x
<1> DEFINE r == x % Block
<1>1. r \in Nat /\ AlignDown(x) \in Nat
  BY AlignDownIsBlocks, ConstantTypes
<1>2. AlignDown(x) = x - r
  BY DEF AlignDown
<1> HIDE DEF r
<1>3. AlignDown(x) <= x /\ AlignDown(x) + r = x
  BY <1>1, <1>2
<1>. QED
  BY <1>1, <1>3 DEF r

(* A raw region begins where the one before it ended.                      *)
LEMMA RawBegins ==
  ASSUME CodeRanges, IInv, IInv', NEW offset \in Nat, NEW size \in Nat,
         offset + size <= iso.size,
         NEW during \in {"before", "head", "rest"}, NEW after, after # during,
         BeginRaw(offset, size, during, after), ReachIf(chunks, offset),
         UNCHANGED <<iso, chunks>>
  PROVE  \/ pc' = after /\ ReachIf(chunks', offset + size)
         \/ pc' = during /\ RawFront(offset + size)' /\ DiscHeader < offset + size
<1> DEFINE skip == IF offset < DiscHeader THEN Lesser(DiscHeader - offset, size) ELSE 0
           o == offset + skip
           s == size - skip
<1>1. DiscHeader \in Nat /\ Block \in Nat \ {0} /\ DiscHeader < Block
  BY ConstantTypes DEF CodeRanges
<1>2. skip \in Nat /\ skip <= size /\ s \in Nat /\ o \in Nat /\ o + s = offset + size
  BY <1>1 DEF Lesser
<1>3. CASE size = skip
  <2>1. pc' = after
    BY <1>3 DEF BeginRaw
  <2>2. size = 0 \/ offset + size <= DiscHeader
    BY <1>1, <1>3 DEF Lesser
  <2>3. ReachIf(chunks, offset + size)
    BY <1>1, <2>2 DEF ReachIf
  <2>. QED
    BY <2>1, <2>3
<1>4. CASE size # skip
  <2>1. /\ pc' = during /\ k' = 0
        /\ region' = [kind |-> "raw", key |-> NoKey, offset |-> o, size |-> s,
                      gi |-> groupIndex, ng |-> RawChunks(o, s)]
    BY <1>4 DEF BeginRaw
  <2>2. o >= DiscHeader /\ (o = DiscHeader \/ o = offset) /\ s > 0
    BY <1>1, <1>2, <1>4 DEF Lesser
  <2>3. region'.offset = o /\ region'.size = s
    BY <2>1
  <2>4. region'.ng = CeilDiv(LogicalSize(region'), Chunk)
    BY <2>1 DEF RawChunks, LogicalSize
  <2> HIDE DEF o, s
  <2>5. AlignDown(o) \in Nat /\ AlignDown(o) <= o /\ o \in Nat
    BY <1>2, AlignDownBelow
  <2>6. ReachOf(chunks, AlignDown(o))
    <3>1. CASE o = DiscHeader
      <4>1. AlignDown(o) = 0
        BY <1>1, <3>1 DEF AlignDown
      <4>. QED
        BY <4>1 DEF ReachOf
    <3>2. CASE o # DiscHeader
      <4>1. ReachOf(chunks, offset) /\ o = offset
        BY <1>1, <2>2, <2>5, <3>2 DEF ReachIf
      <4>. QED
        BY <2>5, <4>1, ReachLess
    <3>. QED
      BY <3>1, <3>2
  <2>7. Chunk \in Nat /\ AlignDown(o) + 0 * Chunk = AlignDown(o)
    BY <2>5, ConstantTypes
  <2>8. RawFront(offset + size)'
    BY <1>2, <2>1, <2>3, <2>4, <2>6, <2>7 DEF RawFront
  <2>9. DiscHeader < offset + size
    BY <1>1, <1>2, <2>2, <2>5
  <2>. QED
    BY <2>1, <2>8, <2>9
<1>. QED
  BY <1>3, <1>4

LEMMA HeadInRange ==
  ASSUME WithinDisc, table # <<>>
  PROVE  /\ Tail(table) \in Seq(InRange)
         /\ Head(table) \in InRange
         /\ Head(table).offset < iso.size /\ Head(table).dataOffset < OffsetRange
<1>1. Tail(table) \in Seq(InRange) /\ Head(table) \in InRange
  BY HeadTailProperties DEF WithinDisc
<1>. QED
  BY <1>1 DEF InRange

LEMMA WalksInRange ==
  ASSUME Typed, CodeRanges, NEW lost, NEW t \in Walks(lost)
  PROVE  t \in Seq(InRange)
<1>1. \A n \in DOMAIN iso.table : iso.table[n] \in Partitions
  BY DiscTypes, ElementOfSeq
<1>2. \A n \in DOMAIN iso.table : iso.table[n].dataOffset < OffsetRange
  BY DEF Typed, CutDiscs, CodeRanges
<1>3. \A n \in DOMAIN iso.table :
        iso.table[n].offset < iso.size => iso.table[n] \in InRange
  BY <1>1, <1>2 DEF InRange
<1>. QED
  BY <1>3, WalksTake

-----------------------------------------------------------------------------
LEMMA BeginCovers ==
  ASSUME CodeRanges, IInv, CInv, Begin \/ Detect \/ SkipCandidate
  PROVE  CInv'
<1>1. /\ pc' \in {"detect", "next"}
      /\ UNCHANGED <<iso, part, lastEnd, chunks>>
      /\ pc \in {"begin", "detect", "next"}
      /\ pc' = "detect" => pc = "begin"
  BY DEF Begin, Detect, SkipCandidate, plan, stored
<1>2. table' \in Seq(InRange)
  <2>1. CASE Begin
    BY <2>1 DEF Begin, plan, CInv, WithinDisc
  <2>2. CASE Detect
    <3>1. CASE table' = <<>>
      BY <3>1
    <3>2. CASE table' # <<>>
      <4>1. PICK lost \in SUBSET {iso.table[n].grp : n \in DOMAIN iso.table} :
              table' \in Walks(lost)
        BY <2>2, <3>2 DEF Detect
      <4>. QED
        BY <4>1, WalksInRange DEF IInv
    <3>. QED
      BY <3>1, <3>2
  <2>3. CASE SkipCandidate
    BY <2>3, HeadInRange DEF SkipCandidate, CInv
  <2>. QED
    BY <2>1, <2>2, <2>3
<1>3. InRange' = InRange
  BY <1>1 DEF InRange
<1>4. WithinDisc'
  BY <1>1, <1>2, <1>3 DEF CInv, WithinDisc
<1>5. ReachIf(chunks, lastEnd)
  <2>1. CASE pc \in {"begin", "detect"}
    <3>1. lastEnd = 0
      BY <2>1 DEF CInv, WalkFront
    <3>. QED
      BY <3>1 DEF ReachIf, ReachOf
  <2>2. CASE pc = "next"
    BY <2>2 DEF CInv, WalkFront
  <2>. QED
    BY <1>1, <2>1, <2>2
<1>6. WalkFront' /\ StoreFront'
  BY <1>1, <1>5 DEF CInv, WalkFront, StoreFront, StoringPart
<1>. QED
  BY <1>1, <1>4, <1>6 DEF CInv

LEMMA ReachCovers ==
  ASSUME CodeRanges, IInv, IInv', CInv, ReachCandidate \/ ReachEnd
  PROVE  CInv'
<1>1. /\ iso.size \in Nat /\ lastEnd \in Nat /\ lastEnd <= iso.size /\ pc = "next"
      /\ ReachIf(chunks, lastEnd) /\ Typed
  BY DiscTypes DEF IInv, Typed, CInv, WithinDisc, WalkFront, ReachCandidate, ReachEnd
<1>2. UNCHANGED <<iso, table, part, lastEnd, chunks>>
  BY DEF ReachCandidate, ReachEnd, plan, stored
<1>3. WithinDisc'
  BY <1>2 DEF CInv, WithinDisc, InRange
<1>4. CASE ReachCandidate
  <2>1. table # <<>> /\ Head(table).offset >= lastEnd
    BY <1>4 DEF ReachCandidate
  <2>2. PICK to \in Nat : to = Head(table).offset /\ to >= lastEnd /\ to < iso.size
    BY <1>1, <2>1, HeadTypes, HeadInRange DEF CInv
  <2>3. to - lastEnd \in Nat /\ lastEnd + (to - lastEnd) = to /\ to <= iso.size
    BY <1>1, <2>2
  <2>4. BeginRaw(lastEnd, to - lastEnd, "before", "setup")
    BY <1>4, <2>2 DEF ReachCandidate
  <2>5. \/ pc' = "setup" /\ ReachIf(chunks', to)
        \/ pc' = "before" /\ RawFront(to)'
    BY <1>1, <1>2, <2>3, <2>4, RawBegins
  <2>6. Head(table') .offset = to /\ RawFront(to)' = RawFront(Head(table).offset)'
    BY <1>2, <2>2 DEF RawFront
  <2>7. WalkFront' /\ StoreFront'
    BY <1>2, <2>2, <2>5 DEF WalkFront, StoreFront, StoringPart, RawFront
  <2>. QED
    BY <1>3, <2>5, <2>7 DEF CInv
<1>5. CASE ReachEnd
  <2>1. Lesser(lastEnd, iso.size) = lastEnd /\ iso.size - lastEnd \in Nat
        /\ lastEnd + (iso.size - lastEnd) = iso.size
    BY <1>1 DEF Lesser
  <2>2. BeginRaw(lastEnd, iso.size - lastEnd, "rest", "partTable")
    BY <1>5, <2>1 DEF ReachEnd
  <2>3. PICK to \in Nat : to = iso.size
    BY <1>1
  <2>4. \/ pc' = "partTable" /\ ReachIf(chunks', to)
        \/ pc' = "rest" /\ RawFront(to)'
    BY <1>1, <1>2, <2>1, <2>2, <2>3, RawBegins
  <2>5. WalkFront' /\ StoreFront'
    BY <1>2, <2>3, <2>4 DEF WalkFront, StoreFront, StoringPart, RawFront
  <2>. QED
    BY <1>3, <2>4, <2>5 DEF CInv
<1>. QED
  BY <1>4, <1>5

LEMMA SetUpCovers ==
  ASSUME CodeRanges, IInv, CInv, SetUp
  PROVE  CInv'
<1> DEFINE c == Head(table)
           start == c.offset + c.dataOffset
<1>1. /\ table # <<>> /\ Typed /\ pc = "setup" /\ table \in Seq(InRange)
      /\ ReachIf(chunks, c.offset)
  BY DEF IInv, CandidateInHand, SetUp, CInv, WithinDisc, WalkFront
<1>2. /\ c.offset \in Nat /\ c.dataOffset \in Nat /\ c.dataSize \in Nat /\ start \in Nat
      /\ c.offset < iso.size /\ c.dataOffset < OffsetRange /\ Tail(table) \in Seq(InRange)
      /\ iso.size \in Nat
  BY <1>1, HeadTypes, HeadInRange, DiscTypes DEF CInv
<1>3. UNCHANGED <<iso, chunks>> /\ lastEnd' = c.offset /\ table' \in {table, Tail(table)}
  BY DEF SetUp, stored
<1>4. WithinDisc'
  <2>1. InRange' = InRange
    BY <1>3 DEF InRange
  <2>2. table' \in Seq(InRange)
    BY <1>1, <1>2, <1>3
  <2>. QED
    BY <1>2, <1>3, <2>1, <2>2 DEF CInv, WithinDisc
<1>5. CASE Rejected(c)
  <2>1. pc' = "next"
    BY <1>5 DEF SetUp, Overruns
  <2>2. WalkFront' /\ StoreFront'
    BY <1>1, <1>3, <2>1 DEF WalkFront, StoreFront, StoringPart
  <2>. QED
    BY <1>4, <2>1, <2>2 DEF CInv
<1>6. CASE Overruns(c)
  <2>1. pc' = "panic"
    BY <1>6 DEF SetUp, Overruns
  <2>2. WalkFront' /\ StoreFront'
    BY <2>1 DEF WalkFront, StoreFront, StoringPart
  <2>. QED
    BY <1>4, <2>1, <2>2 DEF CInv
<1>7. CASE ~ Rejected(c) /\ ~ Overruns(c)
  <2>1. /\ pc' = "fst"
        /\ part' = [key |-> c.key, offset |-> c.offset,
                    dataOffset |-> c.dataOffset % OffsetRange,
                    start |-> start, end |-> Lesser(start + c.dataSize, iso.size),
                    split |-> start]
    BY <1>7 DEF SetUp
  <2>2. start % Block = 0
    BY <1>7 DEF Rejected
  <2>3. c.dataOffset % OffsetRange = c.dataOffset
    <3>1. PICK x, r \in Nat : x = c.dataOffset /\ r = OffsetRange /\ x < r
      BY <1>2, ConstantTypes
    <3>. QED
      BY <3>1
  <2>4. Lesser(start + c.dataSize, iso.size) <= iso.size
    BY <1>2 DEF Lesser
  <2>5. /\ part'.offset = c.offset /\ part'.dataOffset = c.dataOffset /\ part'.start = start
        /\ part'.end = Lesser(start + c.dataSize, iso.size) /\ part'.split = start
    BY <2>1, <2>3
  <2>6. PartSet'
    BY <1>3, <2>2, <2>4, <2>5 DEF PartSet
  <2>7. WalkFront' /\ StoreFront'
    BY <1>1, <1>3, <2>1, <2>5 DEF WalkFront, StoreFront, StoringPart
  <2>. QED
    BY <1>4, <2>6, <2>7 DEF CInv
<1>. QED
  BY <1>5, <1>6, <1>7

LEMMA SplitAligned ==
  ASSUME NEW p, p.start \in Nat, p.end \in Nat, p.start % Block = 0, NEW fst \in Nat
  PROVE  SplitAt(p, fst) % Block = 0 \/ SplitAt(p, fst) = p.end
<1> DEFINE m == CeilDiv(fst, GroupBlocks * Block) * GroupBlocks
<1>1. m \in Nat
  <2>1. PICK gb \in Nat \ {0} : gb = GroupBlocks * Block
    BY ConstantTypes
  <2>2. CeilDiv(fst, gb) \in Nat
    BY <2>1, CeilDivBounds
  <2>. QED
    BY <2>1, <2>2, ConstantTypes
<1>2. SplitAt(p, fst) = Lesser(p.end, p.start + m * Block)
  BY DEF SplitAt
<1> HIDE DEF m
<1>3. (p.start + m * Block) % Block = 0
  <2>1. PICK s, b \in Nat : s = p.start /\ b = Block /\ b # 0
    BY ConstantTypes
  <2>2. (s + m * b) % b = s % b
    BY <1>1, <2>1, ModTurns
  <2>. QED
    BY <2>1, <2>2
<1>. QED
  BY <1>2, <1>3 DEF Lesser

LEMMA AlignedPastHeader ==
  ASSUME CodeRanges, NEW cs, NEW f \in Nat, f % Block = 0, ReachIf(cs, f)
  PROVE  ReachOf(cs, f)
<1>1. DiscHeader \in Nat /\ Block \in Nat \ {0} /\ DiscHeader < Block
  BY ConstantTypes DEF CodeRanges
<1>2. CASE f > DiscHeader
  BY <1>2 DEF ReachIf
<1>3. CASE ~ (f > DiscHeader)
  <2>1. f = 0
    BY <1>1, <1>3
  <2>. QED
    BY <2>1 DEF ReachOf
<1>. QED
  BY <1>2, <1>3

LEMMA ReadFstCovers ==
  ASSUME CodeRanges, IInv, IInv', CInv, ReadFst
  PROVE  CInv'
<1>1. /\ part \in [key : Keys \cup {NoKey}, offset : Nat, dataOffset : Nat,
                   start : Nat, end : Nat, split : Nat]
      /\ part.start <= part.split /\ part.split <= part.end
      /\ table # <<>> /\ Typed /\ pc = "fst"
  BY DEF IInv, Typed, DataSplit, CandidateInHand, ReadFst
<1>2. /\ PartSet /\ ReachIf(chunks, part.offset)
  BY <1>1 DEF CInv, WalkFront
<1>3. PICK fst \in Nat : part' = [part EXCEPT !.split = SplitAt(part, fst)]
  BY <1>1, HeadTypes DEF ReadFst
<1>4. PICK o, d, s, e \in Nat : o = part.offset /\ d = part.dataOffset /\ s = part.start
                                /\ e = part.end
  BY <1>1
<1>5. /\ part'.offset = o /\ part'.dataOffset = d /\ part'.start = s /\ part'.end = e
      /\ part'.split = SplitAt(part, fst)
  BY <1>1, <1>3, <1>4
<1>6. UNCHANGED <<iso, table, lastEnd, chunks>>
  BY DEF ReadFst, stored
<1>7. WithinDisc'
  BY <1>6 DEF CInv, WithinDisc, InRange
<1>8. o + d = s /\ s % Block = 0 /\ s <= e /\ e <= iso.size /\ iso.size \in Nat
  BY <1>1, <1>2, <1>4, DiscTypes DEF PartSet
<1>9. SplitAt(part, fst) % Block = 0 \/ SplitAt(part, fst) = e
  BY <1>4, <1>8, SplitAligned
<1>10. PartSet'
  BY <1>5, <1>6, <1>8, <1>9 DEF PartSet
<1>11. BeginRaw(o, d, "head", "entries") /\ ReachIf(chunks, o) /\ o + d <= iso.size
  BY <1>2, <1>4, <1>8 DEF ReadFst
<1>12. \/ pc' = "entries" /\ ReachIf(chunks', s)
       \/ pc' = "head" /\ RawFront(s)'
  <2>1. \/ pc' = "entries" /\ ReachIf(chunks', o + d)
        \/ pc' = "head" /\ RawFront(o + d)'
    BY <1>6, <1>11, RawBegins
  <2>. QED
    BY <1>8, <2>1 DEF RawFront
<1>13. pc' = "entries" => ReachOf(chunks', s)
  BY <1>8, <1>12, AlignedPastHeader
<1>14. WalkFront' /\ StoreFront'
  BY <1>5, <1>12, <1>13 DEF WalkFront, StoreFront, StoringPart, RawFront
<1>. QED
  BY <1>7, <1>10, <1>12, <1>14 DEF CInv

LEMMA BlocksOf ==
  ASSUME NEW x \in Nat
  PROVE  /\ x \div Block \in Nat /\ (x \div Block) * Block <= x
         /\ x % Block = 0 => (x \div Block) * Block = x
<1>1. AlignDown(x) = (x \div Block) * Block /\ x \div Block \in Nat
  BY AlignDownIsBlocks
<1>2. AlignDown(x) <= x /\ AlignDown(x) \in Nat /\ AlignDown(x) + (x % Block) = x
  BY AlignDownBelow
<1>. QED
  BY <1>1, <1>2

(* Two data entries meet at a block, the second one begins where the first *)
(* one ends, and neither reaches past the data.                            *)
LEMMA EntriesMeet ==
  ASSUME NEW start \in Nat, NEW split \in Nat, NEW end \in Nat, start <= split, split <= end,
         start % Block = 0, split % Block = 0 \/ split = end
  PROVE  /\ (start \div Block) * Block = start
         /\ (start \div Block) + ((split - start) \div Block) = split \div Block
         /\ ((split \div Block) + ((end - split) \div Block)) * Block <= end
<1>1. PICK b \in Nat \ {0} : b = Block
  BY ConstantTypes
<1>2. PICK q0, q1 \in Nat : q0 = start \div Block /\ q1 = split \div Block
  BY BlocksOf
<1>3. PICK n0, n1 \in Nat : n0 = (split - start) \div Block /\ n1 = (end - split) \div Block
  <2>1. split - start \in Nat /\ end - split \in Nat
    OBVIOUS
  <2>. QED
    BY <2>1, BlocksOf
<1>4. b * q0 = start
  BY <1>1, <1>2, BlocksOf
<1>5. PICK r \in 0 .. b - 1 : split = b * q1 + r
  <2>1. split = b * (split \div b) + (split % b) /\ split % b \in 0 .. b - 1
    BY <1>1, DivMod
  <2>. QED
    BY <1>1, <1>2, <2>1
<1>6. q0 + n0 = q1
  <2>1. PICK s \in 0 .. b - 1 : split - start = b * n0 + s
    <3>1. PICK d \in Nat : d = split - start
      OBVIOUS
    <3>2. d = b * (d \div b) + (d % b) /\ d % b \in 0 .. b - 1
      BY <1>1, DivMod
    <3>. QED
      BY <1>1, <1>3, <3>1, <3>2
  <2>2. b * (q0 + n0) = b * q0 + b * n0
    BY <1>1, <1>2, <1>3
  <2>3. PICK m \in Nat : m = q0 + n0
    BY <1>2, <1>3
  <2>4. b * m + s = b * q1 + r
    <3>1. b * q0 \in Nat /\ b * n0 \in Nat /\ b * q1 \in Nat
      BY <1>1, <1>2, <1>3
    <3>. QED
      BY <1>4, <1>5, <2>1, <2>2, <2>3, <3>1
  <2>. QED
    BY <1>1, <1>2, <1>5, <2>1, <2>3, <2>4, DivModUnique
<1>7. (q1 + n1) * b <= end
  <2>1. (q1 + n1) * b = q1 * b + n1 * b
    BY <1>1, <1>2, <1>3
  <2>2. q1 * b \in Nat /\ n1 * b \in Nat
    BY <1>1, <1>2, <1>3
  <2>3. q1 * b <= split
    BY <1>1, <1>2, BlocksOf
  <2>4. n1 * b <= end - split
    <3>1. PICK d \in Nat : d = end - split
      OBVIOUS
    <3>. QED
      BY <1>1, <1>3, <3>1, BlocksOf
  <2>. QED
    BY <2>1, <2>2, <2>3, <2>4
<1>. QED
  BY <1>1, <1>2, <1>3, <1>4, <1>6, <1>7

(* The two data entries of a partition begin with its data, and meet.      *)
LEMMA EntriesCreated ==
  ASSUME IInv, PartSet, CreateEntries
  PROVE  \E e0, e1 \in PartEntries :
           /\ e0.fs * Block = part.start /\ e0.fs + e0.ns = e1.fs
           /\ (e1.fs + e1.ns) * Block <= part.end
           /\ parts' = parts \o <<e0, e1>>
           /\ e0.gi = groupIndex /\ e1.gi = groupIndex + e0.ng
           /\ groupIndex' = groupIndex + e0.ng + e1.ng
           /\ lastEnd' = (e1.fs + e1.ns) * Block
           /\ \/ e0.ns > 0 /\ pc' = "data0" /\ region' = e0
              \/ e0.ns = 0 /\ e1.ns > 0 /\ pc' = "data1" /\ region' = e1
              \/ e0.ns = 0 /\ e1.ns = 0 /\ pc' = "next"
<1>1. /\ part.key \in Keys /\ part.start \in Nat /\ part.split \in Nat /\ part.end \in Nat
      /\ part.start <= part.split /\ part.split <= part.end
      /\ Typed /\ groupIndex \in Nat
  BY DEF IInv, Typed, DataSplit, CreateEntries
<1>2. PICK start, split, end \in Nat :
        /\ start = part.start /\ split = part.split /\ end = part.end
        /\ start <= split /\ split <= end
        /\ start % Block = 0 /\ (split % Block = 0 \/ split = end)
  BY <1>1 DEF PartSet
<1>3. PICK q0, n0, q1, n1 \in Nat :
        /\ q0 = start \div Block /\ n0 = (split - start) \div Block
        /\ q1 = split \div Block /\ n1 = (end - split) \div Block
  <2>1. split - start \in Nat /\ end - split \in Nat
    BY <1>2
  <2>. QED
    BY <1>2, <2>1, BlocksOf
<1>4. q0 * Block = start /\ q0 + n0 = q1 /\ (q1 + n1) * Block <= end
  BY <1>2, <1>3, EntriesMeet
<1> DEFINE e0 == Entry(part.key, start, split - start, groupIndex)
           e1 == Entry(part.key, split, end - split, groupIndex + e0.ng)
<1>5. split - start \in Nat /\ end - split \in Nat
  BY <1>2
<1>6. e0 \in PartEntries
  BY <1>1, <1>5, EntryTypes
<1>7. e0.ng \in Nat /\ groupIndex + e0.ng \in Nat
  <2> HIDE DEF e0
  <2>. QED
    BY <1>1, <1>6, PartEntryTypes
<1>8. e1 \in PartEntries
  <2> DEFINE gi == groupIndex + e0.ng
  <2>1. gi \in Nat
    BY <1>7
  <2> HIDE DEF gi
  <2>2. Entry(part.key, split, end - split, gi) \in PartEntries
    BY <1>1, <1>5, <2>1, EntryTypes
  <2>. QED
    BY <2>2 DEF gi
<1>9. /\ e0.fs = q0 /\ e0.ns = n0 /\ e1.fs = q1 /\ e1.ns = n1
      /\ e0.gi = groupIndex /\ e1.gi = groupIndex + e0.ng
  BY <1>3 DEF Entry
<1>10. /\ parts' = parts \o <<e0, e1>>
       /\ groupIndex' = groupIndex + e0.ng + e1.ng
       /\ lastEnd' = (e1.fs + e1.ns) * Block
       /\ \/ e0.ns > 0 /\ pc' = "data0" /\ region' = e0
          \/ e0.ns = 0 /\ e1.ns > 0 /\ pc' = "data1" /\ region' = e1
          \/ e0.ns = 0 /\ e1.ns = 0 /\ pc' = "next"
  BY <1>2 DEF CreateEntries
<1> HIDE DEF e0, e1
<1>11. /\ e0.fs * Block = part.start /\ e0.fs + e0.ns = e1.fs
       /\ (e1.fs + e1.ns) * Block <= part.end
  BY <1>2, <1>4, <1>9
<1>. QED
  BY <1>6, <1>8, <1>9, <1>10, <1>11

LEMMA CreateEntriesCovers ==
  ASSUME CodeRanges, IInv, CInv, CreateEntries
  PROVE  CInv'
<1>1. /\ part.start \in Nat /\ part.end \in Nat /\ iso.size \in Nat
      /\ table # <<>> /\ Typed /\ pc = "entries" /\ parts \in Seq(PartEntries)
  BY DiscTypes DEF IInv, Typed, CandidateInHand, CreateEntries
<1>2. PartSet /\ ReachOf(chunks, part.start) /\ table \in Seq(InRange)
      /\ Tail(table) \in Seq(InRange) /\ part.end <= iso.size
  BY <1>1, HeadInRange DEF CInv, WalkFront, WithinDisc, PartSet
<1>3. UNCHANGED <<iso, part, chunks>> /\ table' \in {table, Tail(table)} /\ k' = 0
  BY DEF CreateEntries, stored
<1>4. PICK e0, e1 \in PartEntries :
        /\ e0.fs * Block = part.start /\ e0.fs + e0.ns = e1.fs
        /\ (e1.fs + e1.ns) * Block <= part.end
        /\ parts' = parts \o <<e0, e1>>
        /\ lastEnd' = (e1.fs + e1.ns) * Block
        /\ \/ e0.ns > 0 /\ pc' = "data0" /\ region' = e0
           \/ e0.ns = 0 /\ e1.ns > 0 /\ pc' = "data1" /\ region' = e1
           \/ e0.ns = 0 /\ e1.ns = 0 /\ pc' = "next"
  BY <1>2, EntriesCreated
<1>5. e0.fs \in Nat /\ e0.ns \in Nat /\ e1.fs \in Nat /\ e1.ns \in Nat
  BY PartEntryTypes
<1>6. parts'[Len(parts')] = e1
  BY <1>1, <1>4, PairAppended
<1>7. lastEnd' <= iso.size
  <2>1. (e1.fs + e1.ns) * Block \in Nat
    BY <1>5, ConstantTypes
  <2>. QED
    BY <1>1, <1>2, <1>4, <2>1
<1>8. WithinDisc'
  <2>1. InRange' = InRange /\ table' \in Seq(InRange)
    BY <1>2, <1>3 DEF InRange
  <2>. QED
    BY <1>3, <1>7, <2>1 DEF CInv, WithinDisc
<1>9. 0 * ChunkBlocks = 0
  BY ConstantTypes
<1>10. CASE pc' = "data0"
  <2>1. region' = e0
    BY <1>4, <1>10
  <2>2. (region'.fs + k' * ChunkBlocks) * Block = part.start
    BY <1>3, <1>4, <1>5, <1>9, <2>1
  <2>3. PartFront'
    BY <1>2, <1>3, <1>4, <1>6, <2>1, <2>2 DEF PartFront
  <2>4. WalkFront' /\ StoreFront'
    BY <1>10, <2>3 DEF WalkFront, StoreFront, StoringPart
  <2>. QED
    BY <1>8, <1>10, <2>4 DEF CInv
<1>11. CASE pc' = "data1"
  <2>1. region' = e1 /\ e1.fs = e0.fs
    BY <1>4, <1>5, <1>11
  <2>2. (region'.fs + k' * ChunkBlocks) * Block = part.start
    BY <1>3, <1>4, <1>5, <1>9, <2>1
  <2>3. PartFront'
    BY <1>2, <1>3, <1>4, <1>6, <1>11, <2>2 DEF PartFront
  <2>4. WalkFront' /\ StoreFront'
    BY <1>11, <2>3 DEF WalkFront, StoreFront, StoringPart
  <2>. QED
    BY <1>8, <1>11, <2>4 DEF CInv
<1>12. CASE pc' = "next"
  <2>1. e1.fs + e1.ns = e0.fs
    BY <1>4, <1>5, <1>12
  <2>2. lastEnd' = part.start
    BY <1>4, <2>1
  <2>3. WalkFront' /\ StoreFront'
    BY <1>2, <1>3, <1>12, <2>2 DEF WalkFront, StoreFront, StoringPart, ReachIf
  <2>. QED
    BY <1>8, <1>12, <2>3 DEF CInv
<1>. QED
  BY <1>4, <1>10, <1>11, <1>12

LEMMA StoreWithin ==
  ASSUME Typed, WithinDisc, NEW from \in Nat, NEW size \in Nat, Store(from, size),
         from + size <= iso.size, UNCHANGED iso
  PROVE  \A n \in DOMAIN chunks' : chunks'[n].from + chunks'[n].size <= iso'.size
<1>. SUFFICES ASSUME NEW n \in DOMAIN chunks'
              PROVE  chunks'[n].from + chunks'[n].size <= iso.size
  OBVIOUS
<1>1. \/ n \in DOMAIN chunks /\ chunks'[n] = chunks[n]
      \/ chunks'[n].from = from /\ chunks'[n].size = size
  BY ReachStore
<1>. QED
  BY <1>1 DEF WithinDisc

LEMMA RawFrontSpan ==
  ASSUME region \in RawEntries, NEW to, RawFront(to), iso.size \in Nat
  PROVE  /\ AlignDown(region.offset) + LogicalSize(region) = to /\ to <= iso.size /\ to \in Nat
         /\ region.ng = CeilDiv(LogicalSize(region), Chunk)
<1>1. region.offset \in Nat /\ region.size \in Nat
  BY RawEntryTypes
<1>2. PICK a, r \in Nat : a = AlignDown(region.offset) /\ r = region.offset % Block
                            /\ a + r = region.offset
  BY <1>1, AlignDownBelow
<1>3. LogicalSize(region) = region.size + r
  BY <1>2 DEF LogicalSize
<1>. QED
  BY <1>1, <1>2, <1>3 DEF RawFront

LEMMA RawChunkCovers ==
  ASSUME CodeRanges, IInv, IInv', CInv, RawChunk
  PROVE  CInv'
<1> DEFINE from == AlignDown(region.offset) + k * Chunk
           len == Expected(LogicalSize(region), k, Chunk)
<1>1. Typed /\ RawLedger /\ StoringRaw /\ k \in Nat /\ iso.size \in Nat
      /\ pc \in {"before", "head", "rest"}
  BY DiscTypes DEF IInv, Typed, RawChunk, Ledger, StoringRaw
<1>2. region \in RawEntries /\ k < region.ng
  BY <1>1 DEF RawLedger, InHand
<1>3. /\ region.ng \in Nat /\ LogicalSize(region) \in Nat /\ region.offset \in Nat
      /\ region.size \in Nat /\ AlignDown(region.offset) \in Nat
  BY <1>2, RawEntryTypes
<1>4. PICK to : /\ RawFront(to)
                /\ pc = "before" => to = Head(table).offset
                /\ pc = "head" => to = part.start
                /\ pc = "rest" => to = iso.size
  BY <1>1 DEF CInv, StoreFront
<1>5. PICK a, l \in Nat : a = AlignDown(region.offset) /\ l = LogicalSize(region)
  BY <1>3
<1>6. a + l = to /\ to <= iso.size /\ region.ng = CeilDiv(l, Chunk) /\ to \in Nat
  BY <1>1, <1>2, <1>4, <1>5, RawFrontSpan
<1>7. /\ k * Chunk \in Nat /\ len \in Nat /\ k * Chunk + len <= l
      /\ k + 1 < region.ng => k * Chunk + len = (k + 1) * Chunk
      /\ ~ (k + 1 < region.ng) => k * Chunk + len = l
  BY <1>1, <1>2, <1>5, <1>6, ConstantTypes, UnitEnd
<1>8. /\ Store(from, len) /\ k' = k + 1
      /\ pc' = IF k + 1 < region.ng THEN pc ELSE AfterRaw
      /\ UNCHANGED <<iso, available, plan, allotted, region, tables, header>>
  BY DEF RawChunk
<1>9. PICK c \in Nat : c = k * Chunk
  BY <1>7
<1>10. from = a + c
  BY <1>5, <1>9
<1> HIDE DEF from, len
<1>11. /\ from \in Nat /\ from + len \in Nat /\ from + len <= iso.size
       /\ ~ (k + 1 < region.ng) => from + len = to
       /\ k + 1 < region.ng => from + len = a + (k + 1) * Chunk
  BY <1>1, <1>5, <1>6, <1>7, <1>9, <1>10
<1>12. ReachOf(chunks', from + len)
  <2>1. ReachOf(chunks, from)
    BY <1>4, <1>5, <1>9, <1>10 DEF RawFront
  <2>. QED
    BY <1>1, <1>7, <1>8, <1>11, <2>1, ReachStore
<1>13. WithinDisc'
  <2>1. \A n \in DOMAIN chunks' : chunks'[n].from + chunks'[n].size <= iso'.size
    BY <1>1, <1>7, <1>8, <1>11, StoreWithin DEF CInv
  <2>. QED
    BY <1>8, <2>1 DEF CInv, WithinDisc, InRange, plan
<1>14. CASE k + 1 < region.ng
  <2>1. RawFront(to)'
    <3>1. AlignDown(region.offset)' + k' * Chunk = a + (k + 1) * Chunk
      BY <1>5, <1>8 DEF AlignDown
    <3>2. ReachOf(chunks', a + (k + 1) * Chunk)
      BY <1>11, <1>12, <1>14
    <3>. QED
      BY <1>4, <1>8, <3>1, <3>2 DEF RawFront, LogicalSize
  <2>2. pc' = pc
    BY <1>8, <1>14
  <2>3. WalkFront' /\ StoreFront'
    BY <1>1, <1>4, <1>8, <2>1, <2>2 DEF WalkFront, StoreFront, StoringPart, plan, RawFront
  <2>. QED
    BY <1>1, <1>8, <1>13, <2>2, <2>3 DEF CInv, PartSet, plan
<1>15. CASE ~ (k + 1 < region.ng)
  <2>1. ReachOf(chunks', to)
    BY <1>11, <1>12, <1>15
  <2>2. \/ pc = "before" /\ pc' = "setup"
        \/ pc = "head" /\ pc' = "entries"
        \/ pc = "rest" /\ pc' = "partTable"
    BY <1>1, <1>8, <1>15 DEF AfterRaw
  <2>3. WalkFront' /\ StoreFront'
    BY <1>4, <1>8, <2>1, <2>2 DEF WalkFront, StoreFront, StoringPart, ReachIf, plan
  <2>. QED
    BY <1>1, <1>8, <1>13, <2>2, <2>3 DEF CInv, PartSet, plan
<1>. QED
  BY <1>14, <1>15

LEMMA PartInHand ==
  ASSUME IInv, StoringPart
  PROVE  /\ Typed /\ k \in Nat /\ iso.size \in Nat /\ table # <<>>
         /\ region \in PartEntries /\ parts # <<>> /\ parts \in Seq(PartEntries)
         /\ region.fs \in Nat /\ region.ns \in Nat
         /\ region.ng = CeilDiv(region.ns, ChunkBlocks) /\ k < region.ng
         /\ parts[Len(parts)] \in PartEntries
         /\ parts[Len(parts)].fs \in Nat /\ parts[Len(parts)].ns \in Nat
         /\ pc \in {"data0", "data1"}
         /\ pc = "data1" => region = parts[Len(parts)]
<1>1. Typed /\ PartLedger /\ k \in Nat /\ iso.size \in Nat /\ parts \in Seq(PartEntries)
      /\ table # <<>>
  BY DiscTypes DEF IInv, Typed, Ledger, CandidateInHand, StoringPart
<1>2. /\ region \in PartEntries /\ parts # <<>> /\ k < region.ng
      /\ region.ng = CeilDiv(region.ns, ChunkBlocks)
  BY <1>1 DEF PartLedger, InHand
<1>3. region.fs \in Nat /\ region.ns \in Nat
  BY <1>2, PartEntryTypes
<1>4. parts[Len(parts)] \in PartEntries
  <2>1. Len(parts) \in 1 .. Len(parts)
    BY <1>1, <1>2, EmptySeq, LenProperties
  <2>. QED
    BY <1>1, <2>1, ElementOfSeq
<1>5. parts[Len(parts)].fs \in Nat /\ parts[Len(parts)].ns \in Nat
  BY <1>4, PartEntryTypes
<1>6. pc \in {"data0", "data1"} /\ (pc = "data1" => region = parts[Len(parts)])
  BY DEF IInv, Ledger, StoringPart, SecondLedger
<1>. QED
  BY <1>1, <1>2, <1>3, <1>4, <1>5, <1>6

LEMMA BlocksAdd ==
  ASSUME NEW x \in Nat, NEW n \in Nat, NEW b \in Nat
  PROVE  x * b \in Nat /\ n * b \in Nat /\ x * b + n * b = (x + n) * b
OBVIOUS

LEMMA BlocksMonotone ==
  ASSUME NEW x \in Nat, NEW y \in Nat, NEW b \in Nat, x <= y
  PROVE  x * b <= y * b
<1>1. b * x <= b * y
  BY TimesMonotone
<1>. QED
  BY <1>1

LEMMA PartChunkCovers ==
  ASSUME CodeRanges, IInv, CInv, PartChunk
  PROVE  CInv'
<1> DEFINE last == parts[Len(parts)]
<1>1. StoringPart
  BY DEF PartChunk
<1>2. /\ Typed /\ k \in Nat /\ iso.size \in Nat /\ table # <<>>
      /\ region.ng = CeilDiv(region.ns, ChunkBlocks) /\ k < region.ng
      /\ pc \in {"data0", "data1"}
      /\ pc = "data1" => region = last
  BY <1>1, PartInHand
<1>3. PICK fs, ns, lf, ln, b \in Nat :
        /\ fs = region.fs /\ ns = region.ns /\ lf = last.fs /\ ln = last.ns
        /\ b = Block
  BY <1>1, PartInHand, ConstantTypes
<1>4. PICK f, n \in Nat :
        /\ f = k * ChunkBlocks /\ n = Expected(ns, k, ChunkBlocks) /\ f < ns
        /\ f + n <= ns
        /\ k + 1 < region.ng => f + n = (k + 1) * ChunkBlocks
        /\ ~ (k + 1 < region.ng) => f + n = ns
  <2>1. ChunkBlocks \in Nat \ {0} /\ ns \in Nat /\ k \in Nat /\ k < CeilDiv(ns, ChunkBlocks)
    BY <1>2, <1>3, ConstantTypes
  <2>2. /\ k * ChunkBlocks \in Nat /\ k * ChunkBlocks < ns /\ Expected(ns, k, ChunkBlocks) \in Nat
        /\ k * ChunkBlocks + Expected(ns, k, ChunkBlocks) <= ns
        /\ k + 1 < CeilDiv(ns, ChunkBlocks) =>
             k * ChunkBlocks + Expected(ns, k, ChunkBlocks) = (k + 1) * ChunkBlocks
        /\ ~ (k + 1 < CeilDiv(ns, ChunkBlocks)) =>
             k * ChunkBlocks + Expected(ns, k, ChunkBlocks) = ns
    BY <2>1, UnitEnd
  <2>3. PICK f \in Nat : f = k * ChunkBlocks
    BY <2>2
  <2>4. PICK n \in Nat : n = Expected(ns, k, ChunkBlocks)
    BY <2>2
  <2>5. region.ng = CeilDiv(ns, ChunkBlocks)
    BY <1>2, <1>3
  <2>. QED
    BY <2>2, <2>3, <2>4, <2>5, Zenon
<1>5. f + n < ns <=> k + 1 < region.ng
  BY <1>2, <1>3, <1>4, LastChunk
<1>6. /\ lastEnd = (lf + ln) * b /\ lastEnd <= iso.size
      /\ ReachOf(chunks, (fs + f) * b)
      /\ pc = "data0" => fs + ns = lf
      /\ pc = "data1" => fs = lf /\ ns = ln
  BY <1>1, <1>2, <1>3, <1>4 DEF CInv, StoreFront, PartFront, WithinDisc
<1>7. /\ Store((fs + f) * b, n * b)
      /\ UNCHANGED <<iso, parts, lastEnd>>
      /\ \/ f + n < ns /\ k' = k + 1 /\ UNCHANGED <<pc, table, region>>
         \/ /\ f + n >= ns
            /\ pc = "data0" /\ pc' = "data1" /\ region' = last /\ k' = 0
            /\ UNCHANGED table
         \/ /\ f + n >= ns
            /\ pc = "data1" \/ ln = 0
            /\ pc' = "next" /\ table' = Tail(table)
  BY <1>3, <1>4 DEF PartChunk, allotted
<1>8. PICK g \in Nat : g = fs + f
  BY <1>3, <1>4
\* the ends of the entries, in blocks
<1>9. /\ g + n <= fs + ns /\ g + n \in Nat
      /\ f + n >= ns => g + n = fs + ns
      /\ fs + (f + n) = g + n
      /\ pc = "data0" => fs + ns = lf
      /\ pc = "data1" => fs + ns = lf + ln
  <2>1. /\ pc = "data0" => fs + ns = lf
        /\ pc = "data1" => fs = lf /\ ns = ln
    BY <1>6
  <2>2. /\ f + n <= ns /\ f \in Nat /\ n \in Nat /\ g = fs + f
        /\ fs \in Nat /\ ns \in Nat /\ ln \in Nat
    BY <1>3, <1>4, <1>8
  <2>3. /\ g + n <= fs + ns /\ g + n \in Nat
        /\ f + n >= ns => g + n = fs + ns
        /\ fs + (f + n) = g + n
    BY <2>2
  <2>4. pc = "data1" => fs + ns = lf + ln
    BY <2>1
  <2>. QED
    BY <2>1, <2>3, <2>4
<1>10. /\ g * b \in Nat /\ n * b \in Nat /\ g * b + n * b = (g + n) * b
      /\ g * b + n * b <= iso.size
  <2>1. g * b \in Nat /\ n * b \in Nat /\ g * b + n * b = (g + n) * b
    <3>1. g \in Nat /\ n \in Nat /\ b \in Nat
      BY <1>3, <1>4, <1>8
    <3>. QED
      BY <3>1, BlocksAdd
  <2>2. PICK e \in Nat : e = lf + ln /\ g + n <= e
    <3>1. /\ lf \in Nat /\ ln \in Nat /\ ns \in Nat /\ g \in Nat /\ n \in Nat
      BY <1>3, <1>4, <1>8
    <3>. QED
      BY <1>2, <1>9, <3>1
  <2>3. (g + n) * b <= e * b /\ (g + n) * b \in Nat /\ e * b \in Nat
    <3>1. PICK h \in Nat : h = g + n
      BY <1>4, <1>8
    <3>2. h * b <= e * b
      BY <1>3, <2>2, <3>1, BlocksMonotone
    <3>3. h * b \in Nat /\ e * b \in Nat
      BY <1>3, <2>2, <3>1
    <3>. QED
      BY <3>1, <3>2, <3>3
  <2>4. e * b <= iso.size
    BY <1>6, <2>2
  <2>5. PICK x, y \in Nat : x = (g + n) * b /\ y = e * b
    BY <2>3
  <2>6. x <= iso.size
    BY <1>2, <2>3, <2>4, <2>5
  <2>. QED
    BY <2>1, <2>5, <2>6
<1>11. ReachOf(chunks', (g + n) * b)
  <2>1. ReachOf(chunks', g * b + n * b)
    BY <1>2, <1>6, <1>7, <1>8, <1>10, ReachStore
  <2>. QED
    BY <1>10, <2>1
<1>12. WithinDisc'
  <2>1. \A m \in DOMAIN chunks' : chunks'[m].from + chunks'[m].size <= iso'.size
    <3>1. Store(g * b, n * b) /\ UNCHANGED iso
      BY <1>7, <1>8
    <3>. QED
      BY <1>2, <1>10, <3>1, StoreWithin DEF CInv
  <2>2. table' \in Seq(InRange) /\ InRange' = InRange
    <3>1. table \in Seq(InRange) /\ Tail(table) \in Seq(InRange)
      BY <1>2, HeadInRange DEF CInv, WithinDisc
    <3>. QED
      BY <1>7, <3>1 DEF InRange
  <2>. QED
    BY <1>6, <1>7, <2>1, <2>2 DEF WithinDisc
<1>13. CASE f + n < ns /\ k' = k + 1 /\ UNCHANGED <<pc, table, region>>
  <2>1. f + n = (k + 1) * ChunkBlocks
    BY <1>4, <1>5, <1>13
  <2>2. ReachOf(chunks', (region'.fs + k' * ChunkBlocks) * Block)
    <3>1. region'.fs + k' * ChunkBlocks = g + n
      <4>1. fs + (f + n) = g + n
        BY <1>9
      <4>2. region'.fs = fs /\ k' * ChunkBlocks = f + n
        BY <1>3, <1>13, <2>1
      <4>. QED
        BY <4>1, <4>2
    <3>. QED
      BY <1>3, <1>11, <3>1
  <2>3. PartFront'
    BY <1>3, <1>6, <1>7, <1>13, <2>2 DEF PartFront
  <2>4. WalkFront' /\ StoreFront'
    BY <1>1, <1>13, <2>3 DEF WalkFront, StoreFront, StoringPart
  <2>. QED
    BY <1>1, <1>12, <1>13, <2>4 DEF CInv, StoringPart
<1>14. CASE /\ f + n >= ns
            /\ pc = "data0" /\ pc' = "data1" /\ region' = last /\ k' = 0
            /\ UNCHANGED table
  <2>1. g + n = lf
    BY <1>9, <1>14
  <2>2. (region'.fs + k' * ChunkBlocks) * Block = lf * b
    <3>1. 0 * ChunkBlocks = 0 /\ lf + 0 = lf
      BY <1>3, ConstantTypes
    <3>. QED
      BY <1>3, <1>14, <3>1
  <2>3. PartFront'
    BY <1>3, <1>6, <1>7, <1>11, <1>14, <2>1, <2>2 DEF PartFront
  <2>4. WalkFront' /\ StoreFront'
    BY <1>14, <2>3 DEF WalkFront, StoreFront, StoringPart
  <2>. QED
    BY <1>12, <1>14, <2>4 DEF CInv
<1>15. CASE /\ f + n >= ns
            /\ pc = "data1" \/ ln = 0
            /\ pc' = "next" /\ table' = Tail(table)
  <2>1. g + n = lf + ln
    <3>1. lf \in Nat /\ ln \in Nat
      BY <1>3
    <3>. QED
      BY <1>2, <1>9, <1>15, <3>1
  <2>2. ReachOf(chunks', lastEnd')
    BY <1>6, <1>7, <1>11, <2>1
  <2>3. WalkFront' /\ StoreFront'
    BY <1>15, <2>2 DEF WalkFront, StoreFront, StoringPart, ReachIf
  <2>. QED
    BY <1>12, <1>15, <2>3 DEF CInv
<1>. QED
  BY <1>7, <1>13, <1>14, <1>15

LEMMA RestCovers ==
  ASSUME IInv, CInv,
         \/ WritePartTable \/ WriteRawTable \/ WriteGroupTable \/ WriteHeader
         \/ Grow \/ Fail \/ UNCHANGED vars
  PROVE  CInv'
<1>1. UNCHANGED <<iso, table, part, lastEnd, parts, region, k, chunks>>
  BY DEF WritePartTable, WriteRawTable, WriteGroupTable, WriteHeader, WriteTable, Grow, Fail,
         vars, plan, allotted, cursor, stored
<1>2. \/ pc' = pc \/ pc' = "failed"
      \/ /\ pc \in {"partTable", "rawTable", "groupTable", "header"}
         /\ pc' \in {"rawTable", "groupTable", "header", "done"}
  BY DEF WritePartTable, WriteRawTable, WriteGroupTable, WriteHeader, WriteTable, Grow, Fail, vars
<1>3. WithinDisc'
  BY <1>1 DEF CInv, WithinDisc, InRange
<1>4. PartSet' = PartSet /\ \A to : RawFront(to)' = RawFront(to)
  BY <1>1 DEF PartSet, RawFront, LogicalSize, AlignDown
<1>5. CASE pc' = pc
  <2>1. PartFront' = PartFront
    BY <1>1, <1>5 DEF PartFront
  <2>. QED
    BY <1>1, <1>3, <1>4, <1>5, <2>1 DEF CInv, WalkFront, StoreFront, StoringPart, RawFront
<1>6. CASE pc' = "failed"
  BY <1>3, <1>6 DEF CInv, WalkFront, StoreFront, StoringPart
<1>7. CASE /\ pc \in {"partTable", "rawTable", "groupTable", "header"}
           /\ pc' \in {"rawTable", "groupTable", "header", "done"}
  BY <1>1, <1>3, <1>7 DEF CInv, WalkFront, StoreFront, StoringPart
<1>. QED
  BY <1>2, <1>5, <1>6, <1>7

LEMMA FreshCovers ==
  ASSUME Fresh
  PROVE  CInv
<1>1. chunks = <<>> /\ table = <<>> /\ lastEnd = 0 /\ pc = "begin"
  BY DEF Fresh
<1>2. IInv
  BY FreshIInv
<1>3. iso.size \in Nat /\ DOMAIN chunks = {}
  BY <1>1, <1>2, DiscTypes DEF IInv
<1>4. WithinDisc
  BY <1>1, <1>3 DEF WithinDisc
<1>. QED
  BY <1>1, <1>4 DEF CInv, WalkFront, StoreFront, StoringPart

LEMMA NextCovers ==
  ASSUME CodeRanges, IInv, CInv, [Next]_vars
  PROVE  CInv'
<1>0. IInv'
  BY NextKeepsIInv
<1>1. CASE Begin \/ Detect \/ SkipCandidate
  BY <1>1, BeginCovers
<1>2. CASE ReachCandidate \/ ReachEnd
  BY <1>0, <1>2, ReachCovers
<1>3. CASE SetUp
  BY <1>3, SetUpCovers
<1>4. CASE ReadFst
  BY <1>0, <1>4, ReadFstCovers
<1>5. CASE CreateEntries
  BY <1>0, <1>5, CreateEntriesCovers
<1>6. CASE RawChunk
  BY <1>0, <1>6, RawChunkCovers
<1>7. CASE PartChunk
  BY <1>0, <1>7, PartChunkCovers
<1>8. CASE \/ WritePartTable \/ WriteRawTable \/ WriteGroupTable \/ WriteHeader
           \/ Grow \/ Fail \/ UNCHANGED vars
  BY <1>8, RestCovers
<1>. QED
  BY <1>1, <1>2, <1>3, <1>4, <1>5, <1>6, <1>7, <1>8 DEF Next, Encode

(* At each place of the walk of compress_iso, everything before the point  *)
(* it has reached is stored, and nothing past the end of the disc.         *)
THEOREM CoverInvariant ==
  ASSUME CodeRanges
  PROVE  Spec => [](IInv /\ CInv)
<1>1. Init => IInv /\ CInv
  BY InitIInv, InitIsFresh, FreshCovers
<1>2. IInv /\ CInv /\ [Next]_vars => IInv' /\ CInv'
  BY NextKeepsIInv, NextCovers
<1>. QED
  BY <1>1, <1>2, PTL DEF Spec

(* A finished container restores every byte of the disc: the regions of    *)
(* compress_iso that follow each other leave no gap, the tables are        *)
(* well-formed, and no chunk reaches past the end.                         *)
THEOREM FinishedRestores ==
  ASSUME CodeRanges
  PROVE  Spec => []RestoresDisc
<1>1. IInv /\ CInv /\ FinishedIsWellFormed => RestoresDisc
  <2> SUFFICES ASSUME IInv, CInv, FinishedIsWellFormed, pc = "done", iso.size > DiscHeader
               PROVE  /\ WellFormed(Container)
                      /\ \A x \in 0 .. iso.size - 1 : Covered(x)
                      /\ \A n \in DOMAIN chunks : chunks[n].from + chunks[n].size <= iso.size
    BY DEF RestoresDisc
  <2>1. ReachOf(chunks, iso.size)
    BY DEF CInv, WalkFront, ReachIf
  <2>2. \A x \in 0 .. iso.size - 1 : Covered(x)
    BY <2>1 DEF ReachOf, Covered
  <2>3. \A n \in DOMAIN chunks : chunks[n].from + chunks[n].size <= iso.size
    BY DEF CInv, WithinDisc
  <2>. QED
    BY <2>2, <2>3 DEF FinishedIsWellFormed
<1>. QED
  BY <1>1, CoverInvariant, FinishedContainers, PTL

LEMMA WindowBehind ==
  ASSUME NEW f \in Nat, NEW ns \in Nat
  PROVE  /\ Lesser(ns, ((f \div GroupBlocks) + 1) * GroupBlocks) <= f + GroupBlocks
         /\ Lesser(ns, ((f \div GroupBlocks) + 1) * GroupBlocks) \in Nat
<1>1. PICK m \in Nat \ {0} : m = GroupBlocks
  BY ConstantTypes
<1>2. PICK q, r \in Nat : q = f \div m /\ f = m * q + r
  BY <1>1, DivMod
<1>3. (q + 1) * m = m * q + m /\ m * q \in Nat
  BY <1>1, <1>2
<1>4. (q + 1) * m <= f + m /\ (q + 1) * m \in Nat
  BY <1>1, <1>2, <1>3
<1>. QED
  BY <1>1, <1>2, <1>4 DEF Lesser

(* A thread that waits for bytes has stored everything that is further     *)
(* behind the bytes it has than one read: nothing is held back.            *)
THEOREM WaitsAtFront ==
  ASSUME CodeRanges
  PROVE  Spec => []WaitsAtTheFront
<1>1. IInv /\ CInv => WaitsAtTheFront
  <2> SUFFICES ASSUME IInv, CInv, ~ Readable, pc \notin {"begin", "detect"},
                      NEW x \in DiscHeader .. available - Ahead - 1
               PROVE  Covered(x)
    BY DEF WaitsAtTheFront
  <2>1. /\ Typed /\ iso.size \in Nat /\ available \in Nat /\ k \in Nat /\ DiscHeader \in Nat
        /\ PartHeader \in Nat /\ Block \in Nat /\ ChunkBlocks \in Nat /\ GroupBlocks \in Nat
        /\ available <= iso.size
    BY DiscTypes, ConstantTypes, EncoderAssumption DEF IInv, Typed
  <2>2. ASSUME NEW w \in Nat, w = Wanted PROVE available < w
    BY <2>1, <2>2 DEF Readable, Lesser
  <2>3. CASE pc = "setup"
    <3>1. PICK o \in Nat : o = Head(table).offset
      BY <2>1, <2>3, HeadTypes DEF IInv, CandidateInHand
    <3>2. Wanted = o + PartHeader /\ Ahead = PartHeader
      BY <2>3, <3>1 DEF Wanted, WantedWith, Ahead, StoringRaw, StoringPart
    <3>3. available < o + PartHeader
      BY <2>1, <2>2, <3>1, <3>2
    <3>4. x \in 0 .. o - 1 /\ o > DiscHeader
      BY <2>1, <3>1, <3>2, <3>3
    <3>5. ReachOf(chunks, o)
      BY <2>3, <3>1, <3>4 DEF CInv, WalkFront, ReachIf
    <3>. QED
      BY <3>4, <3>5 DEF ReachOf, Covered
  <2>4. CASE pc = "fst"
    <3>1. PICK o, s \in Nat : o = part.offset /\ s = part.start
      BY <2>1 DEF Typed
    <3>2. Wanted = s + Block /\ Ahead = s + Block - o
      BY <2>4, <3>1 DEF Wanted, WantedWith, Ahead, StoringRaw, StoringPart
    <3>3. available < s + Block
      BY <2>1, <2>2, <3>1, <3>2
    <3>4. x \in 0 .. o - 1 /\ o > DiscHeader
      BY <2>1, <3>1, <3>2, <3>3
    <3>5. ReachOf(chunks, o)
      BY <2>4, <3>1, <3>4 DEF CInv, WalkFront, ReachIf
    <3>. QED
      BY <3>4, <3>5 DEF ReachOf, Covered
  <2>5. CASE StoringRaw
    <3>1. region \in RawEntries
      BY <2>5 DEF IInv, Ledger, RawLedger
    <3>2. PICK f, e, c \in Nat :
            /\ f = AlignDown(region.offset) + k * Chunk
            /\ e = Expected(LogicalSize(region), k, Chunk) /\ c = Chunk /\ e <= c
      <4>1. AlignDown(region.offset) \in Nat /\ LogicalSize(region) \in Nat
        BY <3>1, RawEntryTypes
      <4>2. k * Chunk \in Nat
        BY <2>1, ConstantTypes
      <4>3. Expected(LogicalSize(region), k, Chunk) \in 0 .. Chunk
        BY <2>1, <4>1, ConstantTypes, ExpectedRange
      <4>. QED
        BY <4>1, <4>2, <4>3, ConstantTypes
    <3>3. Wanted = f + e /\ Ahead = c
      BY <2>5, <3>2 DEF Wanted, WantedWith, ChunkEnd, Ahead, StoringRaw, StoringPart
    <3>4. available < f + e
      BY <2>1, <2>2, <3>2, <3>3
    <3>5. x \in 0 .. f - 1
      BY <2>1, <3>2, <3>3, <3>4
    <3>6. ReachOf(chunks, f)
      BY <2>5, <3>2 DEF CInv, StoreFront, StoringRaw, RawFront
    <3>. QED
      BY <3>5, <3>6 DEF ReachOf, Covered
  <2>6. CASE StoringPart
    <3>1. PICK f, fs, w \in Nat :
            /\ f = k * ChunkBlocks /\ fs = region.fs /\ w = WindowEnd
            /\ w <= f + GroupBlocks
      <4>1. region.fs \in Nat /\ region.ns \in Nat /\ k * ChunkBlocks \in Nat
        BY <2>1, <2>6, PartInHand
      <4>2. WindowEnd <= k * ChunkBlocks + GroupBlocks /\ WindowEnd \in Nat
        BY <4>1, WindowBehind DEF WindowEnd
      <4>. QED
        BY <4>1, <4>2
    <3>2. Wanted = (fs + w) * Block /\ Ahead = GroupBlocks * Block
      BY <2>6, <3>1 DEF Wanted, WantedWith, StoringPart, StoringRaw, Ahead
    <3>3. PICK p, q, h \in Nat :
            p = (fs + f) * Block /\ q = (fs + w) * Block /\ h = GroupBlocks * Block
      <4>1. PICK s, t \in Nat : s = fs + f /\ t = fs + w
        BY <3>1
      <4>. QED
        BY <2>1, <4>1
    <3>4. q <= p + h
      <4>1. PICK s, t, u \in Nat : s = fs + f /\ t = fs + w /\ u = s + GroupBlocks /\ t <= u
        BY <2>1, <3>1
      <4>2. t * Block <= u * Block
        BY <2>1, <4>1, BlocksMonotone
      <4>3. s * Block + GroupBlocks * Block = u * Block
        BY <2>1, <4>1, BlocksAdd
      <4>. QED
        BY <3>3, <4>1, <4>2, <4>3
    <3>5. available < q
      BY <2>1, <2>2, <3>2, <3>3
    <3>6. x \in 0 .. p - 1
      BY <2>1, <3>2, <3>3, <3>4, <3>5
    <3>7. ReachOf(chunks, p)
      BY <2>6, <3>1, <3>3 DEF CInv, StoreFront, PartFront
    <3>. QED
      BY <3>6, <3>7 DEF ReachOf, Covered
  <2>7. CASE pc \notin {"setup", "fst"} /\ ~ StoringRaw /\ ~ StoringPart
    <3>1. Wanted = 0
      BY <2>7 DEF Wanted, WantedWith
    <3>. QED
      BY <2>1, <2>2, <3>1
  <2>. QED
    BY <2>3, <2>4, <2>5, <2>6, <2>7
<1>. QED
  BY <1>1, CoverInvariant, PTL

-----------------------------------------------------------------------------
AtBlocks == {c \in Partitions : c.offset % Block = 0}
\* The window of `g' blocks that block `f' is in, and its end.
WindowOf(f, g) == (f \div g) * g
WindowTo(f, g, ns) == Lesser(ns, ((f \div g) + 1) * g)
WindowBegin == WindowOf(k * ChunkBlocks, GroupBlocks)

\* The bytes counted are those before the point the walk has reached, or
\* before the window of a partition that is being stored.
WalkCount ==
  /\ pc \in {"begin", "detect", "next"} => bytesDone = lastEnd /\ lastEnd % Block = 0
  /\ pc = "setup" => bytesDone = Head(table).offset
  /\ pc = "fst" => bytesDone = part.offset /\ part.offset % Block = 0
  /\ pc = "entries" => bytesDone = part.start
  /\ pc \in {"partTable", "rawTable", "groupTable", "header", "done"} =>
       (iso.size > DiscHeader => bytesDone = iso.size)
StoreCount ==
  /\ StoringRaw => bytesDone = AlignDown(region.offset) + k * Chunk
  /\ StoringPart => bytesDone = (region.fs + WindowBegin) * Block
Counts ==
  /\ table \in Seq(AtBlocks)
  /\ reported <= bytesDone /\ bytesDone <= iso.size
  /\ WalkCount /\ StoreCount
PInv == Aligned(iso) => Counts

-----------------------------------------------------------------------------
LEMMA CountTypes ==
  ASSUME IInv, Counts
  PROVE  /\ bytesDone \in Nat /\ reported \in Nat /\ iso.size \in Nat /\ lastEnd \in Nat
         /\ Typed /\ k \in Nat
         /\ table # <<>> => /\ Head(table) \in AtBlocks /\ Tail(table) \in Seq(AtBlocks)
                            /\ Head(table).offset % Block = 0
<1>1. bytesDone \in Nat /\ reported \in Nat /\ iso.size \in Nat /\ lastEnd \in Nat /\ k \in Nat
      /\ Typed
  BY DiscTypes DEF IInv, Typed
<1>2. ASSUME table # <<>>
      PROVE  Head(table) \in AtBlocks /\ Tail(table) \in Seq(AtBlocks)
  BY <1>2, HeadTailProperties DEF Counts
<1>. QED
  BY <1>1, <1>2 DEF AtBlocks

(* A raw region that begins at a block is counted from there.              *)
LEMMA RawCounts ==
  ASSUME CodeRanges, NEW offset \in Nat, NEW size \in Nat, offset % Block = 0,
         NEW during \in {"before", "head", "rest"}, NEW after,
         BeginRaw(offset, size, during, after)
  PROVE  \/ pc' = after /\ (size = 0 \/ offset + size <= DiscHeader)
         \/ pc' = during /\ AlignDown(region.offset)' + k' * Chunk = offset
<1> DEFINE skip == IF offset < DiscHeader THEN Lesser(DiscHeader - offset, size) ELSE 0
           o == offset + skip
           s == size - skip
<1>1. DiscHeader \in Nat /\ Block \in Nat \ {0} /\ DiscHeader < Block
  BY ConstantTypes DEF CodeRanges
<1>2. skip \in Nat /\ skip <= size /\ s \in Nat /\ o \in Nat
  BY <1>1 DEF Lesser
<1>3. CASE size = skip
  <2>1. pc' = after
    BY <1>3 DEF BeginRaw
  <2>2. size = 0 \/ offset + size <= DiscHeader
    BY <1>1, <1>3 DEF Lesser
  <2>. QED
    BY <2>1, <2>2
<1>4. CASE size # skip
  <2>1. /\ pc' = during /\ k' = 0
        /\ region' = [kind |-> "raw", key |-> NoKey, offset |-> o, size |-> s,
                      gi |-> groupIndex, ng |-> RawChunks(o, s)]
    BY <1>4 DEF BeginRaw
  <2>2. o = offset \/ (o = DiscHeader /\ offset < DiscHeader)
    BY <1>1, <1>2, <1>4 DEF Lesser
  <2>3. region'.offset = o
    BY <2>1
  <2> HIDE DEF o, s
  <2>4. AlignDown(o) = offset
    <3>1. CASE o = offset
      <4>1. AlignDown(offset) \in Nat /\ AlignDown(offset) + (offset % Block) = offset
        BY AlignDownBelow
      <4>. QED
        BY <3>1, <4>1
    <3>2. CASE o = DiscHeader /\ offset < DiscHeader
      <4>1. offset = 0
        BY <1>1, <3>2
      <4>2. AlignDown(DiscHeader) = 0
        BY <1>1 DEF AlignDown
      <4>. QED
        BY <3>2, <4>1, <4>2
    <3>. QED
      BY <2>2, <3>1, <3>2
  <2>5. AlignDown(region.offset)' = AlignDown(o)
    BY <2>3 DEF AlignDown
  <2>6. AlignDown(o) + 0 * Chunk = AlignDown(o)
    BY <2>4, ConstantTypes
  <2>. QED
    BY <2>1, <2>4, <2>5, <2>6
<1>. QED
  BY <1>3, <1>4

LEMMA WalksAtBlocks ==
  ASSUME Typed, Aligned(iso), NEW lost, NEW t \in Walks(lost)
  PROVE  t \in Seq(AtBlocks)
<1>1. \A n \in DOMAIN iso.table : iso.table[n] \in Partitions
  BY DiscTypes, ElementOfSeq
<1>2. \A n \in DOMAIN iso.table :
        iso.table[n].offset < iso.size => iso.table[n] \in AtBlocks
  BY <1>1 DEF AtBlocks, Aligned
<1>. QED
  BY <1>2, WalksTake

LEMMA BeginCounts ==
  ASSUME CodeRanges, IInv, CInv, Counts, Aligned(iso), Begin \/ Detect \/ SkipCandidate
  PROVE  Counts'
<1>1. /\ pc' \in {"detect", "next"}
      /\ UNCHANGED <<iso, lastEnd, bytesDone, reported>>
      /\ pc \in {"begin", "detect", "next"}
  BY DEF Begin, Detect, SkipCandidate, plan, stored
<1>2. table' \in Seq(AtBlocks)
  <2>1. CASE Begin
    BY <2>1 DEF Begin, plan, Counts
  <2>2. CASE Detect
    <3>1. CASE table' = <<>>
      BY <3>1
    <3>2. CASE table' # <<>>
      <4>1. PICK lost \in SUBSET {iso.table[n].grp : n \in DOMAIN iso.table} :
              table' \in Walks(lost)
        BY <2>2, <3>2 DEF Detect
      <4>. QED
        BY <4>1, WalksAtBlocks DEF IInv
    <3>. QED
      BY <3>1, <3>2
  <2>3. CASE SkipCandidate
    BY <2>3, CountTypes DEF SkipCandidate
  <2>. QED
    BY <2>1, <2>2, <2>3
<1>3. WalkCount' /\ StoreCount'
  BY <1>1 DEF Counts, WalkCount, StoreCount, StoringRaw, StoringPart
<1>. QED
  BY <1>1, <1>2, <1>3 DEF Counts, AtBlocks

LEMMA ReachCounts ==
  ASSUME CodeRanges, IInv, CInv, Counts, Aligned(iso), ReachCandidate \/ ReachEnd
  PROVE  Counts'
<1>1. /\ iso.size \in Nat /\ lastEnd \in Nat /\ lastEnd <= iso.size /\ pc = "next"
      /\ bytesDone = lastEnd /\ lastEnd % Block = 0 /\ bytesDone \in Nat
      /\ DiscHeader \in Nat /\ Block \in Nat \ {0} /\ DiscHeader < Block
  BY CountTypes, ConstantTypes
     DEF CodeRanges, CInv, WithinDisc, Counts, WalkCount, ReachCandidate, ReachEnd
<1>2. UNCHANGED <<iso, table, part, lastEnd, bytesDone, reported>>
  BY DEF ReachCandidate, ReachEnd, plan, stored
<1>3. CASE ReachCandidate
  <2>1. table # <<>> /\ Head(table).offset >= lastEnd
    BY <1>3 DEF ReachCandidate
  <2>2. PICK to \in Nat : to = Head(table).offset /\ to >= lastEnd /\ to % Block = 0
    BY <1>1, <2>1, HeadTypes, CountTypes
  <2>3. to - lastEnd \in Nat /\ lastEnd + (to - lastEnd) = to
    BY <1>1, <2>2
  <2>4. BeginRaw(lastEnd, to - lastEnd, "before", "setup")
    BY <1>3, <2>2 DEF ReachCandidate
  <2>5. \/ pc' = "setup" /\ (to - lastEnd = 0 \/ to <= DiscHeader)
        \/ pc' = "before" /\ AlignDown(region.offset)' + k' * Chunk = lastEnd
    BY <1>1, <2>3, <2>4, RawCounts
  <2>6. pc' = "setup" => bytesDone' = Head(table').offset
    <3>1. to <= DiscHeader => to = 0
      BY <1>1, <2>2
    <3>. QED
      BY <1>1, <1>2, <2>2, <2>5, <3>1
  <2>7. WalkCount' /\ StoreCount'
    BY <1>1, <1>2, <2>5, <2>6 DEF WalkCount, StoreCount, StoringRaw, StoringPart
  <2>. QED
    BY <1>2, <2>7 DEF Counts, AtBlocks
<1>4. CASE ReachEnd
  <2>1. Lesser(lastEnd, iso.size) = lastEnd /\ iso.size - lastEnd \in Nat
        /\ lastEnd + (iso.size - lastEnd) = iso.size
    BY <1>1 DEF Lesser
  <2>2. BeginRaw(lastEnd, iso.size - lastEnd, "rest", "partTable")
    BY <1>4, <2>1 DEF ReachEnd
  <2>3. \/ pc' = "partTable" /\ (iso.size - lastEnd = 0 \/ iso.size <= DiscHeader)
        \/ pc' = "rest" /\ AlignDown(region.offset)' + k' * Chunk = lastEnd
    BY <1>1, <2>1, <2>2, RawCounts
  <2>4. WalkCount' /\ StoreCount'
    BY <1>1, <1>2, <2>3 DEF WalkCount, StoreCount, StoringRaw, StoringPart
  <2>. QED
    BY <1>2, <2>4 DEF Counts, AtBlocks
<1>. QED
  BY <1>3, <1>4

LEMMA SetUpCounts ==
  ASSUME CodeRanges, IInv, CInv, Counts, SetUp
  PROVE  Counts'
<1> DEFINE c == Head(table)
<1>1. table # <<>> /\ pc = "setup" /\ bytesDone = c.offset
  BY DEF IInv, CandidateInHand, SetUp, Counts, WalkCount
<1>2. c.offset % Block = 0 /\ Tail(table) \in Seq(AtBlocks)
  BY <1>1, CountTypes
<1>3. /\ UNCHANGED <<iso, bytesDone, reported>> /\ lastEnd' = c.offset
      /\ table' \in {table, Tail(table)} /\ pc' \in {"next", "panic", "fst"}
      /\ pc' = "fst" => part'.offset = c.offset
  BY DEF SetUp, stored
<1>4. WalkCount' /\ StoreCount'
  BY <1>1, <1>2, <1>3 DEF WalkCount, StoreCount, StoringRaw, StoringPart
<1>. QED
  BY <1>2, <1>3, <1>4 DEF Counts, AtBlocks

LEMMA ReadFstCounts ==
  ASSUME CodeRanges, IInv, CInv, Counts, ReadFst
  PROVE  Counts'
<1>1. /\ part \in [key : Keys \cup {NoKey}, offset : Nat, dataOffset : Nat,
                   start : Nat, end : Nat, split : Nat]
      /\ pc = "fst"
  BY DEF IInv, Typed, ReadFst
<1>2. PICK o, d, s \in Nat : o = part.offset /\ d = part.dataOffset /\ s = part.start
  BY <1>1
<1>3. o + d = s /\ s % Block = 0 /\ bytesDone = o /\ o % Block = 0
  BY <1>1, <1>2 DEF CInv, PartSet, Counts, WalkCount
<1>4. part'.start = s
  BY <1>1, <1>2 DEF ReadFst
<1>5. UNCHANGED <<iso, table, lastEnd, bytesDone, reported>>
  BY DEF ReadFst, stored
<1>6. BeginRaw(o, d, "head", "entries")
  BY <1>2 DEF ReadFst
<1>7. \/ pc' = "entries" /\ (d = 0 \/ o + d <= DiscHeader)
      \/ pc' = "head" /\ AlignDown(region.offset)' + k' * Chunk = o
  BY <1>3, <1>6, RawCounts
<1>8. pc' = "entries" => bytesDone' = s
  <2>1. DiscHeader \in Nat /\ Block \in Nat \ {0} /\ DiscHeader < Block
    BY ConstantTypes DEF CodeRanges
  <2>2. s <= DiscHeader => s = 0
    BY <1>3, <2>1
  <2>. QED
    BY <1>2, <1>3, <1>5, <1>7, <2>2
<1>9. WalkCount' /\ StoreCount'
  BY <1>3, <1>4, <1>5, <1>7, <1>8 DEF WalkCount, StoreCount, StoringRaw, StoringPart
<1>. QED
  BY <1>5, <1>9 DEF Counts, AtBlocks
-----------------------------------------------------------------------------
LEMMA CreateEntriesCounts ==
  ASSUME CodeRanges, IInv, CInv, Counts, CreateEntries
  PROVE  Counts'
<1>1. table # <<>> /\ PartSet /\ pc = "entries" /\ bytesDone = part.start
  BY DEF IInv, CandidateInHand, CInv, Counts, WalkCount, CreateEntries
<1>2. Tail(table) \in Seq(AtBlocks) /\ table \in Seq(AtBlocks)
  BY <1>1, CountTypes DEF Counts
<1>3. UNCHANGED <<iso, bytesDone, reported>> /\ table' \in {table, Tail(table)} /\ k' = 0
  BY DEF CreateEntries, stored
<1>4. PICK e0, e1 \in PartEntries :
        /\ e0.fs * Block = part.start /\ e0.fs + e0.ns = e1.fs
        /\ lastEnd' = (e1.fs + e1.ns) * Block
        /\ \/ e0.ns > 0 /\ pc' = "data0" /\ region' = e0
           \/ e0.ns = 0 /\ e1.ns > 0 /\ pc' = "data1" /\ region' = e1
           \/ e0.ns = 0 /\ e1.ns = 0 /\ pc' = "next"
  BY <1>1, EntriesCreated
<1>5. e0.fs \in Nat /\ e0.ns \in Nat /\ e1.fs \in Nat /\ e1.ns \in Nat
  BY PartEntryTypes
<1>6. WindowBegin' = 0
  BY <1>3, ConstantTypes DEF WindowBegin, WindowOf
<1>7. pc' \in {"data0", "data1"} => bytesDone' = (region'.fs + WindowBegin') * Block
  <2>1. pc' \in {"data0", "data1"} => region'.fs + 0 = e0.fs
    BY <1>4, <1>5
  <2>. QED
    BY <1>1, <1>3, <1>4, <1>6, <2>1
<1>8. pc' = "next" => bytesDone' = lastEnd' /\ lastEnd' % Block = 0
  <2>1. pc' = "next" => e1.fs + e1.ns = e0.fs
    BY <1>4, <1>5
  <2>2. part.start % Block = 0
    BY <1>1 DEF PartSet
  <2>. QED
    BY <1>1, <1>3, <1>4, <2>1, <2>2
<1>9. WalkCount' /\ StoreCount'
  BY <1>4, <1>7, <1>8 DEF WalkCount, StoreCount, StoringRaw, StoringPart
<1>. QED
  BY <1>2, <1>3, <1>9 DEF Counts, AtBlocks

LEMMA RawChunkCounts ==
  ASSUME CodeRanges, IInv, CInv, Counts, RawChunk
  PROVE  Counts'
<1> DEFINE len == Expected(LogicalSize(region), k, Chunk)
<1>1. RawLedger /\ StoringRaw /\ k \in Nat /\ iso.size \in Nat /\ bytesDone \in Nat
      /\ pc \in {"before", "head", "rest"}
      /\ bytesDone = AlignDown(region.offset) + k * Chunk
  BY CountTypes DEF IInv, RawChunk, Ledger, StoringRaw, Counts, StoreCount
<1>2. region \in RawEntries /\ k < region.ng
  BY <1>1 DEF RawLedger, InHand
<1>3. /\ LogicalSize(region) \in Nat /\ region.offset \in Nat
      /\ region.size \in Nat /\ AlignDown(region.offset) \in Nat
  BY <1>2, RawEntryTypes
<1>4. PICK to : /\ RawFront(to)
                /\ pc = "before" => to = Head(table).offset
                /\ pc = "head" => to = part.start
                /\ pc = "rest" => to = iso.size
  BY <1>1 DEF CInv, StoreFront
<1>5. PICK a, l \in Nat : a = AlignDown(region.offset) /\ l = LogicalSize(region)
  BY <1>3
<1>6. a + l = to /\ to <= iso.size /\ region.ng = CeilDiv(l, Chunk) /\ to \in Nat
  BY <1>1, <1>2, <1>4, <1>5, RawFrontSpan
<1>7. /\ k * Chunk \in Nat /\ len \in Nat /\ k * Chunk + len <= l
      /\ k + 1 < region.ng => k * Chunk + len = (k + 1) * Chunk
      /\ ~ (k + 1 < region.ng) => k * Chunk + len = l
  BY <1>1, <1>2, <1>5, <1>6, ConstantTypes, UnitEnd
<1>8. /\ bytesDone' = bytesDone + len /\ reported' = bytesDone' /\ k' = k + 1
      /\ pc' = IF k + 1 < region.ng THEN pc ELSE AfterRaw
      /\ UNCHANGED <<iso, table, part, lastEnd, region>>
  BY DEF RawChunk, Counted, plan
<1>9. PICK c \in Nat : c = k * Chunk
  BY <1>7
<1> HIDE DEF len
<1>10. /\ bytesDone' \in Nat /\ bytesDone' <= iso.size
       /\ ~ (k + 1 < region.ng) => bytesDone' = to
       /\ k + 1 < region.ng => bytesDone' = a + (k + 1) * Chunk
  BY <1>1, <1>5, <1>6, <1>7, <1>8, <1>9
<1>11. AlignDown(region.offset)' + k' * Chunk = a + (k + 1) * Chunk
  BY <1>5, <1>8 DEF AlignDown
<1>12. CASE k + 1 < region.ng
  <2>1. pc' = pc
    BY <1>8, <1>12
  <2>2. WalkCount' /\ StoreCount'
    BY <1>1, <1>10, <1>11, <1>12, <2>1 DEF WalkCount, StoreCount, StoringRaw, StoringPart
  <2>. QED
    BY <1>8, <1>10, <2>2 DEF Counts, AtBlocks
<1>13. CASE ~ (k + 1 < region.ng)
  <2>1. \/ pc = "before" /\ pc' = "setup"
        \/ pc = "head" /\ pc' = "entries"
        \/ pc = "rest" /\ pc' = "partTable"
    BY <1>1, <1>8, <1>13 DEF AfterRaw
  <2>2. WalkCount' /\ StoreCount'
    BY <1>4, <1>8, <1>10, <1>13, <2>1 DEF WalkCount, StoreCount, StoringRaw, StoringPart
  <2>. QED
    BY <1>8, <1>10, <2>2 DEF Counts, AtBlocks
<1>. QED
  BY <1>12, <1>13

LEMMA WindowBounds ==
  ASSUME NEW f \in Nat, NEW g \in Nat \ {0}
  PROVE  /\ WindowOf(f, g) \in Nat /\ WindowOf(f, g) <= f /\ f < WindowOf(f, g) + g
         /\ \A ns : WindowTo(f, g, ns) = Lesser(ns, WindowOf(f, g) + g)
<1>1. PICK v, r \in Nat : v = f \div g /\ f = g * v + r /\ r < g
  BY DivMod
<1>2. v * g \in Nat /\ g * v = v * g /\ (v + 1) * g = v * g + g
  BY <1>1
<1>. QED
  BY <1>1, <1>2 DEF WindowOf, WindowTo

(* The window of a number is known by a window that the number is in.      *)
LEMMA WindowUnique ==
  ASSUME NEW f \in Nat, NEW g \in Nat \ {0}, NEW x \in Nat
  PROVE  /\ WindowOf(f, g) <= x /\ x < WindowOf(f, g) + g => WindowOf(x, g) = WindowOf(f, g)
         /\ x = WindowOf(f, g) + g => WindowOf(x, g) = x
<1>1. PICK v \in Nat : v = f \div g
  BY DivMod
<1>2. PICK w \in Nat : w = v * g
  BY <1>1
<1>3. WindowOf(f, g) = w /\ g * v = w /\ (v + 1) * g = w + g
  BY <1>1, <1>2 DEF WindowOf
<1>4. PICK p, s \in Nat : p = x \div g /\ x = g * p + s /\ s < g
  BY DivMod
<1>5. ASSUME w <= x, x < w + g
      PROVE  WindowOf(x, g) = w
  <2>1. PICK t \in Nat : t = x - w /\ t < g
    BY <1>5
  <2>2. x = g * v + t
    BY <1>3, <2>1
  <2>3. p = v
    BY <1>1, <1>4, <2>1, <2>2, DivModUnique
  <2>. QED
    BY <1>2, <1>4, <2>3 DEF WindowOf
<1>6. ASSUME x = w + g
      PROVE  WindowOf(x, g) = x
  <2>1. x = g * (v + 1) + 0
    BY <1>3, <1>6
  <2>2. p = v + 1
    BY <1>1, <1>4, <2>1, DivModUnique
  <2>. QED
    BY <1>3, <1>4, <1>6, <2>2 DEF WindowOf
<1>. QED
  BY <1>3, <1>5, <1>6

(* A chunk ends within the window that it begins in.                       *)
LEMMA ChunkInWindow ==
  ASSUME NEW c \in Nat \ {0}, NEW g \in Nat \ {0}, g % c = 0, NEW j \in Nat
  PROVE  j * c + c <= WindowOf(j * c, g) + g
<1>1. PICK f \in Nat : f = j * c
  OBVIOUS
<1>2. PICK v \in Nat : v = f \div g
  BY DivMod
<1>3. PICK w \in Nat : w = v * g
  BY <1>2
<1>4. WindowOf(f, g) = w /\ (v + 1) * g = w + g /\ f < w + g
  BY <1>1, <1>2, <1>3, WindowBounds DEF WindowOf
<1>5. PICK m \in Nat : g = c * m
  <2>1. PICK m \in Nat : m = g \div c
    BY DivMod
  <2>2. g = c * m + 0
    BY <2>1, DivMod
  <2>3. c * m \in Nat
    OBVIOUS
  <2>. QED
    BY <2>2, <2>3
<1>6. PICK q \in Nat : q = (v + 1) * m
  <2>1. PICK u \in Nat : u = v + 1
    OBVIOUS
  <2>2. u * m \in Nat
    OBVIOUS
  <2>. QED
    BY <2>1, <2>2
<1>7. c * q = w + g
  <2>1. c * ((v + 1) * m) = (v + 1) * (c * m)
    BY <1>2, <1>5
  <2>. QED
    BY <1>4, <1>5, <1>6, <2>1
<1>8. j < q
  <2>1. SUFFICES ASSUME q <= j
                 PROVE  FALSE
    BY <1>6
  <2>2. c * q <= c * j
    BY <1>6, <2>1, TimesMonotone
  <2>3. c * j = f
    BY <1>1
  <2>. QED
    BY <1>4, <1>7, <2>2, <2>3
<1>9. c * (j + 1) <= c * q
  BY <1>6, <1>8, TimesMonotone
<1>10. c * (j + 1) = f + c
  BY <1>1
<1>. QED
  BY <1>1, <1>4, <1>7, <1>9, <1>10

LEMMA PartChunkCounts ==
  ASSUME CodeRanges, IInv, CInv, Counts, PartChunk
  PROVE  Counts'
<1> DEFINE last == parts[Len(parts)]
<1>1. /\ StoringPart /\ k \in Nat /\ iso.size \in Nat /\ table # <<>> /\ Typed
      /\ region.ng = CeilDiv(region.ns, ChunkBlocks) /\ k < region.ng
      /\ pc \in {"data0", "data1"}
  BY PartInHand DEF PartChunk
<1>2. PICK fs, ns, lf, ln, b \in Nat :
        /\ fs = region.fs /\ ns = region.ns /\ lf = last.fs /\ ln = last.ns
        /\ b = Block
  BY <1>1, PartInHand, ConstantTypes
<1>3. /\ lastEnd = (lf + ln) * b /\ lastEnd <= iso.size
      /\ pc = "data0" => fs + ns = lf
      /\ pc = "data1" => fs = lf /\ ns = ln
  BY <1>1, <1>2, PartInHand DEF CInv, StoreFront, PartFront, WithinDisc
<1>4. PICK f, n \in Nat :
        /\ f = k * ChunkBlocks /\ n = Expected(ns, k, ChunkBlocks) /\ f < ns
        /\ n <= ChunkBlocks /\ f + n <= ns
        /\ f + n < ns => f + n = (k + 1) * ChunkBlocks
  <2>1. ChunkBlocks \in Nat \ {0} /\ ns \in Nat /\ k \in Nat /\ k < CeilDiv(ns, ChunkBlocks)
    BY <1>1, <1>2, ConstantTypes
  <2>2. /\ k * ChunkBlocks \in Nat /\ k * ChunkBlocks < ns /\ Expected(ns, k, ChunkBlocks) \in Nat
        /\ k * ChunkBlocks + Expected(ns, k, ChunkBlocks) <= ns
        /\ k + 1 < CeilDiv(ns, ChunkBlocks) =>
             k * ChunkBlocks + Expected(ns, k, ChunkBlocks) = (k + 1) * ChunkBlocks
        /\ ~ (k + 1 < CeilDiv(ns, ChunkBlocks)) =>
             k * ChunkBlocks + Expected(ns, k, ChunkBlocks) = ns
    BY <2>1, UnitEnd
  <2>3. PICK f \in Nat : f = k * ChunkBlocks
    BY <2>2
  <2>4. PICK n \in Nat : n = Expected(ns, k, ChunkBlocks) /\ n <= ChunkBlocks
    BY <2>1, <2>2, ExpectedRange
  <2>5. f + n < ns => f + n = (k + 1) * ChunkBlocks
    BY <2>2, <2>3, <2>4
  <2>. QED
    BY <2>2, <2>3, <2>4, <2>5
<1>5. PICK w, e \in Nat :
        /\ w = WindowOf(f, GroupBlocks) /\ w <= e /\ e = WindowTo(f, GroupBlocks, ns)
        /\ f + n = ns => e = ns
        /\ f + n < ns /\ f + n = e => WindowOf(f + n, GroupBlocks) = e
        /\ f + n < ns /\ f + n # e => WindowOf(f + n, GroupBlocks) = w
  <2>1. PICK c, g \in Nat \ {0} : c = ChunkBlocks /\ g = GroupBlocks /\ g % c = 0
    BY ConstantTypes, EncoderAssumption
  <2>2. f = k * c /\ n <= c /\ f + n <= ns /\ f < ns
    BY <1>4, <2>1
  <2>3. f + n < ns => n = c
    <3>1. (k + 1) * c = k * c + c
      BY <1>1
    <3>. QED
      BY <1>4, <2>1, <2>2, <3>1
  <2>4. PICK w, e \in Nat :
          /\ w = WindowOf(f, g) /\ w <= f /\ f < w + g
          /\ e = WindowTo(f, g, ns) /\ e = Lesser(ns, w + g)
    <3>1. PICK w \in Nat :
            /\ w = WindowOf(f, g) /\ w <= f /\ f < w + g
            /\ WindowTo(f, g, ns) = Lesser(ns, w + g)
      <4>1. /\ WindowOf(f, g) \in Nat /\ WindowOf(f, g) <= f /\ f < WindowOf(f, g) + g
            /\ WindowTo(f, g, ns) = Lesser(ns, WindowOf(f, g) + g)
        BY WindowBounds
      <4>. QED
        BY <4>1
    <3>2. Lesser(ns, w + g) \in Nat
      BY DEF Lesser
    <3>. QED
      BY <3>1, <3>2, Zenon
  <2>5. f + c <= w + g
    <3>1. k \in Nat /\ g % c = 0
      BY <1>1, <2>1
    <3>2. k * c + c <= WindowOf(k * c, g) + g
      BY <3>1, ChunkInWindow, Zenon
    <3>. QED
      BY <2>2, <2>4, <3>2
  <2>6. w <= e /\ (f + n = ns => e = ns)
    BY <2>2, <2>4, <2>5 DEF Lesser
  <2>7. f + n < ns /\ f + n = e => WindowOf(f + n, g) = e
    <3>1. f + n < ns /\ f + n = e => f + n = w + g
      BY <2>3, <2>4, <2>5 DEF Lesser
    <3>. QED
      BY <2>4, <3>1, WindowUnique
  <2>8. f + n < ns /\ f + n # e => WindowOf(f + n, g) = w
    <3>1. f + n < ns /\ f + n # e => w <= f + n /\ f + n < w + g
      BY <2>3, <2>4, <2>5 DEF Lesser
    <3>. QED
      BY <2>4, <3>1, WindowUnique
  <2>. QED
    BY <2>1, <2>4, <2>6, <2>7, <2>8
<1>6. bytesDone = (fs + w) * b /\ bytesDone \in Nat /\ Tail(table) \in Seq(AtBlocks)
      /\ table \in Seq(AtBlocks)
  BY <1>1, <1>2, <1>4, <1>5, CountTypes DEF Counts, StoreCount, WindowBegin
<1>7. /\ reported' = bytesDone /\ UNCHANGED <<iso, lastEnd>>
      /\ bytesDone' = IF f + n = e THEN bytesDone + (e - w) * b ELSE bytesDone
      /\ \/ f + n < ns /\ k' = k + 1 /\ UNCHANGED <<pc, table, region>>
         \/ /\ f + n >= ns
            /\ pc = "data0" /\ pc' = "data1" /\ region' = last /\ k' = 0
            /\ UNCHANGED table
         \/ /\ f + n >= ns
            /\ pc = "data1" \/ ln = 0
            /\ pc' = "next" /\ table' = Tail(table)
  <2>1. (f \div GroupBlocks) * GroupBlocks = w /\ WindowEnd = e
    BY <1>2, <1>4, <1>5 DEF WindowOf, WindowTo, WindowEnd
  <2>. QED
    BY <1>2, <1>4, <1>5, <2>1 DEF PartChunk, allotted
<1>8. f + n = e => bytesDone' = (fs + e) * b
  <2>1. PICK x, y \in Nat : x = fs + w /\ y = e - w /\ x + y = fs + e
    BY <1>5
  <2>2. x * b + y * b = (x + y) * b
    BY <2>1, BlocksAdd
  <2>. QED
    BY <1>6, <1>7, <2>1, <2>2
<1>9. bytesDone <= bytesDone' /\ bytesDone' \in Nat
  <2>1. PICK y \in Nat : y = (e - w) * b
    <3>1. PICK u \in Nat : u = e - w
      BY <1>5
    <3>2. u * b \in Nat
      OBVIOUS
    <3>. QED
      BY <3>1, <3>2
  <2>. QED
    BY <1>6, <1>7, <2>1
<1>10. bytesDone' <= iso.size
  <2>1. CASE f + n = e
    <3>1. PICK x, y \in Nat : x = fs + e /\ y = lf + ln /\ x <= y
      <4>1. e <= ns
        BY <1>4, <1>5, <2>1
      <4>. QED
        BY <1>1, <1>3, <4>1
    <3>2. x * b <= y * b /\ x * b \in Nat /\ y * b \in Nat
      BY BlocksMonotone, <3>1
    <3>. QED
      <4>1. PICK s, u \in Nat : s = x * b /\ u = y * b /\ s <= u
        BY <3>2
      <4>2. u <= iso.size /\ bytesDone' = s
        BY <1>3, <1>8, <2>1, <3>1, <4>1
      <4>. QED
        BY <1>1, <4>1, <4>2
  <2>2. CASE f + n # e
    BY <1>7, <2>2 DEF Counts
  <2>. QED
    BY <2>1, <2>2
<1>11. table' \in Seq(AtBlocks)
  BY <1>6, <1>7
<1>12. CASE f + n < ns
  <2>1. WindowBegin' = WindowOf(f + n, GroupBlocks) /\ region'.fs = fs /\ pc' = pc
    <3>1. (k + 1) * ChunkBlocks = f + n /\ k' = k + 1
      BY <1>4, <1>7, <1>12
    <3>2. WindowBegin' = WindowOf((k + 1) * ChunkBlocks, GroupBlocks)
      BY <3>1 DEF WindowBegin, WindowOf
    <3>. QED
      BY <1>2, <1>7, <1>12, <3>1, <3>2
  <2>2. bytesDone' = (region'.fs + WindowBegin') * Block
    <3>1. CASE f + n = e
      BY <1>2, <1>5, <1>8, <1>12, <2>1, <3>1
    <3>2. CASE f + n # e
      BY <1>2, <1>5, <1>6, <1>7, <1>12, <2>1, <3>2
    <3>. QED
      BY <3>1, <3>2
  <2>3. WalkCount' /\ StoreCount'
    BY <1>1, <2>1, <2>2 DEF WalkCount, StoreCount, StoringRaw, StoringPart
  <2>. QED
    BY <1>7, <1>9, <1>10, <1>11, <2>3 DEF Counts, AtBlocks
<1>13. CASE ~ (f + n < ns)
  <2>1. bytesDone' = (fs + ns) * b
    BY <1>4, <1>5, <1>8, <1>13
  <2>2. CASE pc' = "data1"
    <3>1. region' = last /\ k' = 0 /\ fs + ns = lf
      BY <1>1, <1>3, <1>7, <1>13, <2>2
    <3>2. WindowBegin' = 0
      BY <3>1, ConstantTypes DEF WindowBegin, WindowOf
    <3>3. region'.fs + WindowBegin' = fs + ns
      BY <1>2, <3>1, <3>2
    <3>4. WalkCount' /\ StoreCount'
      BY <1>2, <2>1, <2>2, <3>3 DEF WalkCount, StoreCount, StoringRaw, StoringPart
    <3>. QED
      BY <1>7, <1>9, <1>10, <1>11, <3>4 DEF Counts, AtBlocks
  <2>3. CASE pc' = "next"
    <3>1. pc = "data1" \/ ln = 0
      BY <1>1, <1>7, <1>13, <2>3
    <3>2. fs + ns = lf + ln
      BY <1>1, <1>3, <3>1
    <3>3. lastEnd % Block = 0
      <4>1. PICK x \in Nat : x = lf + ln
        OBVIOUS
      <4>2. (0 + x * b) % b = 0 % b
        <5>1. b \in Nat \ {0}
          BY <1>2, ConstantTypes
        <5>. QED
          BY <5>1, ModTurns
      <4>3. 0 % b = 0
        BY <1>2, ConstantTypes
      <4>4. x * b \in Nat /\ 0 + x * b = x * b
        OBVIOUS
      <4>5. (x * b) % b = 0
        BY <4>2, <4>3, <4>4
      <4>. QED
        BY <1>2, <1>3, <4>1, <4>5
    <3>4. WalkCount' /\ StoreCount'
      BY <1>3, <1>7, <2>1, <2>3, <3>2, <3>3 DEF WalkCount, StoreCount, StoringRaw, StoringPart
    <3>. QED
      BY <1>7, <1>9, <1>10, <1>11, <3>4 DEF Counts, AtBlocks
  <2>. QED
    BY <1>7, <1>13, <2>2, <2>3
<1>. QED
  BY <1>12, <1>13

LEMMA RestCounts ==
  ASSUME Counts,
         \/ WritePartTable \/ WriteRawTable \/ WriteGroupTable \/ WriteHeader
         \/ Fail \/ Grow \/ UNCHANGED vars
  PROVE  Counts'
<1>1. UNCHANGED <<iso, table, part, lastEnd, region, k, bytesDone, reported>>
  BY DEF WritePartTable, WriteRawTable, WriteGroupTable, WriteTable, WriteHeader, Fail, Grow,
         vars, plan, cursor, stored
<1>2. \/ pc' = pc \/ pc' = "failed"
      \/ /\ pc \in {"partTable", "rawTable", "groupTable", "header"}
         /\ pc' \in {"rawTable", "groupTable", "header", "done"}
  BY DEF WritePartTable, WriteRawTable, WriteGroupTable, WriteTable, WriteHeader, Fail, Grow, vars
<1>3. WalkCount' /\ StoreCount'
  BY <1>1, <1>2
     DEF Counts, WalkCount, StoreCount, StoringRaw, StoringPart, WindowBegin, WindowOf, AlignDown
<1>. QED
  BY <1>1, <1>3 DEF Counts, AtBlocks

LEMMA FreshCounts ==
  ASSUME Fresh
  PROVE  PInv
<1>1. iso.size \in Nat /\ Block \in Nat \ {0}
  BY FreshIInv, DiscTypes, ConstantTypes DEF IInv
<1>2. WalkCount /\ StoreCount
  BY <1>1 DEF Fresh, WalkCount, StoreCount, StoringRaw, StoringPart
<1>. QED
  BY <1>1, <1>2 DEF Fresh, Counts, PInv

LEMMA NextCounts ==
  ASSUME CodeRanges, IInv, CInv, PInv, [Next]_vars
  PROVE  PInv'
<1> SUFFICES ASSUME Aligned(iso)'
             PROVE  Counts'
  BY DEF PInv
<1>1. UNCHANGED iso
  BY NextKeepsDisc
<1>2. Aligned(iso) /\ Counts
  BY <1>1 DEF PInv, Aligned
<1>3. CASE Begin \/ Detect \/ SkipCandidate
  BY <1>2, <1>3, BeginCounts
<1>4. CASE ReachCandidate \/ ReachEnd
  BY <1>2, <1>4, ReachCounts
<1>5. CASE SetUp
  BY <1>2, <1>5, SetUpCounts
<1>6. CASE ReadFst
  BY <1>2, <1>6, ReadFstCounts
<1>7. CASE CreateEntries
  BY <1>2, <1>7, CreateEntriesCounts
<1>8. CASE RawChunk
  BY <1>2, <1>8, RawChunkCounts
<1>9. CASE PartChunk
  BY <1>2, <1>9, PartChunkCounts
<1>10. CASE \/ WritePartTable \/ WriteRawTable \/ WriteGroupTable \/ WriteHeader
            \/ Fail \/ Grow \/ UNCHANGED vars
  BY <1>2, <1>10, RestCounts
<1>. QED
  BY <1>3, <1>4, <1>5, <1>6, <1>7, <1>8, <1>9, <1>10 DEF Next, Encode

(* On a disc whose regions begin at block boundaries, the progress that    *)
(* compress_raw_region and compress_partition_data count is the way the    *)
(* walk has gone.                                                          *)
THEOREM CountInvariant ==
  ASSUME CodeRanges
  PROVE  Spec => []PInv
<1>1. Init => PInv
  BY InitIsFresh, FreshCounts
<1>2. IInv /\ CInv /\ PInv /\ [Next]_vars => PInv'
  BY NextCounts
<1>. QED
  BY <1>1, <1>2, CoverInvariant, PTL DEF Spec

(* README.md:28: the progress of such a disc never passes its end, and a   *)
(* finished one was counted once as a whole.                               *)
THEOREM ProgressCounted ==
  ASSUME CodeRanges
  PROVE  Spec => []ProgressOfAlignedDisc
<1>1. IInv /\ PInv => ProgressOfAlignedDisc
  <2> SUFFICES ASSUME IInv, PInv, Aligned(iso)
               PROVE  /\ reported <= iso.size
                      /\ pc = "done" /\ iso.size > DiscHeader => bytesDone = iso.size
    BY DEF ProgressOfAlignedDisc, ProgressWithinDisc
  <2>1. Counts /\ reported \in Nat /\ bytesDone \in Nat /\ iso.size \in Nat
    BY CountTypes DEF PInv
  <2>. QED
    BY <2>1 DEF Counts, WalkCount
<1>. QED
  BY <1>1, CountInvariant, EncoderInvariant, PTL
-----------------------------------------------------------------------------
(* Where the entries lie on the disc.                                      *)

\* Entries of a table that end by `f', that follow each other, and that do
\* not overlap those of another.
Below(es, f) == \A n \in DOMAIN es : RegionEnd(es[n]) <= f
InOrder(es) == \A m, n \in DOMAIN es : m < n => RegionEnd(es[m]) <= StartKey(es[n])
Clear(d, e) == RegionEnd(d) <= StartKey(e) \/ RegionEnd(e) <= StartKey(d)
AllClear(rs, ps) == \A m \in DOMAIN rs, n \in DOMAIN ps : Clear(rs[m], ps[n])
Claims(es, g) == \E n \in DOMAIN es : es[n].gi <= g /\ g < es[n].gi + es[n].ng

\* How far the walk has come with its entries.
Front ==
  CASE pc \in {"before", "setup"} -> Head(table).offset
    [] pc = "fst"                 -> part.offset
    [] pc \in {"head", "entries"} -> part.start
    [] pc \in {"rest", "partTable", "rawTable", "groupTable", "header", "done"} -> iso.size
    [] OTHER                      -> lastEnd
Behind(es) == pc \notin {"failed", "panic"} => Below(es, Front)
PartsApart == Behind(parts) /\ InOrder(parts)
RawsApart == Behind(raws) /\ InOrder(raws) /\ AllClear(raws, parts)
AllClaimed == \A g \in 0 .. groupIndex - 1 : Claims(raws, g) \/ Claims(parts, g)
AInv ==
  /\ PartsApart /\ (Aligned(iso) => RawsApart) /\ AllClaimed
  /\ \A n \in DOMAIN raws : raws[n].size > 0

-----------------------------------------------------------------------------
LEMMA RegionTypes ==
  ASSUME NEW e \in Regions
  PROVE  /\ StartKey(e) \in Nat /\ RegionEnd(e) \in Nat /\ StartKey(e) <= RegionEnd(e)
         /\ e.gi \in Nat /\ e.ng \in Nat
<1>1. CASE e \in PartEntries
  <2>1. e.kind = "part" /\ e.fs \in Nat /\ e.ns \in Nat /\ e.gi \in Nat /\ e.ng \in Nat
    BY <1>1, PartEntryTypes
  <2>2. e.fs + e.ns \in Nat /\ e.fs <= e.fs + e.ns
    BY <2>1
  <2>3. e.fs * Block \in Nat /\ (e.fs + e.ns) * Block \in Nat
    BY <2>1, ConstantTypes
  <2>4. e.fs * Block <= (e.fs + e.ns) * Block
    BY <2>1, <2>2, ConstantTypes, BlocksMonotone
  <2>. QED
    BY <2>1, <2>3, <2>4 DEF StartKey, RegionEnd
<1>2. CASE e \in RawEntries
  <2>1. /\ e.kind = "raw" /\ e.offset \in Nat /\ e.size \in Nat /\ e.gi \in Nat /\ e.ng \in Nat
    BY <1>2, RawEntryTypes
  <2>2. AlignDown(e.offset) \in Nat /\ AlignDown(e.offset) <= e.offset
    BY <2>1, AlignDownBelow
  <2>. QED
    BY <2>1, <2>2 DEF StartKey, RegionEnd
<1>. QED
  BY <1>1, <1>2 DEF Regions

(* An entry that begins where the others have ended is clear of them.      *)
LEMMA EntryAppended ==
  ASSUME NEW S, S \subseteq Regions, NEW es \in Seq(S), NEW e \in S, NEW f \in Nat, NEW g \in Nat,
         Below(es, f), f <= g, RegionEnd(e) <= g
  PROVE  /\ Append(es, e) \in Seq(S) /\ Below(Append(es, e), g)
         /\ InOrder(es) /\ f <= StartKey(e) => InOrder(Append(es, e))
<1>1. e \in Regions /\ \A n \in DOMAIN es : es[n] \in Regions
  BY ElementOfSeq
<1>2. /\ StartKey(e) \in Nat /\ RegionEnd(e) \in Nat
      /\ \A n \in DOMAIN es : RegionEnd(es[n]) \in Nat /\ StartKey(es[n]) \in Nat
  BY <1>1, RegionTypes
<1>3. DOMAIN es = 1 .. Len(es) /\ Len(es) \in Nat
  BY LenProperties
<1>4. /\ Append(es, e) \in Seq(S) /\ Len(Append(es, e)) = Len(es) + 1
      /\ \A n \in DOMAIN Append(es, e) :
              \/ n \in DOMAIN es /\ Append(es, e)[n] = es[n]
              \/ n = Len(es) + 1 /\ Append(es, e)[n] = e
  BY AppendElements
<1>5. Below(Append(es, e), g)
  <2> SUFFICES ASSUME NEW n \in DOMAIN Append(es, e)
               PROVE  RegionEnd(Append(es, e)[n]) <= g
    BY DEF Below
  <2>1. CASE n \in DOMAIN es /\ Append(es, e)[n] = es[n]
    <3>1. RegionEnd(es[n]) <= f /\ RegionEnd(es[n]) \in Nat
      BY <1>2, <2>1 DEF Below
    <3>. QED
      BY <2>1, <3>1
  <2>2. CASE Append(es, e)[n] = e
    BY <2>2
  <2>. QED
    BY <1>4, <2>1, <2>2
<1>6. ASSUME InOrder(es), f <= StartKey(e)
      PROVE  InOrder(Append(es, e))
  <2> DEFINE t == Append(es, e)
  <2> SUFFICES ASSUME NEW m \in DOMAIN t, NEW n \in DOMAIN t, m < n
               PROVE  RegionEnd(t[m]) <= StartKey(t[n])
    BY DEF InOrder
  <2>1. m \in 1 .. Len(es) + 1 /\ n \in 1 .. Len(es) + 1
    BY <1>3, <1>4, LenProperties
  <2>2. m \in DOMAIN es /\ t[m] = es[m]
    BY <1>3, <1>4, <2>1
  <2>3. CASE n \in DOMAIN es /\ t[n] = es[n]
    BY <1>6, <2>2, <2>3 DEF InOrder
  <2>4. CASE t[n] = e
    <3>1. RegionEnd(es[m]) <= f /\ RegionEnd(es[m]) \in Nat
      BY <1>2, <2>2 DEF Below
    <3>. QED
      BY <1>2, <1>6, <2>2, <2>4, <3>1
  <2>. QED
    BY <1>4, <2>3, <2>4
<1>. QED
  BY <1>4, <1>5, <1>6

LEMMA ClearAppended ==
  ASSUME NEW S, S \subseteq Regions, NEW T, T \subseteq Regions, NEW es \in Seq(S), NEW e \in S,
         NEW ds \in Seq(T), NEW f \in Nat, Below(ds, f), f <= StartKey(e)
  PROVE  /\ AllClear(es, ds) => AllClear(Append(es, e), ds)
         /\ AllClear(ds, es) => AllClear(ds, Append(es, e))
<1>1. \A n \in DOMAIN ds : ds[n] \in Regions
  BY ElementOfSeq
<1>2. StartKey(e) \in Nat /\ \A n \in DOMAIN ds : RegionEnd(ds[n]) \in Nat
  BY <1>1, RegionTypes
<1>3. \A n \in DOMAIN ds : RegionEnd(ds[n]) <= StartKey(e)
  BY <1>2 DEF Below
<1>4. \A n \in DOMAIN Append(es, e) :
        \/ n \in DOMAIN es /\ Append(es, e)[n] = es[n]
        \/ Append(es, e)[n] = e
  BY AppendElements
<1>. QED
  BY <1>3, <1>4 DEF AllClear, Clear

LEMMA BelowRises ==
  ASSUME NEW S, S \subseteq Regions, NEW es \in Seq(S), NEW f \in Nat, NEW g \in Nat, f <= g,
         Below(es, f)
  PROVE  Below(es, g)
<1>1. \A n \in DOMAIN es : es[n] \in Regions
  BY ElementOfSeq
<1>2. \A n \in DOMAIN es : RegionEnd(es[n]) \in Nat
  BY <1>1, RegionTypes
<1>. QED
  BY <1>2 DEF Below

(* The groups of an entry that gets the next ones are claimed by it.       *)
LEMMA ClaimsAppended ==
  ASSUME NEW S, S \subseteq Regions, NEW es \in Seq(S), NEW e \in S
  PROVE  /\ \A g : Claims(es, g) => Claims(Append(es, e), g)
         /\ \A g : e.gi <= g /\ g < e.gi + e.ng => Claims(Append(es, e), g)
<1>1. DOMAIN es = 1 .. Len(es) /\ Len(es) \in Nat
  BY LenProperties
<1>2. /\ Append(es, e) \in Seq(S) /\ Len(Append(es, e)) = Len(es) + 1
      /\ \A n \in DOMAIN es : Append(es, e)[n] = es[n]
  BY AppendElements
<1>3. DOMAIN Append(es, e) = 1 .. Len(es) + 1 /\ Append(es, e)[Len(es) + 1] = e
  BY <1>1, <1>2, LenProperties, AppendProperties
<1>. QED
  BY <1>1, <1>2, <1>3 DEF Claims

LEMMA PairIsAppends ==
  ASSUME NEW S, NEW s \in Seq(S), NEW a \in S, NEW b \in S
  PROVE  s \o <<a, b>> = Append(Append(s, a), b)
OBVIOUS

-----------------------------------------------------------------------------
Running(p) == p \notin {"failed", "panic"}

LEMMA NothingAdded ==
  ASSUME IInv, AInv, UNCHANGED <<iso, raws, parts, groupIndex>>,
         Running(pc') => /\ Running(pc) /\ Front \in Nat /\ Front' \in Nat /\ Front <= Front'
  PROVE  AInv'
<1>1. raws \in Seq(RawEntries) /\ parts \in Seq(PartEntries)
      /\ RawEntries \subseteq Regions /\ PartEntries \subseteq Regions
  BY DEF IInv, Typed, Regions
<1>2. \A es : Running(pc') => (Below(es, Front)' <=> \A n \in DOMAIN es' : RegionEnd(es'[n]) <= Front')
  BY DEF Below, RegionEnd
<1>3. Behind(parts)'
  <2>1. ASSUME Running(pc')
        PROVE  Below(parts, Front')
    BY <1>1, <2>1, BelowRises DEF AInv, PartsApart, Behind, Running
  <2>. QED
    BY <2>1 DEF Behind, Below, RegionEnd, Running
<1>4. Behind(raws) => Behind(raws)'
  <2>1. ASSUME Running(pc'), Behind(raws)
        PROVE  Below(raws, Front')
    BY <1>1, <2>1, BelowRises DEF Behind, Running
  <2>. QED
    BY <2>1 DEF Behind, Below, RegionEnd, Running
<1>5. PartsApart'
  BY <1>3 DEF AInv, PartsApart, InOrder, RegionEnd, StartKey
<1>6. RawsApart => RawsApart'
  BY <1>4 DEF RawsApart, InOrder, AllClear, Clear, RegionEnd, StartKey, AlignDown
<1>7. Aligned(iso)' = Aligned(iso)
  BY DEF Aligned
<1>8. AllClaimed'
  BY DEF AInv, AllClaimed, Claims
<1>. QED
  BY <1>5, <1>6, <1>7, <1>8 DEF AInv

LEMMA RawAdded ==
  ASSUME IInv, AInv, Running(pc), UNCHANGED <<iso, parts>>,
         NEW e \in RawEntries, raws' = Append(raws, e), e.size > 0,
         e.gi = groupIndex, groupIndex' = groupIndex + e.ng,
         Front \in Nat, Front' \in Nat, Front <= Front', RegionEnd(e) <= Front',
         Aligned(iso) => Front <= StartKey(e)
  PROVE  AInv'
<1>1. raws \in Seq(RawEntries) /\ parts \in Seq(PartEntries) /\ e \in Regions
      /\ RawEntries \subseteq Regions /\ PartEntries \subseteq Regions /\ groupIndex \in Nat
  BY DEF IInv, Typed, Regions
<1>2. Below(parts, Front')
  BY <1>1, BelowRises DEF AInv, PartsApart, Behind, Running
<1>3. PartsApart'
  BY <1>2 DEF AInv, PartsApart, Behind, Below, InOrder, RegionEnd, StartKey
<1>4. ASSUME Aligned(iso)
      PROVE  RawsApart'
  <2>1. Below(raws, Front) /\ InOrder(raws) /\ AllClear(raws, parts) /\ Below(parts, Front)
    BY <1>4 DEF AInv, RawsApart, PartsApart, Behind, Running
  <2>2. Below(Append(raws, e), Front') /\ InOrder(Append(raws, e))
    BY <1>1, <1>4, <2>1, EntryAppended
  <2>3. AllClear(Append(raws, e), parts)
    BY <1>1, <1>4, <2>1, ClearAppended
  <2>. QED
    BY <2>2, <2>3
       DEF RawsApart, Behind, Below, InOrder, AllClear, Clear, RegionEnd, StartKey, AlignDown
<1>5. AllClaimed'
  <2>1. e.gi \in Nat /\ e.ng \in Nat
    BY RawEntryTypes
  <2> SUFFICES ASSUME NEW g \in 0 .. groupIndex' - 1
               PROVE  Claims(raws', g) \/ Claims(parts', g)
    BY Zenon DEF AllClaimed, Claims
  <2>2. CASE g < groupIndex
    <3>1. Claims(raws, g) \/ Claims(parts, g)
      BY <1>1, <2>2 DEF AInv, AllClaimed
    <3>. QED
      BY <1>1, <3>1, ClaimsAppended
  <2>3. CASE ~ (g < groupIndex)
    <3>1. e.gi <= g /\ g < e.gi + e.ng
      BY <1>1, <2>1, <2>3
    <3>. QED
      BY <1>1, <3>1, ClaimsAppended
  <2>. QED
    BY <2>2, <2>3
<1>6. \A n \in DOMAIN raws' : raws'[n].size > 0
  BY <1>1, AppendElements DEF AInv
<1>7. Aligned(iso)' = Aligned(iso)
  BY DEF Aligned
<1>. QED
  BY <1>3, <1>4, <1>5, <1>6, <1>7 DEF AInv

LEMMA PairAdded ==
  ASSUME IInv, AInv, Running(pc), UNCHANGED <<iso, raws>>,
         NEW a \in PartEntries, NEW b \in PartEntries, parts' = parts \o <<a, b>>,
         a.gi = groupIndex, b.gi = groupIndex + a.ng, groupIndex' = groupIndex + a.ng + b.ng,
         Front \in Nat, Front' \in Nat, Front <= StartKey(a), RegionEnd(a) <= StartKey(b),
         RegionEnd(b) <= Front'
  PROVE  AInv'
<1> DEFINE p == Append(parts, a)
           q == Append(p, b)
<1>1. raws \in Seq(RawEntries) /\ parts \in Seq(PartEntries) /\ a \in Regions /\ b \in Regions
      /\ RawEntries \subseteq Regions /\ PartEntries \subseteq Regions /\ groupIndex \in Nat
  BY DEF IInv, Typed, Regions
<1>2. parts' = q
  BY <1>1, PairIsAppends
<1>3. PICK f, e \in Nat : f = RegionEnd(a) /\ e = RegionEnd(b)
  BY <1>1, RegionTypes
<1>4. Front <= f /\ f <= StartKey(b) /\ f <= e /\ e <= Front' /\ Front <= Front' /\ Front <= StartKey(b)
      /\ f <= Front'
  <2>1. /\ StartKey(a) \in Nat /\ StartKey(b) \in Nat /\ StartKey(a) <= RegionEnd(a)
        /\ StartKey(b) <= RegionEnd(b)
    BY <1>1, RegionTypes
  <2>. QED
    BY <1>3, <2>1
<1>5. Below(parts, Front) /\ InOrder(parts)
  BY DEF AInv, PartsApart, Behind, Running
<1>6. p \in Seq(PartEntries) /\ Below(p, f) /\ InOrder(p)
  BY <1>1, <1>3, <1>4, <1>5, EntryAppended
<1>7. q \in Seq(PartEntries) /\ Below(q, Front') /\ InOrder(q)
  <2> HIDE DEF p
  <2>. QED
    BY <1>1, <1>3, <1>4, <1>6, EntryAppended
<1>8. PartsApart'
  BY <1>2, <1>7 DEF PartsApart, Behind, Below, InOrder, RegionEnd, StartKey
<1>9. ASSUME Aligned(iso)
      PROVE  RawsApart'
  <2>1. Below(raws, Front) /\ InOrder(raws) /\ AllClear(raws, parts)
    BY <1>9 DEF AInv, RawsApart, Behind, Running
  <2>2. Below(raws, Front')
    BY <1>1, <1>4, <2>1, BelowRises
  <2>3. AllClear(raws, p)
    BY <1>1, <2>1, ClearAppended
  <2>4. AllClear(raws, q)
    <3> HIDE DEF p
    <3>. QED
      BY <1>1, <1>4, <1>6, <2>1, <2>3, ClearAppended
  <2> HIDE DEF q
  <2>. QED
    BY <1>2, <2>1, <2>2, <2>4
       DEF RawsApart, Behind, Below, InOrder, AllClear, Clear, RegionEnd, StartKey, AlignDown
<1>10. AllClaimed'
  <2>1. a.gi \in Nat /\ a.ng \in Nat /\ b.gi \in Nat /\ b.ng \in Nat
    BY PartEntryTypes
  <2> SUFFICES ASSUME NEW g \in 0 .. groupIndex' - 1
               PROVE  Claims(raws', g) \/ Claims(parts', g)
    BY Zenon DEF AllClaimed, Claims
  <2> HIDE DEF q
  <2>2. Claims(p, g) => Claims(q, g)
    <3> HIDE DEF p
    <3>. QED
      BY <1>1, <1>6, ClaimsAppended DEF q
  <2>3. CASE g < groupIndex
    <3>1. Claims(raws, g) \/ Claims(parts, g)
      BY <1>1, <2>3 DEF AInv, AllClaimed
    <3>2. Claims(parts, g) => Claims(p, g)
      BY <1>1, ClaimsAppended
    <3>. QED
      BY <1>2, <2>2, <3>1, <3>2
  <2>4. CASE ~ (g < groupIndex) /\ g < groupIndex + a.ng
    <3>1. a.gi <= g /\ g < a.gi + a.ng
      BY <1>1, <2>1, <2>4
    <3>2. Claims(p, g)
      BY <1>1, <3>1, ClaimsAppended
    <3>. QED
      BY <1>2, <2>2, <3>2
  <2>5. CASE ~ (g < groupIndex + a.ng)
    <3>1. b.gi <= g /\ g < b.gi + b.ng
      <4>1. PICK n, x, y \in Nat : /\ n = groupIndex /\ x = a.ng /\ y = b.ng
                                   /\ groupIndex' = n + x + y /\ b.gi = n + x
        BY <1>1, <2>1
      <4>. QED
        BY <2>5, <4>1
    <3> HIDE DEF p
    <3>. QED
      BY <1>1, <1>2, <1>6, <3>1, ClaimsAppended DEF q
  <2>. QED
    BY <2>3, <2>4, <2>5
<1>11. Aligned(iso)' = Aligned(iso)
  BY DEF Aligned
<1>. QED
  BY <1>8, <1>9, <1>10, <1>11 DEF AInv

-----------------------------------------------------------------------------
(* A raw region reaches from where the one before it ended, or from the    *)
(* end of the disc header, to its end; it is aligned down to a block.      *)
LEMMA RawAllotted ==
  ASSUME CodeRanges, groupIndex \in Nat, NEW offset \in Nat, NEW size \in Nat,
         NEW during, NEW after, BeginRaw(offset, size, during, after)
  PROVE  \/ UNCHANGED <<raws, groupIndex>>
         \/ \E e \in RawEntries :
              /\ raws' = Append(raws, e) /\ e.size > 0
              /\ e.gi = groupIndex /\ groupIndex' = groupIndex + e.ng
              /\ RegionEnd(e) = offset + size
              /\ offset % Block = 0 => StartKey(e) = offset
<1> DEFINE skip == IF offset < DiscHeader THEN Lesser(DiscHeader - offset, size) ELSE 0
           o == offset + skip
           s == size - skip
           ng == RawChunks(o, s)
           e == [kind |-> "raw", key |-> NoKey, offset |-> o, size |-> s,
                 gi |-> groupIndex, ng |-> ng]
<1>1. DiscHeader \in Nat /\ Block \in Nat \ {0} /\ DiscHeader < Block /\ Chunk \in Nat \ {0}
  BY ConstantTypes DEF CodeRanges
<1>2. skip \in Nat /\ skip <= size /\ s \in Nat /\ o \in Nat /\ o + s = offset + size
  BY <1>1 DEF Lesser
<1>3. CASE size = skip
  BY <1>3 DEF BeginRaw
<1>4. CASE size # skip
  <2>1. raws' = Append(raws, e) /\ groupIndex' = groupIndex + ng
    BY <1>4 DEF BeginRaw
  <2>2. s > 0 /\ (o = offset \/ (o = DiscHeader /\ offset < DiscHeader))
    BY <1>1, <1>2, <1>4 DEF Lesser
  <2> HIDE DEF o, s
  <2>3. ng \in Nat
    <3>1. s + (o % Block) \in Nat
      BY <1>1, <1>2
    <3> DEFINE n == s + (o % Block)
    <3>2. ng = CeilDiv(n, Chunk) /\ n \in Nat
      BY <3>1 DEF RawChunks
    <3> HIDE DEF n, ng
    <3>. QED
      BY <1>1, <3>2, CeilDivBounds
  <2> HIDE DEF ng
  <2>4. e \in RawEntries
    BY <1>2, <2>3 DEF RawEntries
  <2>5. e.size = s /\ e.gi = groupIndex /\ e.ng = ng /\ e.offset = o /\ e.kind = "raw"
    OBVIOUS
  <2> HIDE DEF e
  <2>6. RegionEnd(e) = offset + size
    BY <1>2, <2>5 DEF RegionEnd
  <2>7. ASSUME offset % Block = 0
        PROVE  StartKey(e) = offset
    <3>1. StartKey(e) = AlignDown(o)
      BY <2>5 DEF StartKey
    <3>2. CASE o = offset
      <4>1. AlignDown(offset) \in Nat /\ AlignDown(offset) + (offset % Block) = offset
        BY AlignDownBelow
      <4>. QED
        BY <2>7, <3>1, <3>2, <4>1
    <3>3. CASE o = DiscHeader /\ offset < DiscHeader
      <4>1. offset = 0
        BY <1>1, <2>7, <3>3
      <4>2. AlignDown(DiscHeader) = 0
        BY <1>1 DEF AlignDown
      <4>. QED
        BY <3>1, <3>3, <4>1, <4>2
    <3>. QED
      BY <2>2, <3>2, <3>3
  <2>. QED
    BY <2>1, <2>2, <2>4, <2>5, <2>6, <2>7
<1>. QED
  BY <1>3, <1>4

LEMMA RawIsApart ==
  ASSUME CodeRanges, IInv, AInv, Running(pc), UNCHANGED <<iso, parts>>,
         NEW offset \in Nat, NEW size \in Nat, NEW during, NEW after,
         BeginRaw(offset, size, during, after),
         Front = offset, Front' = offset + size, Aligned(iso) => offset % Block = 0
  PROVE  AInv'
<1>1. groupIndex \in Nat /\ offset + size \in Nat /\ offset <= offset + size
  BY DEF IInv, Typed
<1>2. CASE UNCHANGED <<raws, groupIndex>>
  BY <1>1, <1>2, NothingAdded
<1>3. CASE \E e \in RawEntries :
             /\ raws' = Append(raws, e) /\ e.size > 0
             /\ e.gi = groupIndex /\ groupIndex' = groupIndex + e.ng
             /\ RegionEnd(e) = offset + size
             /\ offset % Block = 0 => StartKey(e) = offset
  <2>1. PICK e \in RawEntries :
             /\ raws' = Append(raws, e) /\ e.size > 0
             /\ e.gi = groupIndex /\ groupIndex' = groupIndex + e.ng
             /\ RegionEnd(e) = offset + size
             /\ offset % Block = 0 => StartKey(e) = offset
    BY <1>3
  <2>. QED
    BY <1>1, <2>1, RawAdded
<1>. QED
  BY <1>1, <1>2, <1>3, RawAllotted

LEMMA ReachApart ==
  ASSUME CodeRanges, IInv, CInv, PInv, AInv, ReachCandidate \/ ReachEnd
  PROVE  AInv'
<1>1. /\ iso.size \in Nat /\ lastEnd \in Nat /\ lastEnd <= iso.size /\ pc = "next" /\ Typed
  BY DiscTypes DEF IInv, Typed, CInv, WithinDisc, ReachCandidate, ReachEnd
<1>2. UNCHANGED <<iso, parts, table>> /\ Front = lastEnd /\ Running(pc)
  BY <1>1 DEF ReachCandidate, ReachEnd, plan, Front, Running
<1>3. Aligned(iso) => lastEnd % Block = 0
  BY <1>1 DEF PInv, Counts, WalkCount
<1>4. CASE ReachCandidate
  <2>1. PICK to \in Nat : to = Head(table).offset /\ to >= lastEnd
    BY <1>1, <1>4, HeadTypes DEF ReachCandidate
  <2>2. to - lastEnd \in Nat /\ lastEnd + (to - lastEnd) = to
    BY <1>1, <2>1
  <2>3. BeginRaw(lastEnd, to - lastEnd, "before", "setup") /\ pc' \in {"before", "setup"}
    BY <1>4, <2>1 DEF ReachCandidate, BeginRaw
  <2>4. Front' = to
    BY <1>2, <2>1, <2>3 DEF Front
  <2>. QED
    BY <1>1, <1>2, <1>3, <2>2, <2>3, <2>4, RawIsApart
<1>5. CASE ReachEnd
  <2>1. Lesser(lastEnd, iso.size) = lastEnd /\ iso.size - lastEnd \in Nat
        /\ lastEnd + (iso.size - lastEnd) = iso.size
    BY <1>1 DEF Lesser
  <2>2. BeginRaw(lastEnd, iso.size - lastEnd, "rest", "partTable") /\ pc' \in {"rest", "partTable"}
    BY <1>5, <2>1 DEF ReachEnd, BeginRaw
  <2>3. Front' = iso.size
    BY <1>2, <2>2 DEF Front
  <2>. QED
    BY <1>1, <1>2, <1>3, <2>1, <2>2, <2>3, RawIsApart
<1>. QED
  BY <1>4, <1>5

LEMMA ReadFstApart ==
  ASSUME CodeRanges, IInv, CInv, PInv, AInv, ReadFst
  PROVE  AInv'
<1>1. /\ part \in [key : Keys \cup {NoKey}, offset : Nat, dataOffset : Nat,
                   start : Nat, end : Nat, split : Nat]
      /\ pc = "fst"
  BY DEF IInv, Typed, ReadFst
<1>2. PICK o, d, s \in Nat : o = part.offset /\ d = part.dataOffset /\ s = part.start
  BY <1>1
<1>3. o + d = s /\ (Aligned(iso) => o % Block = 0)
  BY <1>1, <1>2 DEF CInv, PartSet, PInv, Counts, WalkCount
<1>4. part'.start = s /\ UNCHANGED <<iso, parts>>
  BY <1>1, <1>2 DEF ReadFst
<1>5. BeginRaw(o, d, "head", "entries") /\ pc' \in {"head", "entries"}
  BY <1>2 DEF ReadFst, BeginRaw
<1>6. Front = o /\ Front' = o + d /\ Running(pc)
  BY <1>1, <1>2, <1>3, <1>4, <1>5 DEF Front, Running
<1>. QED
  BY <1>3, <1>4, <1>5, <1>6, RawIsApart

LEMMA SetUpApart ==
  ASSUME CodeRanges, IInv, AInv, SetUp
  PROVE  AInv'
<1> DEFINE c == Head(table)
<1>1. table # <<>> /\ pc = "setup" /\ c.offset \in Nat
  BY HeadTypes DEF IInv, CandidateInHand, SetUp
<1>2. /\ UNCHANGED <<iso, raws, parts, groupIndex>> /\ lastEnd' = c.offset
      /\ pc' \in {"next", "panic", "fst"}
      /\ pc' = "fst" => part'.offset = c.offset
  BY DEF SetUp, allotted
<1>3. Front = c.offset /\ Running(pc) /\ (Running(pc') => Front' = c.offset)
  BY <1>1, <1>2 DEF Front, Running
<1>. QED
  BY <1>1, <1>2, <1>3, NothingAdded

LEMMA CreateEntriesApart ==
  ASSUME CodeRanges, IInv, CInv, AInv, CreateEntries
  PROVE  AInv'
<1>1. PartSet /\ pc = "entries" /\ part.start \in Nat
  BY DEF IInv, Typed, CInv, CreateEntries
<1>2. UNCHANGED <<iso, raws>> /\ Front = part.start /\ Running(pc)
  BY <1>1 DEF CreateEntries, Front, Running
<1>3. PICK e0, e1 \in PartEntries :
        /\ e0.fs * Block = part.start /\ e0.fs + e0.ns = e1.fs
        /\ parts' = parts \o <<e0, e1>>
        /\ e0.gi = groupIndex /\ e1.gi = groupIndex + e0.ng
        /\ groupIndex' = groupIndex + e0.ng + e1.ng
        /\ lastEnd' = (e1.fs + e1.ns) * Block
        /\ pc' \in {"data0", "data1", "next"}
  BY <1>1, EntriesCreated
<1>4. /\ StartKey(e0) = part.start /\ RegionEnd(e0) = StartKey(e1)
      /\ RegionEnd(e1) = lastEnd' /\ Front' = lastEnd'
  BY <1>3, PartEntryTypes DEF StartKey, RegionEnd, Front
<1>5. RegionEnd(e1) \in Nat /\ StartKey(e1) \in Nat
  BY RegionTypes DEF Regions
<1>6. /\ Front \in Nat /\ Front' \in Nat /\ Front <= StartKey(e0)
      /\ RegionEnd(e0) <= StartKey(e1) /\ RegionEnd(e1) <= Front'
  BY <1>1, <1>2, <1>4, <1>5
<1>. QED
  BY <1>2, <1>3, <1>6, PairAdded

LEMMA RestApart ==
  ASSUME CodeRanges, IInv, CInv, AInv,
         \/ Begin \/ Detect \/ SkipCandidate \/ RawChunk \/ PartChunk
         \/ WritePartTable \/ WriteRawTable \/ WriteGroupTable \/ WriteHeader
         \/ Grow \/ Fail \/ UNCHANGED vars
  PROVE  AInv'
<1>1. UNCHANGED <<iso, raws, parts, groupIndex, part, lastEnd>>
  BY DEF Begin, Detect, SkipCandidate, RawChunk, PartChunk, WritePartTable, WriteRawTable,
         WriteGroupTable, WriteHeader, WriteTable, Grow, Fail, vars, plan, allotted
<1>2. \/ pc' = "failed"
      \/ pc' = pc /\ (table' = table \/ pc \notin {"before", "setup"})
      \/ table' = table /\ pc = "before" /\ pc' = "setup"
      \/ table' = table /\ pc = "head" /\ pc' = "entries"
      \/ /\ pc \in {"rest", "partTable", "rawTable", "groupTable", "header"}
         /\ pc' \in {"partTable", "rawTable", "groupTable", "header", "done"}
      \/ pc \in {"begin", "detect", "data0", "data1"} /\ pc' \in {"detect", "next", "data1"}
  BY DEF Begin, Detect, SkipCandidate, RawChunk, PartChunk, WritePartTable, WriteRawTable,
         WriteGroupTable, WriteHeader, WriteTable, Grow, Fail, vars, plan, AfterRaw, StoringRaw,
         StoringPart
<1>3. Running(pc') => Running(pc) /\ Front' = Front
  BY <1>1, <1>2 DEF Running, Front
<1>4. Running(pc) => Front \in Nat
  <2>1. pc \in {"before", "setup"} => Head(table).offset \in Nat
    BY HeadTypes DEF IInv, CandidateInHand
  <2>2. part.offset \in Nat /\ part.start \in Nat /\ iso.size \in Nat /\ lastEnd \in Nat
    BY DiscTypes DEF IInv, Typed
  <2>. QED
    BY <2>1, <2>2 DEF Front
<1>. QED
  BY <1>1, <1>3, <1>4, NothingAdded

LEMMA FreshApart ==
  ASSUME Fresh
  PROVE  AInv
BY DEF Fresh, AInv, PartsApart, RawsApart, Behind, Below, InOrder, AllClear, AllClaimed

LEMMA NextApart ==
  ASSUME CodeRanges, IInv, CInv, PInv, AInv, [Next]_vars
  PROVE  AInv'
<1>1. CASE ReachCandidate \/ ReachEnd
  BY <1>1, ReachApart
<1>2. CASE SetUp
  BY <1>2, SetUpApart
<1>3. CASE ReadFst
  BY <1>3, ReadFstApart
<1>4. CASE CreateEntries
  BY <1>4, CreateEntriesApart
<1>5. CASE \/ Begin \/ Detect \/ SkipCandidate \/ RawChunk \/ PartChunk
           \/ WritePartTable \/ WriteRawTable \/ WriteGroupTable \/ WriteHeader
           \/ Grow \/ Fail \/ UNCHANGED vars
  BY <1>5, RestApart
<1>. QED
  BY <1>1, <1>2, <1>3, <1>4, <1>5 DEF Next, Encode

(* The entries of the tables name each group, and do not overlap: those of *)
(* partitions never, raw ones when the disc is cut at block boundaries.    *)
THEOREM EntriesApart ==
  ASSUME CodeRanges
  PROVE  Spec => []AInv
<1>1. Init => AInv
  BY InitIsFresh, FreshApart
<1>2. IInv /\ CInv /\ PInv /\ AInv /\ [Next]_vars => AInv'
  BY NextApart
<1>. QED
  BY <1>1, <1>2, CoverInvariant, CountInvariant, PTL DEF Spec
=============================================================================
