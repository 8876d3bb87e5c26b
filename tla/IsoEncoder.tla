----------------------------- MODULE IsoEncoder -----------------------------
(***************************************************************************)
(* The encoder (crates/rvz/src/encoder.rs): compress_iso walks the disc    *)
(* once, allots the groups of each region and then stores them chunk by    *)
(* chunk; encode_iso_to_rvz lays them out in the container, then the       *)
(* tables, then the header.  The disc may still be growing (--follow).     *)
(***************************************************************************)
EXTENDS RvzFormat

CONSTANTS
  Isos,          \* discs that may be encoded
  DiscHeader,    \* DISC_HEADER_SIZE
  TableInfo,     \* end of the directory of the partition tables of a Wii disc
  TableEnd,      \* end of those tables
  PartHeader,    \* WII_PARTITION_HEADER_SIZE
  HeaderArea,    \* HEADER_AREA_SIZE of the container
  OffsetRange,   \* number of values of ValidPartition.data_offset, a u32
  StoredSizes,   \* lengths a compressed chunk may have
  RawEntrySize,  \* RAW_ENTRY_SIZE
  GroupEntrySize,\* GROUP_ENTRY_SIZE
  TableSizes     \* lengths a compressed table of the container may have

\* What the partition table says of a partition, and its header; `fst' is
\* the end of its file system table in the data, `grp' the table it is in.
Partitions ==
  [grp : Nat, offset : Nat, magic : BOOLEAN, key : Keys,
   dataOffset : Nat, dataSize : Nat, fst : Nat]
Discs == [size : Nat, wii : BOOLEAN, table : Seq(Partitions)]

ASSUME EncoderAssumption ==
  /\ Isos \subseteq Discs
  /\ \A d \in Isos : d.wii => d.size >= DiscHeader
  /\ DiscHeader \in 1 .. Block
  /\ TableEnd \in Nat /\ TableInfo \in 0 .. TableEnd /\ PartHeader \in Nat
  /\ HeaderArea \in Nat /\ HeaderArea % 4 = 0
  /\ OffsetRange \in Nat \ {0}
  /\ RawEntrySize \in Nat /\ GroupEntrySize \in Nat
  /\ StoredSizes \subseteq Nat \ {0} /\ TableSizes \subseteq Nat \ {0}
  /\ GroupBlocks % ChunkBlocks = 0

VARIABLES
  iso,         \* the disc
  available,   \* bytes of it that can be read by now
  pc,          \* where encode_iso_to_rvz is
  table,       \* candidates not yet passed
  part,        \* the partition set up: its key and where its data lies
  lastEnd,     \* last_end
  region,      \* the entry whose chunks are being stored
  k,           \* the next chunk of it
  groupIndex,  \* group_index: groups allotted
  raws,        \* raw_entries
  parts,       \* partition_entries, their data entries in a row
  chunks,      \* group_entries, each with the range of the disc it came from
  bytesDone,   \* bytes_done
  reported,    \* the last progress reported
  pos,         \* end of the container so far
  tables,      \* tables written to the container, in order
  header       \* "none", "zero" (reserved) or "full"

plan == <<table, part, lastEnd>>
allotted == <<groupIndex, raws, parts>>
cursor == <<region, k>>
stored == <<chunks, bytesDone, reported>>
container == <<pos, tables, header>>
vars == <<iso, available, pc, plan, allotted, cursor, stored, container>>

NoPartition == [key |-> NoKey, offset |-> 0, dataOffset |-> 0,
                start |-> 0, end |-> 0, split |-> 0]
NoRegion == [kind |-> "raw", key |-> NoKey, offset |-> 0, size |-> 0, gi |-> 0, ng |-> 0]

Init ==
  /\ iso \in Isos /\ available = 0
  /\ pc = "begin"
  /\ table = <<>> /\ part = NoPartition /\ lastEnd = 0
  /\ groupIndex = 0 /\ raws = <<>> /\ parts = <<>>
  /\ region = NoRegion /\ k = 0
  /\ chunks = <<>> /\ bytesDone = 0 /\ reported = 0
  /\ pos = HeaderArea /\ tables = <<>> /\ header = "none"

-----------------------------------------------------------------------------
(* Reading.                                                                *)

StoringRaw == pc \in {"before", "head", "rest"}
StoringPart == pc \in {"data0", "data1"}

\* Blocks of a partition are read a window of GroupBlocks at a time.
WindowEnd == Lesser(region.ns, (((k * ChunkBlocks) \div GroupBlocks) + 1) * GroupBlocks)
ChunkEnd == AlignDown(region.offset) + k * Chunk + Expected(LogicalSize(region), k, Chunk)

\* The end of what the next step reads of the disc, where raw regions are
\* read up to rawEnd.
WantedWith(rawEnd) ==
  CASE pc = "begin"  -> DiscHeader
    [] pc = "detect" -> TableEnd
    [] pc = "setup"  -> Head(table).offset + PartHeader
    [] pc = "fst"    -> part.start + Block
    [] StoringRaw    -> rawEnd
    [] StoringPart   -> (region.fs + WindowEnd) * Block
    [] OTHER         -> 0

\* Seeded bug: a raw region is read as a whole before its first chunk.
WantedByRegion == WantedWith(region.offset + region.size)
Wanted == WantedWith(ChunkEnd)

\* Seeded bug: a read past the end of the disc waits for it to grow further.
ReadableUnclipped == available >= Wanted

\* FollowReader waits for the bytes that the finished disc will have.
Readable == available >= Lesser(Wanted, iso.size)

Grow ==
  /\ available < iso.size
  /\ available' = Lesser(iso.size, available + Block)
  /\ UNCHANGED <<iso, pc, plan, allotted, cursor, stored, container>>

-----------------------------------------------------------------------------
(* Allotting groups and storing chunks.                                    *)

\* Seeded bug: a raw region is cut into chunks from its unaligned offset.
RawChunksUnaligned(offset, size) == CeilDiv(size, Chunk)
RawChunks(offset, size) == CeilDiv(size + (offset % Block), Chunk)

\* compress_raw_region up to its first chunk: an entry for the range but
\* for the disc header.  Without an entry the next step is `after'.
BeginRaw(offset, size, during, after) ==
  LET skip == IF offset < DiscHeader THEN Lesser(DiscHeader - offset, size) ELSE 0
      ng   == RawChunks(offset + skip, size - skip)
      e    == [kind |-> "raw", key |-> NoKey, offset |-> offset + skip,
               size |-> size - skip, gi |-> groupIndex, ng |-> ng]
  IN  \/ /\ size = skip
         /\ pc' = after
         /\ UNCHANGED <<raws, groupIndex, region, k>>
      \/ /\ size # skip
         /\ pc' = during
         /\ raws' = Append(raws, e)
         /\ groupIndex' = groupIndex + ng
         /\ region' = e
         /\ k' = 0

\* Seeded bug: the size is not rounded down to blocks before it is cut.
EntryUnrounded(key, offset, size, gi) ==
  [kind |-> "part", key |-> key, fs |-> offset \div Block, ns |-> size \div Block,
   gi |-> gi, ng |-> CeilDiv(size, Chunk)]

\* create_pde
Entry(key, offset, size, gi) ==
  [kind |-> "part", key |-> key, fs |-> offset \div Block, ns |-> size \div Block,
   gi |-> gi, ng |-> CeilDiv(AlignDown(size), Chunk)]

\* Seeded bug: the container is not padded after a chunk.
Unpadded(n) == n
Padded(n) == n + ((4 - (n % 4)) % 4)

\* on_chunk: the chunk made from [from, from + size) of the disc goes to the
\* end of the container.  The group table counts positions in words.
Store(from, size) ==
  \E len \in StoredSizes :
    /\ chunks' = Append(chunks, [from |-> from, size |-> size, word |-> pos \div 4, len |-> len])
    /\ pos' = Padded(pos + len)

\* Where compress_iso goes on after the last chunk of a raw region.
AfterRaw == CASE pc = "before" -> "setup"
              [] pc = "head"   -> "entries"
              [] pc = "rest"   -> "partTable"

\* Seeded bug: every chunk counts as a full one.
CountedFull(len) == Chunk
Counted(len) == len

RawChunk ==
  LET from == AlignDown(region.offset) + k * Chunk
      len  == Expected(LogicalSize(region), k, Chunk)
  IN  /\ StoringRaw
      /\ Readable
      /\ Store(from, len)
      /\ bytesDone' = bytesDone + Counted(len)
      /\ reported' = bytesDone'
      /\ k' = k + 1
      /\ pc' = IF k + 1 < region.ng THEN pc ELSE AfterRaw
      /\ UNCHANGED <<iso, available, plan, allotted, region, tables, header>>

\* The window counts as done after its last chunk, which still reports the
\* progress before it.
PartChunk ==
  LET first == k * ChunkBlocks
      n     == Expected(region.ns, k, ChunkBlocks)
      full  == first + n = WindowEnd
      last  == parts[Len(parts)]
  IN  /\ StoringPart
      /\ Readable
      /\ Store((region.fs + first) * Block, n * Block)
      /\ bytesDone' = IF full THEN bytesDone + (WindowEnd - (first \div GroupBlocks) * GroupBlocks) * Block
                              ELSE bytesDone
      /\ reported' = bytesDone
      /\ \/ /\ first + n < region.ns
            /\ k' = k + 1
            /\ UNCHANGED <<pc, table, region>>
         \/ /\ first + n >= region.ns
            /\ pc = "data0" /\ last.ns > 0
            /\ pc' = "data1" /\ region' = last /\ k' = 0
            /\ UNCHANGED table
         \/ /\ first + n >= region.ns
            /\ pc = "data1" \/ last.ns = 0
            /\ pc' = "next" /\ table' = Tail(table)
            /\ UNCHANGED <<region, k>>
      /\ UNCHANGED <<iso, available, part, lastEnd, allotted, tables, header>>

-----------------------------------------------------------------------------
(* The walk over the disc.                                                 *)

Begin ==
  /\ pc = "begin"
  /\ Readable
  /\ header' = "zero"
  /\ pc' = IF iso.wii THEN "detect" ELSE "next"
  /\ UNCHANGED <<iso, available, plan, allotted, cursor, stored, pos, tables>>

\* The candidates in the order they are walked: sorted by offset with a
\* stable sort, without those past the end of the disc and without those of
\* the tables `lost', which could not be read.
Walks(lost) ==
  LET t == iso.table
      kept == {n \in DOMAIN t : t[n].offset < iso.size /\ t[n].grp \notin lost}
      earlier(m, n) == \/ t[m].offset < t[n].offset
                       \/ t[m].offset = t[n].offset /\ m < n
  IN  {[n \in DOMAIN p |-> t[p[n]]] :
        p \in {q \in [1 .. Cardinality(kept) -> kept] :
                 \A m, n \in DOMAIN q : m < n => earlier(q[m], q[n])}}

\* A table that cannot be read is passed over; one that can be is not read
\* before it is there.
Detect ==
  /\ pc = "detect"
  /\ \/ /\ iso.size < TableEnd
        /\ table' = <<>>
     \/ /\ iso.size >= TableEnd /\ available >= TableInfo
        /\ \E lost \in SUBSET {iso.table[n].grp : n \in DOMAIN iso.table} :
             (Readable \/ lost # {}) /\ table' \in Walks(lost)
  /\ pc' = "next"
  /\ UNCHANGED <<iso, available, part, lastEnd, allotted, cursor, stored, container>>

\* A candidate inside the partition before it.
SkipCandidate ==
  /\ pc = "next"
  /\ table # <<>>
  /\ Head(table).offset < lastEnd
  /\ table' = Tail(table)
  /\ UNCHANGED <<iso, available, pc, part, lastEnd, allotted, cursor, stored, container>>

ReachCandidate ==
  /\ pc = "next"
  /\ table # <<>>
  /\ Head(table).offset >= lastEnd
  /\ BeginRaw(lastEnd, Head(table).offset - lastEnd, "before", "setup")
  /\ UNCHANGED <<iso, available, plan, parts, stored, container>>

\* set_up_partition returns None before or after reading the header.
Rejected(c) ==
  LET start == c.offset + c.dataOffset
  IN  \/ c.offset + PartHeader > iso.size
      \/ ~ c.magic
      \/ start % Block # 0
      \/ c.dataSize < Block
      \/ start + c.dataSize > iso.size /\ start <= iso.size /\ iso.size - start < Block

\* The subtraction iso_size - data_start overflows: a debug build stops
\* there, a release build once it slices the empty read of the data.
Overruns(c) == ~ Rejected(c) /\ c.offset + c.dataOffset > iso.size

SetUp ==
  LET c     == Head(table)
      start == c.offset + c.dataOffset
  IN  /\ pc = "setup"
      /\ c.offset + PartHeader <= iso.size => Readable
      /\ lastEnd' = c.offset
      /\ \/ /\ Rejected(c)
            /\ pc' = "next"
            /\ table' = Tail(table)
            /\ part' = part
         \/ /\ Overruns(c)
            /\ pc' = "panic"
            /\ UNCHANGED <<table, part>>
         \/ /\ ~ Rejected(c) /\ ~ Overruns(c)
            /\ pc' = "fst"
            /\ part' = [key |-> c.key, offset |-> c.offset,
                        dataOffset |-> c.dataOffset % OffsetRange,
                        start |-> start, end |-> Lesser(start + c.dataSize, iso.size),
                        split |-> start]
            /\ UNCHANGED table
      /\ UNCHANGED <<iso, available, allotted, cursor, stored, container>>

\* Seeded bug: the split is not kept inside the data.
SplitAtUnclipped(p, fst) ==
  p.start + CeilDiv(fst, GroupBlocks * Block) * GroupBlocks * Block

\* The data is split at the end of the hash group that the FST ends in, or
\* at its start when the FST cannot be read.
SplitAt(p, fst) ==
  Lesser(p.end, p.start + CeilDiv(fst, GroupBlocks * Block) * GroupBlocks * Block)

ReadFst ==
  /\ pc = "fst"
  /\ \/ /\ Readable
        /\ part' = [part EXCEPT !.split = SplitAt(part, Head(table).fst)]
     \/ part' = [part EXCEPT !.split = SplitAt(part, 0)]
  /\ BeginRaw(part.offset, part.dataOffset, "head", "entries")
  /\ UNCHANGED <<iso, available, table, lastEnd, parts, stored, container>>

\* Both data entries get their groups before either is compressed.
CreateEntries ==
  LET e0 == Entry(part.key, part.start, part.split - part.start, groupIndex)
      e1 == Entry(part.key, part.split, part.end - part.split, groupIndex + e0.ng)
  IN  /\ pc = "entries"
      /\ parts' = parts \o <<e0, e1>>
      /\ groupIndex' = groupIndex + e0.ng + e1.ng
      /\ lastEnd' = (e1.fs + e1.ns) * Block
      /\ k' = 0
      /\ \/ /\ e0.ns > 0
            /\ pc' = "data0" /\ region' = e0 /\ table' = table
         \/ /\ e0.ns = 0 /\ e1.ns > 0
            /\ pc' = "data1" /\ region' = e1 /\ table' = table
         \/ /\ e0.ns = 0 /\ e1.ns = 0
            /\ pc' = "next" /\ region' = region /\ table' = Tail(table)
      /\ UNCHANGED <<iso, available, part, raws, stored, container>>

ReachEnd ==
  /\ pc = "next"
  /\ table = <<>>
  /\ BeginRaw(lastEnd, iso.size - Lesser(lastEnd, iso.size), "rest", "partTable")
  /\ UNCHANGED <<iso, available, plan, parts, stored, container>>

-----------------------------------------------------------------------------
(* The tables and, last of all, the header.                                *)

WriteTable(what, len) ==
  /\ tables' = Append(tables, [what |-> what, at |-> pos, len |-> len])
  /\ UNCHANGED <<iso, available, plan, allotted, cursor, stored, header>>

WritePartTable ==
  /\ pc = "partTable"
  /\ pc' = "rawTable"
  /\ \/ /\ parts # <<>>
        /\ pos' = Padded(pos + Len(parts))
        /\ WriteTable("part", Len(parts))
     \/ /\ parts = <<>>
        /\ UNCHANGED <<iso, available, plan, allotted, cursor, stored, container>>

WriteRawTable ==
  /\ pc = "rawTable"
  /\ pc' = "groupTable"
  /\ \E len \in TableSizes : WriteTable("raw", len) /\ pos' = Padded(pos + len)

WriteGroupTable ==
  /\ pc = "groupTable"
  /\ pc' = "header"
  /\ \E len \in TableSizes : WriteTable("group", len) /\ pos' = pos + len

\* Seeded bug: the header is written before the tables it describes.
WriteHeaderEarly ==
  /\ pc \in {"partTable", "header"}
  /\ header' = "full"
  /\ pc' = IF pc = "header" THEN "done" ELSE "rawTable"
  /\ UNCHANGED <<iso, available, plan, allotted, cursor, stored, pos, tables>>

WriteHeader ==
  /\ pc = "header"
  /\ header' = "full"
  /\ pc' = "done"
  /\ UNCHANGED <<iso, available, plan, allotted, cursor, stored, pos, tables>>

\* table_bytes: a reader takes a table that has the length of its entries for
\* an uncompressed one.
TakenAsPlain(t) ==
  \/ t.what = "raw" /\ t.len = Len(raws) * RawEntrySize
  \/ t.what = "group" /\ t.len = Len(chunks) * GroupEntrySize

Stopped == pc \in {"done", "failed", "panic"}

\* A read or a write returns an error (FollowReader gives up on a disc that
\* stopped growing), and encode_iso_to_rvz returns it.
Fail ==
  /\ ~ Stopped
  /\ pc' = "failed"
  /\ UNCHANGED <<iso, available, plan, allotted, cursor, stored, container>>

Encode == \/ Begin \/ Detect \/ SkipCandidate \/ ReachCandidate \/ SetUp \/ ReadFst
          \/ CreateEntries \/ RawChunk \/ PartChunk \/ ReachEnd
          \/ WritePartTable \/ WriteRawTable \/ WriteGroupTable \/ WriteHeader

Next == Encode \/ Grow \/ Fail

Spec == Init /\ [][Next]_vars

\* The encoder runs on its own; the disc is being read by its drive.
FairSpec == Spec /\ WF_vars(Encode) /\ WF_vars(Grow)
=============================================================================
