------------------------- MODULE PullDecoder_proofs -------------------------
(***************************************************************************)
(* PullDecoder keeps its types, refuses a sound container only for a       *)
(* failed read, implements the stream of the container, and leaves nothing *)
(* of it unwritten, for all containers, keys and sizes.                    *)
(***************************************************************************)
EXTENDS PullDecoderProps, HashGroup_proofs

Results == {"", "ok", "BadHeader", "SizeMismatch", "MissingGroup", "BadRecord"}

\* The tables are those of the container once they are read.
TablesOfFile ==
  /\ pc \in {"rawTable", "groupTable", "regions"} => parts = file.parts
  /\ pc \in {"groupTable", "regions"} => rawEntries = file.raws
  /\ pc = "regions" => groups = file.groups

\* The regions are entries of the tables: of well-formed ones each has the
\* groups that its size needs.
RegionsOfTables ==
  pc = "regions" /\ WellFormed(file) => AllWellFormed(regions, groups)

\* The loops are at a group of their region, in the loop for its kind.
CursorInRegion ==
  pc = "regions" =>
    /\ regionIdx \in 1 .. Len(regions)
    /\ part.on = (Region.kind = "part")
    /\ (IF part.on THEN part.i ELSE i) < Region.ng

\* No block that was received is missing from the buffer.
BufferGapless == pc = "regions" /\ part.on => Gapless(part)

IInv ==
  TypeOK /\ TablesOfFile /\ RegionsOfTables /\ CursorInRegion /\ BufferGapless /\ SoundIsDecoded

-----------------------------------------------------------------------------
LEMMA InitIInv == Init => IInv
<1> SUFFICES ASSUME Init PROVE IInv
  OBVIOUS
<1>1. NoPart \in PartStates
  BY PartStartGapless
<1>2. \A S : <<>> \in Seq(S)
  BY EmptySeq
<1>3. regionIdx \in 1 .. Len(regions) + 1
  <2>1. Len(regions) = 0
    BY EmptySeq DEF Init
  <2>2. regionIdx = 1
    BY DEF Init
  <2>. QED
    BY <2>1, <2>2
<1>4. /\ parts \in Seq(PartEntries) /\ rawEntries \in Seq(RawEntries)
      /\ groups \in Seq(GroupEntries) /\ regions \in Seq(PartEntries \cup RawEntries)
      /\ writes \in Seq(OutputRecords)
  BY <1>2 DEF Init
<1>5. TypeOK
  BY <1>1, <1>3, <1>4 DEF Init, TypeOK
<1>. QED
  BY <1>5 DEF Init, IInv, TablesOfFile, RegionsOfTables, CursorInRegion, BufferGapless,
              SoundIsDecoded

\* Going on at the next region with groups, or ending.
LEMMA EnterRegionKeepsCursor ==
  ASSUME regions' \in Seq(RegionEntries), NEW r \in 1 .. Len(regions') + 1,
         result \in Results, EnterRegion(r)
  PROVE  /\ pc' \in {"regions", "end"} /\ regionIdx' \in 1 .. Len(regions') + 1
         /\ i' \in Nat /\ part' \in PartStates
         /\ result' = IF pc' = "end" THEN "ok" ELSE result
         /\ CursorInRegion' /\ BufferGapless'
<1>1. Len(regions') \in Nat
  BY LenProperties
<1>2. PICK q \in r .. Len(regions') + 1 :
        /\ IsNextBusy(regions', r, q) /\ regionIdx' = q /\ i' = 0
        /\ \/ /\ q > Len(regions') /\ pc' = "end" /\ part' = NoPart /\ result' = "ok"
           \/ /\ q <= Len(regions') /\ pc' = "regions"
              /\ part' = IF regions'[q].kind = "part" THEN PartStart ELSE NoPart
              /\ result' = result
  BY DEF EnterRegion
<1>3. q \in 1 .. Len(regions') + 1
  BY <1>1
<1>4. /\ PartStart \in PartStates /\ NoPart \in PartStates
      /\ PartStart.on /\ ~ NoPart.on /\ PartStart.i = 0 /\ Gapless(PartStart)
  BY PartStartGapless
<1>5. CASE q > Len(regions')
  BY <1>1, <1>2, <1>3, <1>4, <1>5 DEF CursorInRegion, BufferGapless
<1>6. CASE q <= Len(regions')
  <2>0. q \in 1 .. Len(regions') /\ IsNextBusy(regions', r, q)
    BY <1>1, <1>2, <1>3, <1>6
  <2>1. regions'[q] \in RegionEntries /\ regions'[q].ng > 0
    BY <1>1, <1>6, <2>0, ElementOfSeq DEF IsNextBusy
  <2>2. pc' = "regions" /\ part' = (IF regions'[q].kind = "part" THEN PartStart ELSE NoPart)
    BY <1>1, <1>2, <1>3, <1>6
  <2>3. CursorInRegion'
    <3>1. regionIdx' = q /\ i' = 0
      BY <1>2
    <3>2. Region' = regions'[q]
      BY <3>1 DEF Region
    <3>3. part'.on = (regions'[q].kind = "part") /\ (part'.on => part'.i = 0)
      <4>1. PartStart.on = TRUE /\ NoPart.on = FALSE /\ PartStart.i = 0
        BY DEF PartStart, NoPart
      <4>2. CASE regions'[q].kind = "part"
        BY <2>2, <4>1, <4>2
      <4>3. CASE regions'[q].kind # "part"
        BY <2>2, <4>1, <4>3
      <4>. QED
        BY <4>2, <4>3
    <3>4. 0 < regions'[q].ng
      <4>1. regions'[q].ng \in Nat /\ regions'[q].ng > 0
        BY <2>1 DEF RegionEntries, PartEntries, RawEntries
      <4>. QED
        BY <4>1
    <3>. QED
      BY <2>0, <3>1, <3>2, <3>3, <3>4 DEF CursorInRegion
  <2>4. BufferGapless'
    BY <1>4, <2>2 DEF BufferGapless
  <2>. QED
    BY <1>2, <1>3, <1>4, <2>2, <2>3, <2>4
<1>. QED
  BY <1>1, <1>3, <1>5, <1>6

-----------------------------------------------------------------------------
\* What IInv says of the variables, ready to be cited.
LEMMA Types ==
  ASSUME IInv
  PROVE  /\ file \in Containers /\ parts \in Seq(PartEntries) /\ rawEntries \in Seq(RawEntries)
         /\ groups \in Seq(GroupEntries) /\ regions \in Seq(RegionEntries)
         /\ Len(regions) \in Nat /\ Len(groups) \in Nat
         /\ regionIdx \in 1 .. Len(regions) + 1 /\ i \in Nat /\ part \in PartStates
         /\ writes \in Seq(OutputRecords) /\ result \in Results
<1>1. Len(regions) \in Nat /\ Len(groups) \in Nat
  BY LenProperties DEF IInv, TypeOK
<1>. QED
  BY <1>1, FilesAssumption DEF IInv, TypeOK, RegionEntries, Results

LEMMA TablesKeepIInv ==
  ASSUME IInv, ReadHeader \/ ReadRawTable
  PROVE  IInv'
<1>1. /\ file.parts \in Seq(PartEntries) /\ file.raws \in Seq(RawEntries)
  BY Types DEF Containers
<1>2. /\ UNCHANGED <<file, groups, regions, regionIdx, i, part, writes, result>>
      /\ pc' \in {"rawTable", "groupTable"} /\ parts' = file.parts
      /\ pc' = "groupTable" => rawEntries' = file.raws
      /\ rawEntries' \in Seq(RawEntries)
  BY <1>1, Types DEF IInv, TablesOfFile, ReadHeader, ReadRawTable, loop
<1>3. TypeOK'
  BY <1>1, <1>2 DEF IInv, TypeOK
<1>. QED
  BY <1>2, <1>3 DEF IInv, TablesOfFile, RegionsOfTables, CursorInRegion, BufferGapless,
                    SoundIsDecoded

LEMMA GroupTableKeepsIInv ==
  ASSUME IInv, ReadGroupTable
  PROVE  IInv'
<1>1. file \in Containers /\ file.groups \in Seq(GroupEntries)
  BY Types DEF Containers
<1>2. /\ parts = file.parts /\ rawEntries = file.raws /\ groups' = file.groups
      /\ regions' \in Orders(parts, rawEntries) /\ EnterRegion(1)
      /\ UNCHANGED <<file, parts, rawEntries, writes>>
  BY DEF IInv, TablesOfFile, ReadGroupTable
<1>3. regions' \in Seq(PartEntries \cup RawEntries)
  BY <1>2, OrdersType, Types
<1>4. Len(regions') \in Nat
  BY <1>3, LenProperties
<1>5. WellFormed(file) => AllWellFormed(regions', file.groups)
  BY <1>1, <1>2, OrdersWellFormed
<1>6. regions' \in Seq(RegionEntries)
  BY <1>3 DEF RegionEntries
<1>7. 1 \in 1 .. Len(regions') + 1 /\ result \in Results
  BY <1>4, Types
<1>8. /\ pc' \in {"regions", "end"} /\ regionIdx' \in 1 .. Len(regions') + 1
      /\ i' \in Nat /\ part' \in PartStates
      /\ result' = IF pc' = "end" THEN "ok" ELSE result
      /\ CursorInRegion' /\ BufferGapless'
  BY <1>2, <1>6, <1>7, EnterRegionKeepsCursor
<1>9. TypeOK'
  BY <1>1, <1>2, <1>3, <1>7, <1>8 DEF IInv, TypeOK, Results
<1>10. TablesOfFile' /\ RegionsOfTables'
  BY <1>2, <1>5, <1>8 DEF TablesOfFile, RegionsOfTables
<1>. QED
  BY <1>2, <1>8, <1>9, <1>10 DEF IInv, SoundIsDecoded

-----------------------------------------------------------------------------
\* In the loops: the region at the cursor and the group of the table for it.
LEMMA CurrentTypes ==
  ASSUME IInv, pc = "regions"
  PROVE  /\ regionIdx \in 1 .. Len(regions) /\ Region \in RegionEntries
         /\ Region.gi \in Nat /\ Region.ng \in Nat /\ CurrentGroup \in Nat
         /\ part.on = (Region.kind = "part")
         /\ part.on => Region \in PartEntries
         /\ ~ part.on => Region \in RawEntries
<1>1. /\ regionIdx \in 1 .. Len(regions) /\ part.on = (Region.kind = "part")
  BY DEF IInv, CursorInRegion
<1>2. Region \in RegionEntries
  BY <1>1, Types, ElementOfSeq DEF Region
<1>3. Region.gi \in Nat /\ Region.ng \in Nat
  BY <1>2 DEF RegionEntries, PartEntries, RawEntries
<1>4. i \in Nat /\ part.i \in Nat
  BY Types, PartTypes
<1>5. CurrentGroup \in Nat
  BY <1>3, <1>4 DEF CurrentGroup
<1>6. (Region.kind = "part" => Region \in PartEntries)
        /\ (Region.kind # "part" => Region \in RawEntries)
  BY <1>2 DEF RegionEntries, PartEntries, RawEntries
<1>. QED
  BY <1>1, <1>2, <1>3, <1>5, <1>6

\* A loop keeps the invariant when what it moves keeps its type.
LEMMA LoopKeepsIInv ==
  ASSUME IInv, pc = "regions", UNCHANGED <<file, parts, rawEntries, groups, regions>>,
         pc' \in {"regions", "end"},
         regionIdx' \in 1 .. Len(regions') + 1, i' \in Nat, part' \in PartStates,
         writes' \in Seq(OutputRecords),
         result' \in {result, "ok"}, CursorInRegion', BufferGapless'
  PROVE  IInv'
<1>1. TypeOK'
  BY Types DEF IInv, TypeOK, RegionEntries, Results
<1>2. TablesOfFile' /\ RegionsOfTables'
  BY DEF IInv, TablesOfFile, RegionsOfTables
<1>. QED
  BY <1>1, <1>2 DEF IInv, SoundIsDecoded

\* Leaving a region for the next one with groups, or for the end.
LEMMA LeaveRegionKeepsIInv ==
  ASSUME IInv, pc = "regions", UNCHANGED <<file, parts, rawEntries, groups, regions>>,
         writes' \in Seq(OutputRecords), EnterRegion(regionIdx + 1)
  PROVE  IInv'
<1>1. regions' \in Seq(RegionEntries) /\ result \in Results
  BY Types
<1>2. regionIdx + 1 \in 1 .. Len(regions') + 1
  BY CurrentTypes, Types
<1>3. /\ pc' \in {"regions", "end"} /\ regionIdx' \in 1 .. Len(regions') + 1
      /\ i' \in Nat /\ part' \in PartStates
      /\ result' = IF pc' = "end" THEN "ok" ELSE result
      /\ CursorInRegion' /\ BufferGapless'
  BY <1>1, <1>2, EnterRegionKeepsCursor
<1>. QED
  BY <1>3, LoopKeepsIInv

\* So does a refusal, of a sound container only for a failed read.
LEMMA FailureKeepsIInv ==
  ASSUME IInv, NEW e \in Results, Fails(e), Sound(file) => e = "BadHeader"
  PROVE  IInv'
<1>1. /\ UNCHANGED <<file, parts, rawEntries, groups, regions, regionIdx, i, part, writes>>
      /\ pc' = "end" /\ result' = e
  BY DEF Fails, loop
<1>2. TypeOK'
  BY <1>1 DEF IInv, TypeOK, Results
<1>. QED
  BY <1>1, <1>2 DEF IInv, TablesOfFile, RegionsOfTables, CursorInRegion, BufferGapless,
                    SoundIsDecoded

\* Of a sound container the group at the cursor is in the table and decodes.
LEMMA GroupOfSound ==
  ASSUME IInv, pc = "regions", Sound(file)
  PROVE  /\ CurrentGroup < Len(groups) /\ ~ groups[CurrentGroup + 1].bad
         /\ WellFormedEntry(Region, groups)
<1>1. /\ regionIdx \in 1 .. Len(regions) /\ Region.gi \in Nat /\ Region.ng \in Nat
      /\ CurrentGroup \in Nat
  BY CurrentTypes
<1>2. WellFormedEntry(Region, groups)
  BY <1>1, Types, LenProperties DEF IInv, RegionsOfTables, AllWellFormed, Sound, Region
<1>3. (IF part.on THEN part.i ELSE i) < Region.ng
  BY DEF IInv, CursorInRegion
<1>4. i \in Nat /\ part.i \in Nat /\ Len(groups) \in Nat
  BY Types, PartTypes
<1>5. Region.gi + Region.ng <= Len(groups)
  BY <1>2 DEF WellFormedEntry
<1>6. CurrentGroup < Len(groups)
  BY <1>1, <1>3, <1>4, <1>5 DEF CurrentGroup
<1>7. groups = file.groups
  BY DEF IInv, TablesOfFile
<1>8. CurrentGroup + 1 \in DOMAIN groups
  BY <1>1, <1>4, <1>6, Types, LenProperties
<1>. QED
  BY <1>2, <1>6, <1>7, <1>8 DEF Sound

\* Every unit of a region that has the groups for its size is expected to
\* hold something, and no more than a unit.
LEMMA UnitExpected ==
  ASSUME NEW n \in Nat, NEW d \in Nat \ {0}, NEW k \in Nat, k < CeilDiv(n, d)
  PROVE  Expected(n, k, d) \in 1 .. d
<1> DEFINE p == k * d
<1>1. p \in Nat /\ p < n
  BY CeilDivUnit
<1>2. Expected(n, k, d) = IF p > n THEN d ELSE Lesser(d, n - p)
  BY DEF Expected
<1> HIDE DEF p
<1>. QED
  BY <1>1, <1>2 DEF Lesser

LEMMA RefusalIsAResult ==
  ASSUME NEW n, NEW unit
  PROVE  Refusal(n, unit) \in Results
BY DEF Refusal, RefusalIf, Results

\* No check refuses a group of a sound container.
LEMMA SoundNotRefused ==
  ASSUME IInv, pc = "regions", Sound(file), NEW unit \in Nat, NEW n \in 1 .. unit
  PROVE  Refusal(n, unit) = ""
<1>1. CurrentGroup < Len(groups) /\ ~ groups[CurrentGroup + 1].bad
  BY GroupOfSound
<1>2. CurrentGroup \in Nat /\ Len(groups) \in Nat
  BY CurrentTypes, Types
<1>3. ~ (CurrentGroup >= Len(groups))
  BY <1>1, <1>2
<1>4. ~ (n = 0 \/ n > unit)
  OBVIOUS
<1>. QED
  BY <1>1, <1>3, <1>4 DEF Refusal, RefusalIf

-----------------------------------------------------------------------------
LEMMA RawGroupKeepsIInv ==
  ASSUME IInv, RawGroup
  PROVE  IInv'
<1> DEFINE n == Expected(LogicalSize(Region), i, Chunk)
           out == RawOutput(Region, i, Payload(groups[CurrentGroup + 1], CurrentGroup, 0))
<1>1. pc = "regions" /\ ~ part.on
  BY DEF RawGroup
<1>2. /\ regionIdx \in 1 .. Len(regions) /\ Len(regions) \in Nat
      /\ Region \in RawEntries /\ Region.ng \in Nat /\ CurrentGroup \in Nat
      /\ Region.kind # "part" /\ i \in Nat
  BY <1>1, CurrentTypes, Types
<1>3. Chunk \in Nat \ {0}
  BY FormatAssumption DEF Chunk
<1>4. LogicalSize(Region) \in Nat
  <2>1. PICK o, z, b \in Nat : o = Region.offset /\ z = Region.size /\ b = Block /\ b > 0
    BY <1>2, FormatAssumption DEF RawEntries
  <2>2. z + (o % b) \in Nat
    BY <2>1
  <2>. QED
    BY <2>1, <2>2 DEF LogicalSize
<1>5. Sound(file) => Refusal(n, Chunk) = ""
  <2>1. ASSUME Sound(file) PROVE i < CeilDiv(LogicalSize(Region), Chunk)
    <3>1. WellFormedEntry(Region, groups)
      BY <1>1, <2>1, GroupOfSound
    <3>2. i < Region.ng
      BY <1>1 DEF IInv, CursorInRegion
    <3>. QED
      BY <1>2, <3>1, <3>2 DEF WellFormedEntry
  <2>2. ASSUME Sound(file) PROVE n \in 1 .. Chunk
    BY <1>2, <1>3, <1>4, <2>1, <2>2, UnitExpected
  <2>. QED
    BY <1>1, <1>3, <2>2, SoundNotRefused
<1>6. out \in OutputRecords
  BY <1>2, PayloadType, RawOutputType
<1>7. \/ Refusal(n, Chunk) # "" /\ Fails(Refusal(n, Chunk))
      \/ /\ UNCHANGED <<file, parts, rawEntries, groups, regions>>
         /\ writes' = Append(writes, out)
         /\ \/ /\ i + 1 < Region.ng
               /\ i' = i + 1
               /\ UNCHANGED <<pc, regionIdx, part, result>>
            \/ EnterRegion(regionIdx + 1)
  BY DEF RawGroup
<1> HIDE DEF n, out
<1>8. CASE Refusal(n, Chunk) # "" /\ Fails(Refusal(n, Chunk))
  BY <1>5, <1>8, RefusalIsAResult, FailureKeepsIInv
<1>9. CASE /\ UNCHANGED <<file, parts, rawEntries, groups, regions>>
           /\ writes' = Append(writes, out)
           /\ i + 1 < Region.ng
           /\ i' = i + 1
           /\ UNCHANGED <<pc, regionIdx, part, result>>
  <2>1. writes' \in Seq(OutputRecords)
    BY <1>6, <1>9, Types, AppendProperties
  <2>2. Region' = Region
    BY <1>9 DEF Region
  <2>3. CursorInRegion'
    BY <1>1, <1>2, <1>9, <2>2 DEF IInv, CursorInRegion
  <2>4. BufferGapless'
    BY <1>1, <1>9 DEF BufferGapless
  <2>5. regionIdx' \in 1 .. Len(regions') + 1 /\ i' \in Nat /\ part' \in PartStates
    BY <1>2, <1>9, Types
  <2>. QED
    BY <1>1, <1>9, <2>1, <2>3, <2>4, <2>5, LoopKeepsIInv
<1>10. CASE /\ UNCHANGED <<file, parts, rawEntries, groups, regions>>
            /\ writes' = Append(writes, out)
            /\ EnterRegion(regionIdx + 1)
  <2>1. writes' \in Seq(OutputRecords)
    BY <1>6, <1>10, Types, AppendProperties
  <2>. QED
    BY <1>1, <1>10, <2>1, LeaveRegionKeepsIInv
<1>. QED
  BY <1>7, <1>8, <1>9, <1>10

-----------------------------------------------------------------------------
LEMMA PartGroupKeepsIInv ==
  ASSUME IInv, PartGroup
  PROVE  IInv'
<1> DEFINE n  == Expected(Region.ns, part.i, ChunkBlocks)
           ps == Filled(part, groups[CurrentGroup + 1], CurrentGroup, n)
           done == GroupComplete(ps, Region) /\ GroupLength(ps) > 0
           next == IF GroupComplete(ps, Region) THEN Cleared(ps) ELSE ps
<1>1. pc = "regions" /\ part.on
  BY DEF PartGroup
<1>2. /\ regionIdx \in 1 .. Len(regions) /\ Len(regions) \in Nat
      /\ Region \in PartEntries /\ Region.ng \in Nat /\ CurrentGroup \in Nat
      /\ Region.kind = "part" /\ i \in Nat /\ part \in PartStates /\ part.i \in Nat
      /\ Region.ns \in Nat /\ Region.key \in Keys
  <2>1. Region \in PartEntries /\ part \in PartStates /\ part.i \in Nat
    BY <1>1, CurrentTypes, Types, PartTypes
  <2>. QED
    BY <1>1, <2>1, CurrentTypes, Types DEF PartEntries
<1>3. n \in 0 .. ChunkBlocks /\ n \in Nat
  <2>1. n \in 0 .. ChunkBlocks
    BY <1>2, FormatAssumption, ExpectedRange
  <2>. QED
    BY <2>1, FormatAssumption
<1>4. /\ ps \in PartStates /\ ps.i = part.i + 1 /\ ps.on = part.on
  BY <1>2, <1>3, FilledType
<1>5. Cleared(ps) \in PartStates /\ Cleared(ps).i = part.i + 1 /\ Cleared(ps).on = part.on
  BY <1>4, ClearedType
<1>6. Gapless(ps)
  BY <1>1, <1>2, <1>3, FilledGapless DEF IInv, BufferGapless
<1>7. Finalizable(ps)
  BY <1>4, <1>6, GaplessFinalizable
<1>8. Sound(file) => Refusal(n, ChunkBlocks) = ""
  <2>1. ASSUME Sound(file) PROVE part.i < CeilDiv(Region.ns, ChunkBlocks)
    <3>1. WellFormedEntry(Region, groups)
      BY <1>1, <2>1, GroupOfSound
    <3>2. part.i < Region.ng
      BY <1>1 DEF IInv, CursorInRegion
    <3>. QED
      BY <1>2, <3>1, <3>2 DEF WellFormedEntry
  <2>2. ASSUME Sound(file) PROVE n \in 1 .. ChunkBlocks
    BY <1>2, <2>1, <2>2, FormatAssumption, UnitExpected
  <2>. QED
    BY <1>1, <2>2, FormatAssumption, SoundNotRefused
<1>9. done => GroupOutput(ps, Region, NoKey) \in OutputRecords
  BY <1>2, <1>4, GroupOutputType
<1>10. /\ next \in PartStates /\ next.i = part.i + 1 /\ next.on = part.on
       /\ ps.i < Region.ng => Gapless(next)
  <2>1. CASE ~ GroupComplete(ps, Region)
    BY <1>4, <1>6, <2>1
  <2>2. CASE GroupComplete(ps, Region)
    <3>1. ASSUME ps.i < Region.ng PROVE ps.blockIndex % GroupBlocks = 0
      <4>1. ps.i # Region.ng
        BY <1>2, <1>4, <3>1
      <4>. QED
        BY <2>2, <4>1 DEF GroupComplete
    <3>2. ps.i < Region.ng => Gapless(Cleared(ps))
      BY <1>4, <3>1, ClearedGapless
    <3>. QED
      BY <1>5, <2>2, <3>2
  <2>. QED
    BY <2>1, <2>2
<1>11. \/ Refusal(n, ChunkBlocks) # "" /\ Fails(Refusal(n, ChunkBlocks))
       \/ ~ Finalizable(ps)
       \/ /\ UNCHANGED <<file, parts, rawEntries, groups, regions>>
          /\ \/ done /\ writes' = Append(writes, GroupOutput(ps, Region, NoKey))
             \/ writes' = writes
          /\ \/ /\ ps.i < Region.ng
                /\ part' = next
                /\ UNCHANGED <<pc, regionIdx, i, result>>
             \/ EnterRegion(regionIdx + 1)
  BY DEF PartGroup
<1> HIDE DEF n, ps, done, next
<1>12. CASE Refusal(n, ChunkBlocks) # "" /\ Fails(Refusal(n, ChunkBlocks))
  BY <1>8, <1>12, RefusalIsAResult, FailureKeepsIInv
<1>13. ASSUME \/ done /\ writes' = Append(writes, GroupOutput(ps, Region, NoKey))
              \/ writes' = writes
       PROVE  writes' \in Seq(OutputRecords)
  <2>1. writes \in Seq(OutputRecords)
    BY Types
  <2>2. CASE writes' = writes
    BY <2>1, <2>2
  <2>3. CASE done /\ writes' = Append(writes, GroupOutput(ps, Region, NoKey))
    <3>1. GroupOutput(ps, Region, NoKey) \in OutputRecords
      BY <1>9, <2>3
    <3>. QED
      BY <2>1, <2>3, <3>1, AppendProperties
  <2>. QED
    BY <1>13, <2>2, <2>3
<1>14. CASE /\ UNCHANGED <<file, parts, rawEntries, groups, regions>>
            /\ writes' \in Seq(OutputRecords)
            /\ ps.i < Region.ng
            /\ part' = next
            /\ UNCHANGED <<pc, regionIdx, i, result>>
  <2>1. Region' = Region
    BY <1>14 DEF Region
  <2>2. part'.on /\ part'.i = part.i + 1 /\ Gapless(part') /\ part' \in PartStates
    BY <1>1, <1>10, <1>14
  <2>3. CursorInRegion'
    <3>1. part'.on = (Region'.kind = "part")
      BY <1>2, <1>10, <1>14, <2>1, CurrentTypes, <1>1
    <3>2. part'.i < Region'.ng
      BY <1>4, <1>14, <2>1, <2>2
    <3>3. regionIdx' \in 1 .. Len(regions')
      BY <1>2, <1>14
    <3>. QED
      BY <2>2, <3>1, <3>2, <3>3 DEF CursorInRegion
  <2>4. BufferGapless'
    BY <2>2 DEF BufferGapless, Gapless
  <2>5. regionIdx' \in 1 .. Len(regions') + 1 /\ i' \in Nat
    BY <1>2, <1>14
  <2>. QED
    BY <1>1, <1>14, <2>2, <2>3, <2>4, <2>5, LoopKeepsIInv
<1>15. CASE /\ UNCHANGED <<file, parts, rawEntries, groups, regions>>
            /\ writes' \in Seq(OutputRecords)
            /\ EnterRegion(regionIdx + 1)
  BY <1>1, <1>15, LeaveRegionKeepsIInv
<1>. QED
  BY <1>7, <1>11, <1>12, <1>13, <1>14, <1>15

LEMMA ReadFailsKeepsIInv ==
  ASSUME IInv, ReadFails
  PROVE  IInv'
<1>1. Fails("BadHeader") /\ "BadHeader" \in Results
  BY DEF ReadFails, Results
<1>. QED
  BY <1>1, FailureKeepsIInv

LEMMA StutterKeepsIInv ==
  ASSUME IInv, UNCHANGED vars
  PROVE  IInv'
<1>1. Region' = Region
  BY DEF vars, Region
<1>2. TypeOK' /\ TablesOfFile' /\ RegionsOfTables'
  BY DEF IInv, TypeOK, TablesOfFile, RegionsOfTables, vars
<1>3. CursorInRegion' /\ BufferGapless' /\ SoundIsDecoded'
  BY <1>1 DEF IInv, CursorInRegion, BufferGapless, SoundIsDecoded, vars
<1>. QED
  BY <1>2, <1>3 DEF IInv

-----------------------------------------------------------------------------
LEMMA NextKeepsIInv ==
  ASSUME IInv, [Next]_vars
  PROVE  IInv'
<1>1. CASE ReadHeader \/ ReadRawTable
  BY <1>1, TablesKeepIInv
<1>2. CASE ReadGroupTable
  BY <1>2, GroupTableKeepsIInv
<1>3. CASE RawGroup
  BY <1>3, RawGroupKeepsIInv
<1>4. CASE PartGroup
  BY <1>4, PartGroupKeepsIInv
<1>5. CASE ReadFails
  BY <1>5, ReadFailsKeepsIInv
<1>6. CASE UNCHANGED vars
  BY <1>6, StutterKeepsIInv
<1>. QED
  BY <1>1, <1>2, <1>3, <1>4, <1>5, <1>6 DEF Next

(* The inductive invariant of the pull decoder holds in every reachable    *)
(* state, for every set of containers and every block, chunk and hash      *)
(* group size.                                                             *)
THEOREM PullDecoderInvariant == Spec => []IInv
<1>1. Init => IInv
  BY InitIInv
<1>2. IInv /\ [Next]_vars => IInv'
  BY NextKeepsIInv
<1>. QED
  BY <1>1, <1>2, PTL DEF Spec

(* The variables of decompress_rvz keep their types.                       *)
THEOREM PullTypeCorrect == Spec => []TypeOK
<1>1. IInv => TypeOK
  BY DEF IInv
<1>. QED
  BY <1>1, PullDecoderInvariant, PTL

(* A container whose tables and groups are in order is refused only for a  *)
(* failed read: the size check, the group table check and finalize_group   *)
(* refuse nothing of it, whatever its regions, chunk and hash group sizes. *)
THEOREM SoundDecoded == Spec => []SoundIsDecoded
<1>1. IInv => SoundIsDecoded
  BY DEF IInv
<1>. QED
  BY <1>1, PullDecoderInvariant, PTL
-----------------------------------------------------------------------------
(* The pull decoder implements DiscStream.  Its position in the stream is  *)
(* its cursor: the region of the loop, and in a partition the hash groups  *)
(* that are complete.                                                      *)

Position ==
  IF result = "ok" THEN <<Len(regions) + 1, 0>>
  ELSE IF regions = <<>> THEN <<0, 0>>
  ELSE <<regionIdx, IF part.on THEN part.groupStart \div GroupBlocks ELSE i>>

\* A decoder that has not ended has neither succeeded nor failed, and it has
\* regions when it is in the loop over them.
Undecided == result = ""
Running ==
  /\ pc # "end" => Undecided
  /\ pc \notin {"regions", "end"} => regions = <<>>

\* What has come of the open hash group is in its slots.
BufferExact ==
  pc = "regions" /\ part.on /\ WellFormed(file) /\ ChunksFillGroups =>
    Exact(part, Region, groups) /\ Open(part)

RInv == IInv /\ Running /\ BufferExact

-----------------------------------------------------------------------------
\* The stream's own copies of the operators of the format mean the same.
LEMMA StreamOrders ==
  ASSUME NEW P, NEW R
  PROVE  Stream!Orders(P, R) = Orders(P, R)
BY DEF Cardinality, Stream!Cardinality, Orders, Candidates, EntryAt, IsOrder, Before,
       StartKey, AlignDown, Stream!Orders, Stream!Candidates, Stream!EntryAt,
       Stream!IsOrder, Stream!Before, Stream!StartKey, Stream!AlignDown

LEMMA StreamOutputs ==
  ASSUME NEW e, NEW k
  PROVE  /\ Stream!OutputsOf(e) = IF e.kind = "part" THEN CeilDiv(e.ns, GroupBlocks) ELSE e.ng
         /\ Stream!PartOutput(e, k) = GroupRecord(e, k, file.groups, NoKey)
         /\ Stream!RawOutput(e, k, Stream!Source(file.groups, e.gi + k, 0))
              = RawOutput(e, k, Source(file.groups, e.gi + k, 0))
<1>1. Stream!OutputsOf(e) = IF e.kind = "part" THEN CeilDiv(e.ns, GroupBlocks) ELSE e.ng
  BY DEF Stream!OutputsOf, Stream!CeilDiv, CeilDiv
<1>2. Stream!PartOutput(e, k) = GroupRecord(e, k, file.groups, NoKey)
  BY DEF Stream!PartOutput, Stream!Lesser, Stream!Source, Stream!Zeros, Stream!Empty,
         Stream!Slots, GroupRecord, RecordFrom, Lesser, Source, Zeros, Empty, Slots
<1>3. Stream!RawOutput(e, k, Stream!Source(file.groups, e.gi + k, 0))
        = RawOutput(e, k, Source(file.groups, e.gi + k, 0))
  BY DEF Stream!RawOutput, Stream!Source, Stream!Zeros, Stream!AlignDown, Stream!Chunk,
         Stream!Expected, Stream!LogicalSize, Stream!Lesser, Stream!NoTree,
         Stream!Slots, Stream!Empty, RawOutput, Source, Zeros, AlignDown, Chunk,
         Expected, LogicalSize, Lesser, NoTree, Slots, Empty
<1>. QED
  BY <1>1, <1>2, <1>3

\* An entry has outputs exactly when it has groups.
LEMMA BusyHasOutputs ==
  ASSUME NEW e \in RegionEntries, NEW gs, WellFormedEntry(e, gs)
  PROVE  /\ Stream!OutputsOf(e) \in Nat /\ e.ng \in Nat
         /\ Stream!OutputsOf(e) > 0 <=> e.ng > 0
<1>1. CASE e.kind = "part"
  <2>1. e \in PartEntries
    BY <1>1 DEF RegionEntries, RawEntries
  <2>2. PICK ns \in Nat : ns = e.ns
    BY <2>1 DEF PartEntries
  <2>3. e.ng = CeilDiv(ns, ChunkBlocks) /\ Stream!OutputsOf(e) = CeilDiv(ns, GroupBlocks)
    BY <1>1, <2>2, StreamOutputs DEF WellFormedEntry
  <2>4. ChunkBlocks \in Nat \ {0} /\ GroupBlocks \in Nat \ {0} /\ 0 \in Nat
    BY FormatAssumption
  <2>5. CeilDiv(ns, ChunkBlocks) \in Nat /\ CeilDiv(ns, GroupBlocks) \in Nat
    BY <2>2, <2>4, CeilDivBounds
  <2>6. /\ 0 < CeilDiv(ns, ChunkBlocks) <=> 0 * ChunkBlocks < ns
        /\ 0 < CeilDiv(ns, GroupBlocks) <=> 0 * GroupBlocks < ns
    BY <2>2, <2>4, CeilDivUnit
  <2>7. 0 * ChunkBlocks = 0 /\ 0 * GroupBlocks = 0
    BY <2>4
  <2>. QED
    BY <2>3, <2>5, <2>6, <2>7
<1>2. CASE e.kind # "part"
  <2>1. e \in RawEntries
    BY <1>2 DEF RegionEntries, PartEntries
  <2>2. e.ng \in Nat /\ Stream!OutputsOf(e) = e.ng
    BY <1>2, <2>1, StreamOutputs DEF RawEntries
  <2>. QED
    BY <2>2
<1>. QED
  BY <1>1, <1>2

\* Going on at the next region with groups is going on at the first output
\* from there on, with buffers for the first hash group.
LEMMA EnterRegionStreams ==
  ASSUME regions' \in Seq(RegionEntries), NEW gs,
         NEW r \in 1 .. Len(regions') + 1, Undecided, EnterRegion(r)
  PROVE  /\ AllWellFormed(regions', gs) => Stream!IsFirstFrom(regions', r, Position')
         /\ (result' = "ok") = (Position' = Stream!EndOf(regions'))
         /\ Running' /\ BufferExact'
<1>0. PICK l \in Nat : l = Len(regions')
  BY LenProperties
<1>1. l = Len(regions') /\ DOMAIN regions' = 1 .. l
  BY <1>0, LenProperties
<1>2. PICK q \in r .. Len(regions') + 1 :
        /\ IsNextBusy(regions', r, q) /\ regionIdx' = q /\ i' = 0
        /\ \/ /\ q > Len(regions') /\ pc' = "end" /\ part' = NoPart /\ result' = "ok"
           \/ /\ q <= Len(regions') /\ pc' = "regions"
              /\ part' = IF regions'[q].kind = "part" THEN PartStart ELSE NoPart
              /\ result' = result
  BY DEF EnterRegion
<1>3. q \in 1 .. l + 1 /\ r \in Nat /\ r <= q
  BY <1>0
<1>4. Position' = <<q, 0>> /\ (result' = "ok") = (q = l + 1) /\ Running'
  <2>1. CASE q > l
    <3>1. pc' = "end" /\ result' = "ok" /\ q = Len(regions') + 1 /\ q = l + 1
      BY <1>1, <1>2, <1>3, <2>1
    <3>2. Position' = <<q, 0>>
      BY <3>1 DEF Position
    <3>3. Running'
      BY <3>1 DEF Running
    <3>. QED
      BY <3>1, <3>2, <3>3
  <2>2. CASE q <= l
    <3>1. /\ regionIdx' = q /\ i' = 0 /\ pc' = "regions" /\ result' = result
          /\ part' = IF regions'[q].kind = "part" THEN PartStart ELSE NoPart
      BY <1>1, <1>2, <1>3, <2>2
    <3>0. Undecided' /\ ~ (result' = "ok")
      BY <3>1 DEF Undecided
    <3>2. regions' # <<>>
      BY <1>1, <1>3, <2>2, EmptySeq
    <3>3. (IF part'.on THEN part'.groupStart \div GroupBlocks ELSE i') = 0
      <4>1. PartStart.groupStart = 0 /\ NoPart.groupStart = 0
        BY DEF PartStart, NoPart
      <4>2. 0 \div GroupBlocks = 0
        BY FormatAssumption
      <4>. QED
        BY <3>1, <4>1, <4>2
    <3>4. Position' = <<q, 0>>
      BY <3>0, <3>1, <3>2, <3>3 DEF Position
    <3>5. Running'
      BY <3>0, <3>1 DEF Running
    <3>6. ~ (q = l + 1)
      BY <1>3, <2>2
    <3>. QED
      BY <3>0, <3>4, <3>5, <3>6
  <2>. QED
    BY <1>1, <1>3, <2>1, <2>2
<1>5. (Position' = Stream!EndOf(regions')) = (q = l + 1)
  BY <1>1, <1>4 DEF Stream!EndOf
<1>6. ASSUME AllWellFormed(regions', gs)
      PROVE  Stream!IsFirstFrom(regions', r, <<q, 0>>)
  <2>1. ASSUME NEW t \in 1 .. l
        PROVE  /\ Stream!OutputsOf(regions'[t]) \in Nat /\ regions'[t].ng \in Nat
               /\ Stream!OutputsOf(regions'[t]) > 0 <=> regions'[t].ng > 0
    <3>1. regions'[t] \in RegionEntries /\ WellFormedEntry(regions'[t], gs)
      BY <1>1, <1>6, ElementOfSeq DEF AllWellFormed
    <3>. QED
      BY <3>1, BusyHasOutputs
  <2>2. q <= l => Stream!OutputsOf(regions'[q]) > 0
    BY <1>1, <1>2, <1>3, <2>1 DEF IsNextBusy
  <2>3. ASSUME NEW t \in r .. q - 1 PROVE Stream!OutputsOf(regions'[t]) = 0
    <3>1. t \in 1 .. l /\ regions'[t].ng = 0
      BY <1>1, <1>2, <1>3 DEF IsNextBusy
    <3>. QED
      BY <2>1, <3>1
  <2>. QED
    BY <1>1, <1>3, <2>2, <2>3 DEF Stream!IsFirstFrom
<1>7. BufferExact'
  <2>. SUFFICES ASSUME pc' = "regions", part'.on
                PROVE  Exact(part', Region', groups') /\ Open(part')
    BY DEF BufferExact
  <2>1. q \in 1 .. l /\ Region' = regions'[q]
    BY <1>1, <1>2, <1>3 DEF Region
  <2>2. regions'[q].kind = "part" /\ part' = PartStart
    BY <1>1, <1>2, <2>1, PartStartGapless
  <2>3. regions'[q] \in PartEntries
    BY <1>1, <2>1, <2>2, ElementOfSeq DEF RegionEntries, RawEntries
  <2>. QED
    BY <2>1, <2>2, <2>3, StartExact
<1>. QED
  BY <1>4, <1>5, <1>6, <1>7

-----------------------------------------------------------------------------
\* The steps of the stream, in terms of the decoder.
LEMMA StreamStutters ==
  ASSUME file' = file, regions' = regions, Position' = Position, writes' = writes,
         (result' = "ok") = (result = "ok")
  PROVE  UNCHANGED Stream!vars
BY DEF Stream!vars, Position

LEMMA OpenStep ==
  ASSUME Position = <<0, 0>>, regions' \in Orders(file.parts, file.raws),
         Stream!IsFirstFrom(regions', 1, Position'),
         (result' = "ok") = (Position' = Stream!EndOf(regions')),
         file' = file, writes' = writes
  PROVE  Stream!Next
<1>1. regions' \in Stream!Orders(file.parts, file.raws)
  BY StreamOrders
<1>. QED
  BY <1>1 DEF Stream!Next, Stream!Open, Stream!Start, Position

LEMMA ProduceStep ==
  ASSUME Position \notin {<<0, 0>>, Stream!EndOf(regions)},
         writes' = Append(writes, Stream!OutputAt(regions, Position)),
         Stream!IsNext(regions, Position, Position'),
         (result' = "ok") = (Position' = Stream!EndOf(regions)),
         file' = file, regions' = regions
  PROVE  Stream!Next
BY DEF Stream!Next, Stream!Produce, Stream!Start, Position

\* In the loops: the position, and what follows it.
Unit == IF part.on THEN part.groupStart \div GroupBlocks ELSE i

LEMMA PositionInLoop ==
  ASSUME RInv, pc = "regions"
  PROVE  /\ Position = <<regionIdx, Unit>> /\ Unit \in Nat
         /\ Position \notin {<<0, 0>>, Stream!EndOf(regions)}
         /\ Undecided /\ ~ (result = "ok")
         /\ regionIdx \in 1 .. Len(regions) /\ Len(regions) \in Nat
<1>1. regionIdx \in 1 .. Len(regions) /\ Len(regions) \in Nat
  BY CurrentTypes, Types DEF RInv
<1>2. Undecided /\ ~ (result = "ok")
  BY DEF RInv, Running, Undecided
<1>3. regions # <<>>
  BY <1>1, EmptySeq
<1>4. Position = <<regionIdx, Unit>>
  BY <1>2, <1>3 DEF Position, Unit
<1>5. Unit \in Nat
  <2>1. i \in Nat /\ part.groupStart \in Nat /\ GroupBlocks \in Nat \ {0}
    BY Types, PartTypes, FormatAssumption DEF RInv
  <2>2. part.groupStart \div GroupBlocks \in Nat
    BY <2>1, DivMod
  <2>. QED
    BY <2>1, <2>2 DEF Unit
<1>6. regionIdx # 0 /\ regionIdx # Len(regions) + 1
  BY <1>1
<1>7. Position \notin {<<0, 0>>, Stream!EndOf(regions)}
  BY <1>4, <1>6 DEF Stream!EndOf
<1>. QED
  BY <1>1, <1>2, <1>4, <1>5, <1>7

LEMMA NextUnit ==
  ASSUME RInv, pc = "regions"
  PROVE  /\ /\ Unit + 1 < Stream!OutputsOf(Region)
            /\ Position' = <<regionIdx, Unit + 1>>
            => Stream!IsNext(regions, Position, Position')
         /\ /\ ~ (Unit + 1 < Stream!OutputsOf(Region))
            /\ Stream!IsFirstFrom(regions, regionIdx + 1, Position')
            => Stream!IsNext(regions, Position, Position')
<1>1. Position[1] = regionIdx /\ Position[2] = Unit /\ regions[Position[1]] = Region
  BY PositionInLoop DEF Region
<1>. QED
  BY <1>1 DEF Stream!IsNext

\* A refusal is invisible in the stream.
Errors == {"BadHeader", "SizeMismatch", "MissingGroup", "BadRecord"}

LEMMA FailureStutters ==
  ASSUME RInv, pc # "end", NEW e \in Errors, Fails(e)
  PROVE  UNCHANGED Stream!vars /\ Running' /\ BufferExact'
<1>1. /\ UNCHANGED <<file, regions, regionIdx, i, part, writes>> /\ pc' = "end" /\ result' = e
  BY DEF Fails, loop
<1>2. ~ (result = "ok") /\ ~ (result' = "ok")
  BY <1>1 DEF RInv, Running, Undecided, Errors
<1>3. Position' = Position
  BY <1>1, <1>2 DEF Position
<1>4. UNCHANGED Stream!vars
  BY <1>1, <1>2, <1>3, StreamStutters
<1>. QED
  BY <1>1, <1>4 DEF Running, BufferExact

LEMMA RefusalIsAnError ==
  ASSUME NEW n, NEW unit, Refusal(n, unit) # ""
  PROVE  Refusal(n, unit) \in Errors
BY DEF Refusal, RefusalIf, Errors

-----------------------------------------------------------------------------
\* In a well-formed container every region has the groups that its size needs.
LEMMA RegionsWellFormed ==
  ASSUME RInv, WellFormed(file), pc = "regions"
  PROVE  /\ AllWellFormed(regions, groups) /\ groups = file.groups
         /\ WellFormedEntry(Region, groups)
<1>1. AllWellFormed(regions, groups) /\ groups = file.groups
  BY DEF RInv, IInv, RegionsOfTables, TablesOfFile, AllWellFormed
<1>2. regionIdx \in 1 .. Len(regions) /\ DOMAIN regions = 1 .. Len(regions)
  BY CurrentTypes, Types, LenProperties DEF RInv
<1>. QED
  BY <1>1, <1>2 DEF AllWellFormed, Region

LEMMA TablesStutter ==
  ASSUME RInv, ReadHeader \/ ReadRawTable
  PROVE  UNCHANGED Stream!vars /\ Running' /\ BufferExact'
<1>1. /\ UNCHANGED <<file, regions, regionIdx, i, part, writes, result>>
      /\ pc # "end" /\ pc \notin {"regions", "end"}
      /\ pc' # "regions"
  BY DEF ReadHeader, ReadRawTable, loop
<1>2. Position' = Position /\ (result' = "ok") = (result = "ok")
  BY <1>1 DEF Position
<1>3. UNCHANGED Stream!vars
  BY <1>1, <1>2, StreamStutters
<1>4. Undecided' /\ regions' = <<>>
  BY <1>1 DEF RInv, Running, Undecided
<1>. QED
  BY <1>1, <1>3, <1>4 DEF Running, BufferExact

LEMMA GroupTableOpens ==
  ASSUME RInv, ReadGroupTable
  PROVE  Running' /\ BufferExact' /\ (WellFormed(file) => Stream!Next)
<1>1. IInv' /\ IInv
  BY GroupTableKeepsIInv DEF RInv
<1>2. /\ parts = file.parts /\ rawEntries = file.raws /\ groups' = file.groups
      /\ regions' \in Orders(parts, rawEntries) /\ EnterRegion(1)
      /\ file' = file /\ writes' = writes /\ pc = "groupTable"
  BY <1>1 DEF IInv, TablesOfFile, ReadGroupTable
<1>3. regions' \in Seq(RegionEntries) /\ Len(regions') \in Nat
  BY <1>1, LenProperties DEF IInv, TypeOK, RegionEntries
<1>4. 1 \in 1 .. Len(regions') + 1
  BY <1>3
<1>5. Undecided /\ regions = <<>> /\ ~ (result = "ok")
  BY <1>2 DEF RInv, Running, Undecided
<1>6. /\ AllWellFormed(regions', file.groups) => Stream!IsFirstFrom(regions', 1, Position')
      /\ (result' = "ok") = (Position' = Stream!EndOf(regions'))
      /\ Running' /\ BufferExact'
  BY <1>2, <1>3, <1>4, <1>5, EnterRegionStreams
<1>7. ASSUME WellFormed(file) PROVE Stream!Next
  <2>1. file \in Containers
    BY <1>1, Types
  <2>2. AllWellFormed(regions', file.groups)
    BY <1>2, <1>7, <2>1, OrdersWellFormed
  <2>3. Position = <<0, 0>>
    BY <1>5 DEF Position
  <2>. QED
    BY <1>2, <1>6, <2>2, <2>3, OpenStep
<1>. QED
  BY <1>6, <1>7

\* A unit that is done is the stream's next output, whether the region goes
\* on or the next one follows.
LEMMA UnitProduced ==
  ASSUME RInv, pc = "regions", WellFormed(file),
         UNCHANGED <<file, parts, rawEntries, groups, regions>>,
         writes' = Append(writes, Stream!OutputAt(regions, Position)),
         \/ /\ Unit + 1 < Stream!OutputsOf(Region)
            /\ Position' = <<regionIdx, Unit + 1>> /\ Undecided'
         \/ /\ ~ (Unit + 1 < Stream!OutputsOf(Region))
            /\ EnterRegion(regionIdx + 1)
  PROVE  Stream!Next
<1>1. /\ Position \notin {<<0, 0>>, Stream!EndOf(regions)} /\ Undecided
      /\ regionIdx \in 1 .. Len(regions) /\ Len(regions) \in Nat
  BY PositionInLoop
<1>2. CASE /\ Unit + 1 < Stream!OutputsOf(Region)
           /\ Position' = <<regionIdx, Unit + 1>> /\ Undecided'
  <2>1. Stream!IsNext(regions, Position, Position')
    BY <1>2, NextUnit
  <2>2. ~ (result' = "ok")
    BY <1>2 DEF Undecided
  <2>3. regionIdx # Len(regions) + 1
    BY <1>1
  <2>4. Position' # Stream!EndOf(regions)
    BY <1>2, <2>3 DEF Stream!EndOf
  <2>. QED
    BY <1>1, <2>1, <2>2, <2>4, ProduceStep
<1>3. CASE /\ ~ (Unit + 1 < Stream!OutputsOf(Region))
           /\ EnterRegion(regionIdx + 1)
  <2>1. regions' = regions /\ regions' \in Seq(RegionEntries)
    BY Types DEF RInv
  <2>2. regionIdx + 1 \in 1 .. Len(regions') + 1
    BY <1>1, <2>1
  <2>3. AllWellFormed(regions', groups)
    BY <2>1, RegionsWellFormed
  <2>4. /\ AllWellFormed(regions', groups)
             => Stream!IsFirstFrom(regions', regionIdx + 1, Position')
        /\ (result' = "ok") = (Position' = Stream!EndOf(regions'))
    BY <1>1, <1>3, <2>1, <2>2, EnterRegionStreams
  <2>5. Stream!IsFirstFrom(regions, regionIdx + 1, Position')
    BY <2>1, <2>3, <2>4
  <2>6. Stream!IsNext(regions, Position, Position')
    BY <1>3, <2>5, NextUnit
  <2>. QED
    BY <1>1, <2>1, <2>4, <2>6, ProduceStep
<1>. QED
  BY <1>2, <1>3

\* Leaving a region.
LEMMA LeaveRegionRuns ==
  ASSUME RInv, pc = "regions", regions' = regions, EnterRegion(regionIdx + 1)
  PROVE  Running' /\ BufferExact'
<1>1. Undecided /\ regionIdx \in 1 .. Len(regions) /\ Len(regions) \in Nat
  BY PositionInLoop
<1>2. regions' \in Seq(RegionEntries)
  BY Types DEF RInv
<1>3. regionIdx + 1 \in 1 .. Len(regions') + 1
  BY <1>1
<1>. QED
  BY <1>1, <1>2, <1>3, EnterRegionStreams

-----------------------------------------------------------------------------
LEMMA RawGroupStreams ==
  ASSUME RInv, RawGroup
  PROVE  /\ Running' /\ BufferExact'
         /\ WellFormed(file) => Stream!Next \/ UNCHANGED Stream!vars
<1> DEFINE n == Expected(LogicalSize(Region), i, Chunk)
           out == RawOutput(Region, i, Payload(groups[CurrentGroup + 1], CurrentGroup, 0))
<1>1. pc = "regions" /\ ~ part.on /\ pc # "end"
  BY DEF RawGroup
<1>2. /\ Region \in RawEntries /\ Region.kind # "part" /\ Region.ng \in Nat
      /\ i \in Nat /\ CurrentGroup = Region.gi + i /\ Unit = i
  BY <1>1, CurrentTypes, Types DEF RInv, CurrentGroup, Unit
<1>3. /\ Position = <<regionIdx, i>> /\ Undecided
      /\ regionIdx \in 1 .. Len(regions) /\ Len(regions) \in Nat
  BY <1>1, <1>2, PositionInLoop
<1>4. WellFormed(file) => out = Stream!OutputAt(regions, Position)
  <2>1. ASSUME WellFormed(file) PROVE out = Stream!OutputAt(regions, Position)
    <3>1. groups = file.groups
      BY <1>1, <2>1, RegionsWellFormed
    <3>2. out = RawOutput(Region, i, Source(file.groups, Region.gi + i, 0))
      BY <1>2, <3>1 DEF Payload, Source
    <3>3. Stream!OutputAt(regions, Position)
            = Stream!RawOutput(Region, i, Stream!Source(file.groups, Region.gi + i, 0))
      BY <1>2, <1>3 DEF Stream!OutputAt, Region
    <3>. QED
      BY <3>2, <3>3, StreamOutputs
  <2>. QED
    BY <2>1
<1>5. Stream!OutputsOf(Region) = Region.ng
  BY <1>2, StreamOutputs
<1>6. \/ Refusal(n, Chunk) # "" /\ Fails(Refusal(n, Chunk))
      \/ /\ UNCHANGED <<file, parts, rawEntries, groups, regions>>
         /\ writes' = Append(writes, out)
         /\ \/ /\ i + 1 < Region.ng
               /\ i' = i + 1
               /\ UNCHANGED <<pc, regionIdx, part, result>>
            \/ i + 1 >= Region.ng /\ EnterRegion(regionIdx + 1)
  BY DEF RawGroup
<1> HIDE DEF n, out
<1>7. CASE Refusal(n, Chunk) # "" /\ Fails(Refusal(n, Chunk))
  BY <1>1, <1>7, RefusalIsAnError, FailureStutters
<1>8. CASE /\ UNCHANGED <<file, parts, rawEntries, groups, regions>>
           /\ writes' = Append(writes, out)
           /\ i + 1 < Region.ng
           /\ i' = i + 1
           /\ UNCHANGED <<pc, regionIdx, part, result>>
  <2>1. pc' = "regions" /\ Undecided' /\ ~ (result' = "ok") /\ part'.on = part.on
    BY <1>1, <1>3, <1>8 DEF Undecided
  <2>2. Running' /\ BufferExact'
    BY <1>1, <2>1 DEF Running, BufferExact
  <2>3. regions' # <<>>
    BY <1>3, <1>8, EmptySeq
  <2>4. Position' = <<regionIdx, Unit + 1>>
    BY <1>1, <1>2, <1>8, <2>1, <2>3 DEF Position
  <2>5. Unit + 1 < Stream!OutputsOf(Region)
    BY <1>2, <1>5, <1>8
  <2>. QED
    BY <1>1, <1>4, <1>8, <2>1, <2>2, <2>4, <2>5, UnitProduced
<1>9. CASE /\ UNCHANGED <<file, parts, rawEntries, groups, regions>>
           /\ writes' = Append(writes, out)
           /\ i + 1 >= Region.ng
           /\ EnterRegion(regionIdx + 1)
  <2>1. Running' /\ BufferExact'
    BY <1>1, <1>9, LeaveRegionRuns
  <2>2. ~ (Unit + 1 < Stream!OutputsOf(Region))
    BY <1>2, <1>5, <1>9
  <2>. QED
    BY <1>1, <1>4, <1>9, <2>1, <2>2, UnitProduced
<1>. QED
  BY <1>6, <1>7, <1>8, <1>9

-----------------------------------------------------------------------------
\* The hash group at the cursor once the next chunk is in.
LEMMA ChunkStreams ==
  ASSUME RInv, pc = "regions", part.on, WellFormed(file), ChunksFillGroups,
         NEW qs, qs = Filled(part, groups[CurrentGroup + 1], CurrentGroup,
                             Expected(Region.ns, part.i, ChunkBlocks))
  PROVE  /\ qs \in PartStates /\ qs.i = part.i + 1 /\ qs.on /\ Exact(qs, Region, groups)
         /\ Unit = qs.groupStart \div GroupBlocks
         /\ GroupLength(qs) > 0
         /\ ~ GroupComplete(qs, Region) => Open(qs)
         /\ GroupComplete(qs, Region) =>
              GroupOutput(qs, Region, NoKey) = Stream!OutputAt(regions, Position)
         /\ GroupComplete(qs, Region) /\ qs.i < Region.ng =>
              /\ qs.blockIndex = (Unit + 1) * GroupBlocks
              /\ Unit + 1 < Stream!OutputsOf(Region)
         /\ qs.i >= Region.ng => ~ (Unit + 1 < Stream!OutputsOf(Region))
<1>1. /\ Region \in PartEntries /\ Region.kind = "part" /\ part \in PartStates
      /\ CurrentGroup \in Nat /\ CurrentGroup = Region.gi + part.i
      /\ Unit = part.groupStart \div GroupBlocks /\ Region.ns \in Nat /\ Region.ng \in Nat
      /\ part.i \in Nat /\ part.i < Region.ng
  <2>1. Region \in PartEntries /\ part \in PartStates
    BY CurrentTypes, Types DEF RInv
  <2>2. part.i \in Nat /\ Region.kind = "part" /\ Region.ns \in Nat /\ Region.ng \in Nat
    BY <2>1, PartTypes DEF PartEntries
  <2>3. part.i < Region.ng
    BY DEF RInv, IInv, CursorInRegion
  <2>. QED
    BY <2>1, <2>2, <2>3, CurrentTypes DEF RInv, CurrentGroup, Unit
<1>2. /\ WellFormedEntry(Region, groups) /\ groups = file.groups
      /\ Region.ng = CeilDiv(Region.ns, ChunkBlocks)
  BY <1>1, RegionsWellFormed DEF WellFormedEntry
<1>3. Exact(part, Region, groups) /\ Open(part)
  BY DEF RInv, BufferExact
<1>4. /\ Exact(qs, Region, groups) /\ qs.groupStart = part.groupStart
      /\ part.blockIndex < qs.blockIndex /\ qs.blockIndex <= qs.groupStart + GroupBlocks
  BY <1>1, <1>2, <1>3, FilledExact
<1>5. qs \in PartStates /\ qs.i = part.i + 1 /\ qs.on
  <2>1. ChunkBlocks \in Nat \ {0} /\ Expected(Region.ns, part.i, ChunkBlocks) \in 0 .. ChunkBlocks
    BY <1>1, FormatAssumption, ExpectedRange
  <2>2. Expected(Region.ns, part.i, ChunkBlocks) \in Nat
    BY <2>1
  <2>. QED
    BY <1>1, <2>2, FilledType
<1>6. qs.groupStart < qs.blockIndex /\ qs.i <= Region.ng
  <2>1. part.groupStart <= part.blockIndex /\ part.groupStart \in Nat
          /\ part.blockIndex \in Nat /\ qs.blockIndex \in Nat
    BY <1>1, <1>3, <1>5, PartTypes DEF Exact
  <2>. QED
    BY <1>1, <1>4, <1>5, <2>1
<1>7. PICK k \in Nat : k = qs.groupStart \div GroupBlocks
  BY <1>1, <1>2, <1>4, <1>5, <1>6, GroupAfterChunk
<1>8. k \in Nat /\ k = Unit
  BY <1>1, <1>4, <1>7
<1>9. /\ qs.groupStart = k * GroupBlocks
      /\ GroupLength(qs) = qs.blockIndex - qs.groupStart
      /\ ~ GroupComplete(qs, Region) => Open(qs)
      /\ GroupComplete(qs, Region) =>
           GroupLength(qs) = Lesser(GroupBlocks, Region.ns - qs.groupStart)
      /\ GroupComplete(qs, Region) /\ qs.i < Region.ng =>
           /\ qs.blockIndex = (k + 1) * GroupBlocks
           /\ k + 1 < CeilDiv(Region.ns, GroupBlocks)
      /\ qs.i >= Region.ng => ~ (k + 1 < CeilDiv(Region.ns, GroupBlocks))
  BY <1>1, <1>2, <1>4, <1>5, <1>6, <1>7, GroupAfterChunk
<1>10. Stream!OutputsOf(Region) = CeilDiv(Region.ns, GroupBlocks)
  BY <1>1, StreamOutputs
<1>11. GroupLength(qs) > 0
  <2>1. qs.groupStart \in Nat /\ qs.blockIndex \in Nat
    BY <1>5, PartTypes
  <2>. QED
    BY <1>6, <1>9, <2>1
<1>12. ASSUME GroupComplete(qs, Region)
       PROVE  GroupOutput(qs, Region, NoKey) = Stream!OutputAt(regions, Position)
  <2>1. GroupOutput(qs, Region, NoKey) = GroupRecord(Region, k, groups, NoKey)
    BY <1>1, <1>4, <1>5, <1>6, <1>8, <1>9, <1>12, OutputIsRecord
  <2>2. Position = <<regionIdx, k>>
    BY <1>8, PositionInLoop
  <2>3. Stream!OutputAt(regions, Position) = Stream!PartOutput(Region, k)
    BY <1>1, <2>2 DEF Stream!OutputAt, Region
  <2>. QED
    BY <1>2, <2>1, <2>3, StreamOutputs
<1>. QED
  BY <1>4, <1>5, <1>7, <1>8, <1>9, <1>10, <1>11, <1>12

\* Part of PartGroup: the loop goes on in the region.
LEMMA GroupGoesOn ==
  ASSUME RInv, pc = "regions", part.on, part'.on,
         UNCHANGED <<file, parts, rawEntries, groups, regions, pc, regionIdx, i, result>>
  PROVE  /\ Running' /\ Undecided' /\ ~ (result' = "ok") /\ Region' = Region
         /\ Position' = <<regionIdx, part'.groupStart \div GroupBlocks>>
<1>1. /\ Undecided /\ regionIdx \in 1 .. Len(regions) /\ Len(regions) \in Nat
  BY PositionInLoop
<1>2. Undecided' /\ ~ (result' = "ok") /\ Region' = Region
  BY <1>1 DEF Undecided, Region
<1>3. regions' # <<>>
  BY <1>1, EmptySeq
<1>. QED
  BY <1>2, <1>3 DEF Position, Running

LEMMA PartGroupStreams ==
  ASSUME RInv, PartGroup
  PROVE  /\ Running'
         /\ WellFormed(file) /\ ChunksFillGroups =>
              BufferExact' /\ (Stream!Next \/ UNCHANGED Stream!vars)
<1> DEFINE n  == Expected(Region.ns, part.i, ChunkBlocks)
           ps == Filled(part, groups[CurrentGroup + 1], CurrentGroup, n)
           done == GroupComplete(ps, Region) /\ GroupLength(ps) > 0
           next == IF GroupComplete(ps, Region) THEN Cleared(ps) ELSE ps
           out == GroupOutput(ps, Region, NoKey)
<1>1. pc = "regions" /\ part.on /\ pc # "end"
  BY DEF PartGroup
<1>2. ps \in PartStates /\ ps.on /\ ps.i \in Nat /\ Region \in PartEntries
      /\ Cleared(ps) \in PartStates /\ Cleared(ps).on /\ Region.ng \in Nat
  <2>1. Region \in PartEntries /\ part \in PartStates /\ CurrentGroup \in Nat
    BY <1>1, CurrentTypes, Types DEF RInv
  <2>2. part.i \in Nat /\ Region.ns \in Nat /\ Region.ng \in Nat
    BY <2>1, PartTypes DEF PartEntries
  <2>3. n \in 0 .. ChunkBlocks
    BY <2>2, FormatAssumption, ExpectedRange
  <2>4. n \in Nat
    BY <2>3, FormatAssumption
  <2>5. ps \in PartStates /\ ps.on
    BY <1>1, <2>1, <2>4, FilledType
  <2>. QED
    BY <2>1, <2>2, <2>5, ClearedType, PartTypes
<1>3. Finalizable(ps)
  <2>1. part \in PartStates /\ CurrentGroup \in Nat /\ n \in Nat /\ Gapless(part)
    <3>1. Region \in PartEntries /\ part \in PartStates /\ CurrentGroup \in Nat
      BY <1>1, CurrentTypes, Types DEF RInv
    <3>2. part.i \in Nat /\ Region.ns \in Nat
      BY <3>1, PartTypes DEF PartEntries
    <3>3. n \in 0 .. ChunkBlocks
      BY <3>2, FormatAssumption, ExpectedRange
    <3>4. n \in Nat
      BY <3>3, FormatAssumption
    <3>. QED
      BY <1>1, <3>1, <3>4 DEF RInv, IInv, BufferGapless
  <2>2. Gapless(ps)
    BY <2>1, FilledGapless
  <2>. QED
    BY <1>2, <2>2, GaplessFinalizable
<1>4. WellFormed(file) /\ ChunksFillGroups =>
         /\ Exact(ps, Region, groups) /\ GroupLength(ps) > 0
         /\ Unit = ps.groupStart \div GroupBlocks
         /\ ~ GroupComplete(ps, Region) => Open(ps)
         /\ GroupComplete(ps, Region) => out = Stream!OutputAt(regions, Position)
         /\ GroupComplete(ps, Region) /\ ps.i < Region.ng =>
              /\ ps.blockIndex = (Unit + 1) * GroupBlocks
              /\ Unit + 1 < Stream!OutputsOf(Region)
         /\ ps.i >= Region.ng => ~ (Unit + 1 < Stream!OutputsOf(Region))
  BY <1>1, ChunkStreams
<1>5. \/ Refusal(n, ChunkBlocks) # "" /\ Fails(Refusal(n, ChunkBlocks))
      \/ ~ Finalizable(ps)
      \/ /\ UNCHANGED <<file, parts, rawEntries, groups, regions>>
         /\ \/ done /\ writes' = Append(writes, out)
            \/ ~ done /\ writes' = writes
         /\ \/ /\ ps.i < Region.ng
               /\ part' = next
               /\ UNCHANGED <<pc, regionIdx, i, result>>
            \/ ps.i >= Region.ng /\ EnterRegion(regionIdx + 1)
  BY DEF PartGroup
<1>6. (ps.i = Region.ng) => GroupComplete(ps, Region)
  BY DEF GroupComplete
<1> HIDE DEF n, ps, done, next, out
<1>7. CASE Refusal(n, ChunkBlocks) # "" /\ Fails(Refusal(n, ChunkBlocks))
  BY <1>1, <1>7, RefusalIsAnError, FailureStutters
<1>8. CASE /\ UNCHANGED <<file, parts, rawEntries, groups, regions>>
           /\ \/ done /\ writes' = Append(writes, out)
              \/ ~ done /\ writes' = writes
           /\ ps.i < Region.ng
           /\ part' = next
           /\ UNCHANGED <<pc, regionIdx, i, result>>
  <2>1. part'.on
    BY <1>2, <1>8 DEF next
  <2>2. /\ Running' /\ Undecided' /\ ~ (result' = "ok") /\ Region' = Region
        /\ Position' = <<regionIdx, part'.groupStart \div GroupBlocks>>
    BY <1>1, <1>8, <2>1, GroupGoesOn
  <2>3. Position = <<regionIdx, Unit>> /\ Unit \in Nat /\ ~ (result = "ok")
    BY <1>1, PositionInLoop
  <2>4. ASSUME WellFormed(file), ChunksFillGroups, GroupComplete(ps, Region)
        PROVE  BufferExact' /\ Stream!Next
    <3>1. part' = Cleared(ps) /\ writes' = Append(writes, out)
      BY <1>4, <1>8, <2>4 DEF next, done
    <3>2. Unit + 1 \in Nat /\ ps.blockIndex = (Unit + 1) * GroupBlocks
            /\ Unit + 1 < Stream!OutputsOf(Region)
      BY <1>4, <1>8, <2>3, <2>4
    <3>3. PICK k \in Nat : k = Unit + 1
      BY <3>2
    <3>4. ps.blockIndex = k * GroupBlocks /\ k \in Nat
      BY <3>2, <3>3
    <3>5. /\ Exact(Cleared(ps), Region, groups) /\ Open(Cleared(ps))
          /\ Cleared(ps).groupStart = ps.blockIndex /\ ps.blockIndex \div GroupBlocks = k
      BY <1>2, <1>4, <2>4, <3>4, ClearedExact
    <3>6. BufferExact'
      BY <1>8, <2>2, <3>1, <3>5 DEF BufferExact, Open
    <3>7. Position' = <<regionIdx, Unit + 1>>
      BY <2>2, <3>1, <3>3, <3>5
    <3>. QED
      BY <1>1, <1>4, <1>8, <2>2, <2>4, <3>1, <3>2, <3>6, <3>7, UnitProduced
  <2>5. ASSUME WellFormed(file), ChunksFillGroups, ~ GroupComplete(ps, Region)
        PROVE  BufferExact' /\ UNCHANGED Stream!vars
    <3>1. part' = ps /\ writes' = writes
      BY <1>8, <2>5 DEF next, done
    <3>2. BufferExact'
      BY <1>4, <1>8, <2>2, <2>5, <3>1 DEF BufferExact, Open
    <3>3. Position' = Position
      BY <1>4, <2>2, <2>3, <2>5, <3>1
    <3>4. (result' = "ok") = (result = "ok") /\ file' = file /\ regions' = regions
      BY <1>8
    <3>. QED
      BY <3>1, <3>2, <3>3, <3>4, StreamStutters
  <2>. QED
    BY <2>2, <2>4, <2>5
<1>9. CASE /\ UNCHANGED <<file, parts, rawEntries, groups, regions>>
           /\ \/ done /\ writes' = Append(writes, out)
              \/ ~ done /\ writes' = writes
           /\ ps.i >= Region.ng /\ EnterRegion(regionIdx + 1)
  <2>1. Running' /\ BufferExact'
    BY <1>1, <1>9, LeaveRegionRuns
  <2>2. ASSUME WellFormed(file), ChunksFillGroups PROVE Stream!Next
    <3>1. GroupComplete(ps, Region)
      <4>1. ps.i = part.i + 1 /\ part.i < Region.ng /\ part.i \in Nat
        BY <1>1, <2>2, ChunkStreams, Types, PartTypes DEF RInv, IInv, CursorInRegion, ps, n
      <4>. QED
        BY <1>2, <1>6, <1>9, <4>1
    <3>2. writes' = Append(writes, Stream!OutputAt(regions, Position))
      BY <1>4, <1>9, <2>2, <3>1 DEF done
    <3>. QED
      BY <1>1, <1>4, <1>9, <2>2, <3>2, UnitProduced
  <2>. QED
    BY <2>1, <2>2
<1>. QED
  BY <1>3, <1>5, <1>7, <1>8, <1>9

-----------------------------------------------------------------------------
LEMMA ReadFailsStutters ==
  ASSUME RInv, ReadFails
  PROVE  UNCHANGED Stream!vars /\ Running' /\ BufferExact'
<1>1. pc # "end" /\ Fails("BadHeader") /\ "BadHeader" \in Errors
  BY DEF ReadFails, Errors
<1>. QED
  BY <1>1, FailureStutters

\* Every step of the decoder is a step of the stream or changes nothing in it.
LEMMA StepStreams ==
  ASSUME RInv, [Next]_vars
  PROVE  /\ RInv'
         /\ WellFormed(file) /\ ChunksFillGroups => Stream!Next \/ UNCHANGED Stream!vars
<1>1. IInv'
  BY NextKeepsIInv DEF RInv
<1>2. file' = file
  BY DEF vars, Next, ReadHeader, ReadRawTable, ReadGroupTable, RawGroup, PartGroup,
         ReadFails, Fails
<1>3. CASE ReadHeader \/ ReadRawTable
  BY <1>1, <1>3, TablesStutter DEF RInv
<1>4. CASE ReadGroupTable
  BY <1>1, <1>4, GroupTableOpens DEF RInv
<1>5. CASE RawGroup
  BY <1>1, <1>5, RawGroupStreams DEF RInv
<1>6. CASE PartGroup
  <2>1. ~ (WellFormed(file) /\ ChunksFillGroups) => BufferExact'
    BY <1>2 DEF BufferExact
  <2>. QED
    BY <1>1, <1>6, <2>1, PartGroupStreams DEF RInv
<1>7. CASE ReadFails
  BY <1>1, <1>7, ReadFailsStutters DEF RInv
<1>8. CASE UNCHANGED vars
  <2>1. /\ UNCHANGED <<file, pc, groups, regions, regionIdx, i, part, writes, result>>
    BY <1>8 DEF vars
  <2>2. Region' = Region /\ Position' = Position /\ (result' = "ok") = (result = "ok")
    BY <2>1 DEF Region, Position
  <2>3. Running'
    BY <2>1 DEF RInv, Running, Undecided
  <2>4. BufferExact'
    BY <2>1, <2>2 DEF RInv, BufferExact, Open
  <2>5. UNCHANGED Stream!vars
    BY <2>1, <2>2, StreamStutters
  <2>. QED
    BY <1>1, <2>3, <2>4, <2>5 DEF RInv
<1>. QED
  BY <1>3, <1>4, <1>5, <1>6, <1>7, <1>8 DEF Next

(* The pull decoder implements the stream: for a well-formed container its *)
(* writes are the disc's outputs, in order and each once, whatever reads   *)
(* fail, for all containers whose hash groups are whole numbers of chunks. *)
THEOREM PullImplementsStream ==
  ASSUME ChunksFillGroups
  PROVE  Spec => StreamSpec
<1>1. Init => RInv /\ Stream!Init
  <2>. SUFFICES ASSUME Init PROVE RInv /\ Stream!Init
    OBVIOUS
  <2>1. RInv
    BY InitIInv DEF RInv, Init, Running, Undecided, BufferExact
  <2>2. file \in Files /\ regions = <<>> /\ writes = <<>> /\ ~ (result = "ok")
    BY DEF Init
  <2>3. Position = <<0, 0>> /\ (result = "ok") = FALSE
    BY <2>2 DEF Position
  <2>4. Stream!Init
    BY <2>2, <2>3 DEF Stream!Init, Stream!Start, Position
  <2>. QED
    BY <2>1, <2>4
<1>2. RInv /\ [Next]_vars =>
        RInv' /\ [WellFormed(file) => Stream!Next]_(Stream!vars)
  BY StepStreams
<1>. QED
  BY <1>1, <1>2, PTL DEF Spec, StreamSpec

-----------------------------------------------------------------------------
(* What the writes of a well-formed container have come to: each is a unit *)
(* of a region, every unit that the decoder is past has been written, and  *)
(* where the regions follow each other without a gap so do the writes.     *)

\* rs are the regions, gs the groups, ws the writes, p the position.
AtUnit(rs, p) ==
  \/ p \in {<<0, 0>>, <<Len(rs) + 1, 0>>}
  \/ p[1] \in DOMAIN rs /\ p[2] \in 0 .. UnitsOf(rs[p[1]]) - 1
IsUnit(rs, gs, w) ==
  \E r \in DOMAIN rs : \E u \in 0 .. UnitsOf(rs[r]) - 1 : w = UnitOutput(rs[r], u, gs)
OnlyUnits(rs, gs, ws) == \A n \in DOMAIN ws : IsUnit(rs, gs, ws[n])
Behind(p, r, u) == r < p[1] \/ (r = p[1] /\ u < p[2])
AllBehind(rs, gs, ws, p) ==
  \A r \in DOMAIN rs : \A u \in 0 .. UnitsOf(rs[r]) - 1 : Behind(p, r, u) =>
     \E n \in DOMAIN ws : ws[n] = UnitOutput(rs[r], u, gs)
WrittenTo(ws, n) == IF n = 0 THEN 0 ELSE ws[n].offset + ws[n].len
Reached(rs, p) ==
  IF p[1] \in DOMAIN rs THEN UnitStart(rs[p[1]], p[2])
  ELSE IF rs = <<>> THEN 0 ELSE RegionEnd(rs[Len(rs)])
InARow(rs, ws, p) ==
  Seamless(rs) =>
    /\ \A n \in DOMAIN ws : ws[n].offset = WrittenTo(ws, n - 1)
    /\ WrittenTo(ws, Len(ws)) = Reached(rs, p)

WrittenUpTo(rs, gs, ws, p) ==
  AtUnit(rs, p) /\ OnlyUnits(rs, gs, ws) /\ AllBehind(rs, gs, ws, p) /\ InARow(rs, ws, p)

Written ==
  WellFormed(file) =>
    /\ regions # <<>> \/ result = "ok" => regions \in Orders(file.parts, file.raws)
    /\ WrittenUpTo(regions, file.groups, writes, Position)

\* A region of a well-formed container has a number of units.
LEMMA UnitsType ==
  ASSUME NEW e \in RegionEntries
  PROVE  UnitsOf(e) \in Nat /\ Stream!OutputsOf(e) = UnitsOf(e)
<1>1. Stream!OutputsOf(e) = UnitsOf(e)
  BY StreamOutputs DEF UnitsOf
<1>2. CASE e \in PartEntries
  <2>1. e.kind = "part" /\ e.ns \in Nat
    BY <1>2 DEF PartEntries
  <2>. QED
    BY <1>1, <2>1, CeilDivBounds, FormatAssumption DEF UnitsOf
<1>3. CASE e \in RawEntries
  BY <1>1, <1>3 DEF UnitsOf, RawEntries
<1>. QED
  BY <1>2, <1>3 DEF RegionEntries

LEMMA NothingWritten ==
  ASSUME NEW rs \in Seq(RegionEntries), NEW gs, NEW q, Stream!IsFirstFrom(rs, 1, q)
  PROVE  WrittenUpTo(rs, gs, <<>>, q)
<1>1. PICK l \in Nat : l = Len(rs) /\ DOMAIN rs = 1 .. l
  BY LenProperties
<1>2. PICK s \in 1 .. l + 1 :
        /\ q = <<s, 0>> /\ (s <= l => Stream!OutputsOf(rs[s]) > 0)
        /\ \A t \in 1 .. s - 1 : Stream!OutputsOf(rs[t]) = 0
  BY <1>1 DEF Stream!IsFirstFrom
<1>3. \A t \in 1 .. l : /\ rs[t] \in RegionEntries /\ UnitsOf(rs[t]) \in Nat
                        /\ Stream!OutputsOf(rs[t]) = UnitsOf(rs[t])
  BY <1>1, ElementOfSeq, UnitsType
<1>4. q[1] = s /\ q[2] = 0 /\ Len(<<>>) = 0 /\ DOMAIN <<>> = {}
  BY <1>2
<1>5. AtUnit(rs, q)
  <2>1. CASE s <= l
    <3>1. s \in 1 .. l /\ UnitsOf(rs[s]) \in Nat /\ UnitsOf(rs[s]) > 0
      BY <1>2, <1>3, <2>1
    <3>2. 0 \in 0 .. UnitsOf(rs[s]) - 1
      BY <3>1
    <3>. QED
      BY <1>1, <1>4, <3>1, <3>2 DEF AtUnit
  <2>2. CASE s > l
    <3>1. q = <<Len(rs) + 1, 0>>
      BY <1>1, <1>2, <2>2
    <3>. QED
      BY <3>1 DEF AtUnit
  <2>. QED
    BY <1>1, <2>1, <2>2
<1>6. ASSUME NEW r \in 1 .. l, NEW u \in 0 .. UnitsOf(rs[r]) - 1
      PROVE  ~ Behind(q, r, u)
  <2>1. UnitsOf(rs[r]) \in Nat /\ u \in Nat /\ u < UnitsOf(rs[r])
    BY <1>3
  <2>2. ~ (r \in 1 .. s - 1)
    BY <1>2, <1>3, <2>1
  <2>. QED
    BY <1>1, <1>4, <2>1, <2>2 DEF Behind
<1>7. ASSUME Seamless(rs)
      PROVE  Reached(rs, q) = 0
  <2>1. CASE l = 0
    BY <1>1, <1>4, <2>1, EmptySeq DEF Reached
  <2>2. CASE l # 0
    <3>1. 1 \in 1 .. l /\ UnitsOf(rs[1]) > 0 /\ StartKey(rs[1]) = 0
      BY <1>1, <1>7, <2>2 DEF Seamless
    <3>2. s = 1
      BY <1>2, <1>3, <3>1
    <3>3. UnitStart(rs[1], 0) = 0
      BY <1>3, <3>1, FirstUnit
    <3>. QED
      BY <1>1, <1>4, <3>1, <3>2, <3>3 DEF Reached
  <2>. QED
    BY <2>1, <2>2
<1>. QED
  BY <1>1, <1>4, <1>5, <1>6, <1>7 DEF WrittenUpTo, OnlyUnits, AllBehind, InARow, WrittenTo

LEMMA Appended ==
  ASSUME NEW S, NEW ws \in Seq(S), NEW o
  PROVE  /\ Len(Append(ws, o)) = Len(ws) + 1 /\ Len(ws) \in Nat
         /\ DOMAIN ws = 1 .. Len(ws) /\ DOMAIN Append(ws, o) = 1 .. Len(ws) + 1
         /\ Append(ws, o)[Len(ws) + 1] = o
         /\ \A n \in 1 .. Len(ws) : Append(ws, o)[n] = ws[n]
OBVIOUS

\* A unit is written and the decoder goes on to the next one.
LEMMA UnitWritten ==
  ASSUME NEW rs \in Seq(RegionEntries), NEW gs, AllWellFormed(rs, gs),
         NEW S, NEW ws \in Seq(S), NEW p, NEW q,
         WrittenUpTo(rs, gs, ws, p), p[1] \in DOMAIN rs, p[2] \in 0 .. UnitsOf(rs[p[1]]) - 1,
         Stream!IsNext(rs, p, q)
  PROVE  WrittenUpTo(rs, gs, Append(ws, UnitOutput(rs[p[1]], p[2], gs)), q)
<1>1. PICK l, m, a \in Nat :
        l = Len(rs) /\ DOMAIN rs = 1 .. l /\ m = Len(ws) /\ DOMAIN ws = 1 .. m /\ a = p[1]
  BY LenProperties
<1> DEFINE e == rs[a]
           o == UnitOutput(e, p[2], gs)
           vs == Append(ws, o)
<1>2. \A t \in 1 .. l : /\ rs[t] \in RegionEntries /\ UnitsOf(rs[t]) \in Nat
                        /\ WellFormedEntry(rs[t], gs)
                        /\ Stream!OutputsOf(rs[t]) = UnitsOf(rs[t])
  BY <1>1, ElementOfSeq, UnitsType DEF AllWellFormed
<1>3. PICK c \in Nat : c = p[2] /\ c < UnitsOf(e) /\ a \in 1 .. l
  BY <1>1, <1>2
<1>4. /\ Len(vs) = m + 1 /\ DOMAIN vs = 1 .. m + 1 /\ vs[m + 1] = o
      /\ \A n \in 1 .. m : vs[n] = ws[n]
  BY <1>1, Appended
<1>5. /\ UnitStart(e, c) \in Nat /\ o.offset = UnitStart(e, c) /\ o.len \in Nat
      /\ UnitStart(e, c) + o.len = IF c + 1 < UnitsOf(e) THEN UnitStart(e, c + 1) ELSE RegionEnd(e)
  BY <1>2, <1>3, UnitsMeet
<1> HIDE DEF vs, o
<1>6. OnlyUnits(rs, gs, vs)
  <2>1. IsUnit(rs, gs, o)
    BY <1>1, <1>3 DEF IsUnit, o
  <2>2. ASSUME NEW n \in 1 .. m PROVE IsUnit(rs, gs, vs[n])
    BY <1>1, <1>4 DEF WrittenUpTo, OnlyUnits
  <2>. QED
    BY <1>1, <1>4, <2>1, <2>2 DEF OnlyUnits
\* What the decoder is past now.
<1>7. ASSUME NEW r \in 1 .. l, NEW u \in 0 .. UnitsOf(rs[r]) - 1,
             Behind(p, r, u) \/ (r = a /\ u = c)
      PROVE  \E n \in DOMAIN vs : vs[n] = UnitOutput(rs[r], u, gs)
  <2>1. CASE Behind(p, r, u)
    <3>1. PICK n \in 1 .. m : ws[n] = UnitOutput(rs[r], u, gs)
      BY <1>1, <2>1 DEF WrittenUpTo, AllBehind
    <3>. QED
      BY <1>1, <1>4, <3>1
  <2>2. CASE r = a /\ u = c
    <3>1. vs[m + 1] = UnitOutput(rs[r], u, gs)
      BY <1>3, <1>4, <2>2 DEF o
    <3>. QED
      BY <1>1, <1>4, <3>1
  <2>. QED
    BY <1>7, <2>1, <2>2
<1>8. \A n \in 1 .. m : WrittenTo(vs, n) = WrittenTo(ws, n)
  BY <1>4 DEF WrittenTo
<1>9. ASSUME Seamless(rs)
      PROVE  /\ \A n \in DOMAIN vs : vs[n].offset = WrittenTo(vs, n - 1)
             /\ WrittenTo(vs, Len(vs)) = UnitStart(e, c) + o.len
  <2>1. /\ \A n \in 1 .. m : ws[n].offset = WrittenTo(ws, n - 1)
        /\ WrittenTo(ws, m) = UnitStart(e, c)
    BY <1>1, <1>3, <1>9 DEF WrittenUpTo, InARow, Reached
  <2>2. \A n \in 0 .. m : WrittenTo(vs, n) = WrittenTo(ws, n)
    BY <1>1, <1>8 DEF WrittenTo
  <2>3. ASSUME NEW n \in 1 .. m + 1 PROVE vs[n].offset = WrittenTo(vs, n - 1)
    <3>1. CASE n = m + 1
      BY <1>1, <1>4, <1>5, <2>1, <2>2, <3>1
    <3>2. CASE n \in 1 .. m
      <4>1. n - 1 \in 0 .. m
        BY <1>1, <3>2
      <4>. QED
        BY <1>4, <2>1, <2>2, <3>2, <4>1
    <3>. QED
      BY <1>1, <3>1, <3>2
  <2>4. WrittenTo(vs, m + 1) = o.offset + o.len
    BY <1>1, <1>4 DEF WrittenTo
  <2>. QED
    BY <1>4, <1>5, <2>3, <2>4
<1>10. CASE c + 1 < UnitsOf(e)
  <2>1. q = <<a, c + 1>> /\ q[1] = a /\ q[2] = c + 1
    BY <1>1, <1>2, <1>3, <1>10 DEF Stream!IsNext
  <2>2. AtUnit(rs, q)
    <3>1. c + 1 \in 0 .. UnitsOf(rs[q[1]]) - 1
      BY <1>2, <1>3, <1>10, <2>1
    <3>. QED
      BY <1>1, <1>3, <2>1, <3>1 DEF AtUnit
  <2>3. AllBehind(rs, gs, vs, q)
    <3>1. ASSUME NEW r \in 1 .. l, NEW u \in 0 .. UnitsOf(rs[r]) - 1, Behind(q, r, u)
          PROVE  Behind(p, r, u) \/ (r = a /\ u = c)
      <4>1. u \in Int
        BY <1>2
      <4>. QED
        BY <1>1, <1>3, <2>1, <3>1, <4>1 DEF Behind
    <3>. QED
      BY <1>1, <1>7, <3>1 DEF AllBehind
  <2>4. Reached(rs, q) = UnitStart(e, c + 1)
    BY <1>1, <1>3, <2>1 DEF Reached
  <2>5. InARow(rs, vs, q)
    BY <1>5, <1>9, <1>10, <2>4 DEF InARow
  <2>. QED
    BY <1>1, <1>3, <1>6, <2>2, <2>3, <2>5 DEF WrittenUpTo, vs, o
<1>11. CASE ~ (c + 1 < UnitsOf(e))
  <2>1. Stream!IsFirstFrom(rs, a + 1, q)
    BY <1>1, <1>2, <1>3, <1>11 DEF Stream!IsNext
  <2>2. PICK s \in a + 1 .. l + 1 :
          /\ q = <<s, 0>> /\ (s <= l => Stream!OutputsOf(rs[s]) > 0)
          /\ \A t \in a + 1 .. s - 1 : Stream!OutputsOf(rs[t]) = 0
    BY <1>1, <2>1 DEF Stream!IsFirstFrom
  <2>3. q[1] = s /\ q[2] = 0
    BY <2>2
  <2>4. AtUnit(rs, q)
    <3>1. CASE s <= l
      <4>1. s \in 1 .. l /\ UnitsOf(rs[s]) \in Nat /\ UnitsOf(rs[s]) > 0
        BY <1>1, <1>2, <1>3, <2>2, <3>1
      <4>2. 0 \in 0 .. UnitsOf(rs[s]) - 1
        BY <4>1
      <4>. QED
        BY <1>1, <2>3, <4>1, <4>2 DEF AtUnit
    <3>2. CASE s > l
      <4>1. q = <<Len(rs) + 1, 0>>
        BY <1>1, <1>3, <2>2, <3>2
      <4>. QED
        BY <4>1 DEF AtUnit
    <3>. QED
      BY <1>1, <1>3, <3>1, <3>2
  <2>5. AllBehind(rs, gs, vs, q)
    <3>1. ASSUME NEW r \in 1 .. l, NEW u \in 0 .. UnitsOf(rs[r]) - 1, Behind(q, r, u)
          PROVE  Behind(p, r, u) \/ (r = a /\ u = c)
      <4>1. UnitsOf(rs[r]) \in Nat /\ u \in Nat /\ u < UnitsOf(rs[r])
        BY <1>2
      <4>2. r < s
        BY <1>1, <1>3, <2>2, <2>3, <3>1, <4>1 DEF Behind
      <4>3. ~ (r \in a + 1 .. s - 1)
        BY <1>2, <2>2, <4>1
      <4>4. r <= a
        BY <1>1, <1>3, <2>2, <4>2, <4>3
      <4>. QED
        BY <1>1, <1>2, <1>3, <1>11, <4>1, <4>4 DEF Behind
    <3>. QED
      BY <1>1, <1>7, <3>1 DEF AllBehind
  <2>6. ASSUME Seamless(rs) PROVE Reached(rs, q) = RegionEnd(e)
    <3>1. CASE a = l
      <4>1. s = l + 1 /\ rs # <<>>
        BY <1>1, <1>3, <2>2, <3>1, EmptySeq
      <4>. QED
        BY <1>1, <1>3, <2>3, <3>1, <4>1 DEF Reached
    <3>2. CASE a # l
      <4>1. a + 1 \in 1 .. l /\ a + 1 # 1 /\ (a + 1) - 1 = a
        BY <1>1, <1>3, <3>2
      <4>2. UnitsOf(rs[a + 1]) > 0 /\ StartKey(rs[a + 1]) = RegionEnd(rs[a])
        BY <1>1, <2>6, <4>1 DEF Seamless
      <4>3. s = a + 1
        BY <1>1, <1>2, <2>2, <4>1, <4>2
      <4>4. UnitStart(rs[a + 1], 0) = StartKey(rs[a + 1])
        BY <1>2, <4>1, FirstUnit
      <4>. QED
        BY <1>1, <2>3, <4>1, <4>2, <4>3, <4>4 DEF Reached
    <3>. QED
      BY <3>1, <3>2
  <2>7. InARow(rs, vs, q)
    BY <1>5, <1>9, <1>11, <2>6 DEF InARow
  <2>. QED
    BY <1>1, <1>3, <1>6, <2>4, <2>5, <2>7 DEF WrittenUpTo, vs, o
<1>. QED
  BY <1>10, <1>11

\* The decoder only ever adds to its writes.
LEMMA WritesGrow ==
  ASSUME [Next]_vars
  PROVE  writes' = writes \/ \E o : writes' = Append(writes, o)
<1>1. CASE RawGroup
  BY <1>1 DEF RawGroup, Fails
<1>2. CASE PartGroup
  BY <1>2 DEF PartGroup, Fails
<1>3. CASE ReadHeader \/ ReadRawTable \/ ReadGroupTable \/ ReadFails \/ UNCHANGED vars
  BY <1>3 DEF ReadHeader, ReadRawTable, ReadGroupTable, ReadFails, Fails, vars
<1>. QED
  BY <1>1, <1>2, <1>3 DEF Next

LEMMA InitWritten ==
  ASSUME Init
  PROVE  Written
<1>1. regions = <<>> /\ writes = <<>> /\ result = ""
  BY DEF Init
<1>2. Position = <<0, 0>>
  <2>1. ~ (result = "ok")
    BY <1>1
  <2>. QED
    BY <1>1, <2>1, Zenon DEF Position
<1>3. WrittenUpTo(<<>>, file.groups, <<>>, <<0, 0>>)
  <2>1. Len(<<>>) = 0 /\ DOMAIN <<>> = {} /\ <<0, 0>>[1] = 0
    OBVIOUS
  <2>2. AtUnit(<<>>, <<0, 0>>) /\ OnlyUnits(<<>>, file.groups, <<>>)
        /\ AllBehind(<<>>, file.groups, <<>>, <<0, 0>>)
    BY <2>1 DEF AtUnit, OnlyUnits, AllBehind
  <2>3. Reached(<<>>, <<0, 0>>) = 0 /\ WrittenTo(<<>>, 0) = 0
    BY <2>1 DEF WrittenTo, Reached
  <2>4. InARow(<<>>, <<>>, <<0, 0>>)
    BY <2>1, <2>3 DEF InARow
  <2>. QED
    BY <2>2, <2>4 DEF WrittenUpTo
<1>4. ~ (regions # <<>> \/ result = "ok")
  BY <1>1
<1>. QED
  BY <1>1, <1>2, <1>3, <1>4, Zenon DEF Written

LEMMA StepWrites ==
  ASSUME RInv, Written, [Next]_vars, ChunksFillGroups
  PROVE  Written'
<1> SUFFICES ASSUME WellFormed(file), file' = file
             PROVE  /\ regions' # <<>> \/ result' = "ok"
                         => regions' \in Orders(file.parts, file.raws)
                    /\ WrittenUpTo(regions', file.groups, writes', Position')
  <2>1. file' = file
    BY DEF vars, Next, ReadHeader, ReadRawTable, ReadGroupTable, RawGroup, PartGroup,
           ReadFails, Fails
  <2>. QED
    BY <2>1 DEF Written
<1>1. /\ file \in Containers /\ regions \in Seq(RegionEntries) /\ regions' \in Seq(RegionEntries)
      /\ writes \in Seq(OutputRecords) /\ Len(regions) \in Nat /\ regionIdx \in Nat \ {0}
  <2>1. IInv'
    BY NextKeepsIInv DEF RInv
  <2>2. regionIdx \in 1 .. Len(regions) + 1 /\ Len(regions) \in Nat
    BY Types DEF RInv
  <2>3. regions' \in Seq(RegionEntries)
    BY <2>1 DEF IInv, TypeOK, RegionEntries
  <2>. QED
    BY <2>2, <2>3, Types DEF RInv
<1>2. /\ regions # <<>> \/ result = "ok" => regions \in Orders(file.parts, file.raws)
      /\ WrittenUpTo(regions, file.groups, writes, Position)
  BY DEF Written
<1>3. Stream!Next \/ UNCHANGED Stream!vars
  BY StepStreams
<1>4. CASE UNCHANGED Stream!vars
  <2>1. /\ regions' = regions /\ writes' = writes /\ Position' = Position
        /\ (result' = "ok") = (result = "ok")
    BY <1>4, Zenon DEF Stream!vars, Position
  <2>. QED
    BY <1>2, <2>1
<1>5. CASE Stream!Open
  <2>1. /\ Position = <<0, 0>> /\ regions' \in Orders(file.parts, file.raws)
        /\ Stream!IsFirstFrom(regions', 1, Position') /\ writes' = writes
    BY <1>5, StreamOrders DEF Stream!Open, Stream!Start, Position
  <2>2. regions = <<>>
    BY <1>1, <2>1 DEF Position
  <2>3. writes = <<>>
    <3>1. DOMAIN writes = {}
      <4>1. DOMAIN regions = {}
        BY <2>2
      <4>2. \A n \in DOMAIN writes : IsUnit(regions, file.groups, writes[n])
        BY <1>2 DEF WrittenUpTo, OnlyUnits
      <4>. QED
        BY <4>1, <4>2 DEF IsUnit
    <3>. QED
      BY <1>1, <3>1, EmptySeq
  <2>4. WrittenUpTo(regions', file.groups, <<>>, Position')
    BY <1>1, <2>1, NothingWritten
  <2>. QED
    BY <2>1, <2>3, <2>4
<1>6. CASE Stream!Produce
  <2>1. /\ Position \notin {<<0, 0>>, <<Len(regions) + 1, 0>>} /\ regions' = regions
        /\ writes' = Append(writes, Stream!OutputAt(regions, Position))
        /\ Stream!IsNext(regions, Position, Position')
    BY <1>6 DEF Stream!Produce, Stream!Start, Stream!EndOf, Position
  <2>2. regions # <<>> /\ result # "ok"
    BY <2>1 DEF Position
  <2>3. regions \in Orders(file.parts, file.raws) /\ AllWellFormed(regions, file.groups)
    BY <1>1, <1>2, <2>2, OrdersWellFormed
  <2>4. Position[1] \in DOMAIN regions
        /\ Position[2] \in 0 .. UnitsOf(regions[Position[1]]) - 1
    BY <1>2, <2>1 DEF WrittenUpTo, AtUnit
  <2>5. Stream!OutputAt(regions, Position)
          = UnitOutput(regions[Position[1]], Position[2], file.groups)
    BY StreamOutputs DEF Stream!OutputAt, UnitOutput
  <2>6. WrittenUpTo(regions, file.groups, writes', Position')
    BY <1>1, <1>2, <2>1, <2>3, <2>4, <2>5, UnitWritten
  <2>. QED
    BY <2>1, <2>3, <2>6
<1>7. ~ Stream!Take
  <2>1. ASSUME Stream!Take PROVE FALSE
    <3>1. writes # <<>> /\ writes' = Tail(writes)
      BY <2>1 DEF Stream!Take
    <3>2. Len(writes) \in Nat /\ Len(writes') = Len(writes) - 1
      BY <1>1, <3>1, HeadTailProperties, LenProperties
    <3>3. writes' = writes \/ Len(writes') = Len(writes) + 1
      BY <1>1, WritesGrow, Appended
    <3>. QED
      BY <3>2, <3>3
  <2>. QED
    BY <2>1
<1>. QED
  BY <1>3, <1>4, <1>5, <1>6, <1>7 DEF Stream!Next

(* Of a well-formed container nothing is written but its hash groups and   *)
(* raw chunks, none is left out behind the place the decoder is at, and    *)
(* the writes leave no gap where the regions leave none.                   *)
THEOREM PullWrites ==
  ASSUME ChunksFillGroups
  PROVE  Spec => []Written
<1>1. Init => RInv /\ Written
  BY InitIInv, InitWritten DEF RInv, Init, Running, Undecided, BufferExact
<1>2. RInv /\ Written /\ [Next]_vars => RInv' /\ Written'
  BY StepStreams, StepWrites
<1>. QED
  BY <1>1, <1>2, PTL DEF Spec
=============================================================================
