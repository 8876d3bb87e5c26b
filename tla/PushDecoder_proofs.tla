------------------------- MODULE PushDecoder_proofs -------------------------
(***************************************************************************)
(* PushDecoder keeps its types, its request always names the group at the  *)
(* cursor, and it implements the stream of the container, for all          *)
(* containers, keys and sizes.                                             *)
(***************************************************************************)
EXTENDS PushDecoderProps, HashGroup_proofs

Errors == {"", "refused", "panic"}

(* Where the cursor may be: inside the regions only in their stage, and on *)
(* a partition state only in a partition region.  RequestNamesCurrentGroup *)
(* speaks of a cursor that can be followed; this part holds after a panic  *)
(* as well, and lets the types of the next step be derived.                *)
CursorInRegions ==
  /\ stage = "regions" => regionIdx \in 1 .. Len(regions)
  /\ stage \notin {"regions", "done"} => ~ part.on

(* The buffer of the partition region that is decoded has no gap.          *)
BufferGapless == part.on => Gapless(part)

IInv ==
  TypeOK /\ CursorInRegions /\ RequestNamesCurrentGroup /\ BufferGapless
    /\ NoHalfAppliedGroup

-----------------------------------------------------------------------------
(* Steps that several actions share.                                       *)

LEMMA RequestTypes ==
  /\ \A w \in {"header1", "header2", "partTable", "rawTable", "groupTable", "none"} :
       At(w) \in Requests
  /\ \A g \in Nat : AtGroup(g) \in Requests
  /\ \A r \in Requests : r.g \in Nat
BY DEF At, AtGroup, Requests

(* Asking for a group, or panicking past the end of the group table.       *)
LEMMA RequestGroupTypes ==
  ASSUME NEW g \in Nat, request \in Requests, error \in Errors, RequestGroup(g)
  PROVE  /\ request' \in Requests /\ error' \in Errors
         /\ error' # "panic" => request' = AtGroup(g) /\ g < Len(groups')
BY RequestTypes DEF RequestGroup, Errors

(* Entering a region that has groups asks for the first of them.           *)
LEMMA EnterKeepsIInv ==
  ASSUME regions' \in Seq(RegionEntries), groups' \in Seq(GroupEntries),
         request \in Requests, error \in Errors,
         NEW q \in 1 .. Len(regions') + 1,
         q <= Len(regions') => regions'[q].ng > 0,
         Enter(q, 0)
  PROVE  /\ stage' \in Stages /\ request' \in Requests
         /\ regionIdx' \in 1 .. Len(regions') + 1
         /\ rawI' \in Nat /\ part' \in PartStates /\ error' \in Errors
         /\ CursorInRegions' /\ RequestNamesCurrentGroup' /\ BufferGapless'
<1>1. /\ PartStart \in PartStates /\ NoPart \in PartStates
      /\ PartStart.on /\ ~ NoPart.on /\ PartStart.i = 0 /\ Gapless(PartStart)
  BY PartStartGapless
<1>2. Len(regions') \in Nat /\ Len(groups') \in Nat
  BY LenProperties
<1>3. CASE q > Len(regions')
  BY <1>1, <1>2, <1>3, RequestTypes
     DEF Enter, Stages, CursorInRegions, RequestNamesCurrentGroup, BufferGapless
<1>4. CASE q <= Len(regions')
  <2>1. regions'[q] \in RegionEntries /\ regions'[q].ng > 0
    BY <1>2, <1>4, ElementOfSeq
  <2>2. /\ regions'[q].gi \in Nat /\ regions'[q].ng \in Nat
        /\ regions'[q].kind \in {"part", "raw"}
    BY <2>1 DEF RegionEntries, PartEntries, RawEntries
  <2>3. /\ stage' = "regions" /\ regionIdx' = q /\ rawI' = 0
        /\ part' = IF regions'[q].kind = "part" THEN PartStart ELSE NoPart
        /\ RequestGroup(regions'[q].gi)
    BY <1>2, <1>4 DEF Enter
  <2>4. /\ request' \in Requests /\ error' \in Errors
        /\ error' # "panic" => /\ request' = AtGroup(regions'[q].gi)
                               /\ regions'[q].gi < Len(groups')
    BY <2>2, <2>3, RequestGroupTypes
  <2>5. CurrentGroup' = regions'[q].gi
    BY <1>1, <2>2, <2>3 DEF CurrentGroup, Region
  <2>6. RequestNamesCurrentGroup'
    BY <1>1, <2>1, <2>2, <2>3, <2>4, <2>5 DEF RequestNamesCurrentGroup, Region
  <2>7. BufferGapless'
    BY <1>1, <2>3 DEF BufferGapless, Gapless
  <2>8. QED
    BY <1>1, <1>2, <1>4, <2>3, <2>4, <2>6, <2>7 DEF Stages, CursorInRegions
<1>5. QED
  BY <1>2, <1>3, <1>4

(* next_region stops at a region with groups or at the end.                *)
LEMMA EnterRegionKeepsIInv ==
  ASSUME regions' \in Seq(RegionEntries), groups' \in Seq(GroupEntries),
         request \in Requests, error \in Errors,
         NEW r \in 1 .. Len(regions') + 1, EnterRegion(r)
  PROVE  /\ stage' \in Stages /\ request' \in Requests
         /\ regionIdx' \in 1 .. Len(regions') + 1
         /\ rawI' \in Nat /\ part' \in PartStates /\ error' \in Errors
         /\ CursorInRegions' /\ RequestNamesCurrentGroup' /\ BufferGapless'
<1>1. Len(regions') \in Nat
  BY LenProperties
<1>2. PICK q \in r .. Len(regions') + 1 : IsNextBusy(regions', r, q) /\ Enter(q, 0)
  BY DEF EnterRegion
<1>3. q \in 1 .. Len(regions') + 1
  BY <1>1
<1>4. q <= Len(regions') => regions'[q].ng > 0
  BY <1>2 DEF IsNextBusy
<1>5. QED
  BY <1>2, <1>3, <1>4, EnterKeepsIInv

-----------------------------------------------------------------------------
LEMMA InitIInv == Init => IInv
<1> SUFFICES ASSUME Init PROVE IInv
  OBVIOUS
<1>1. NoPart \in PartStates /\ ~ NoPart.on
  BY FormatAssumption DEF PartStart, NoPart, PartStates, NoTree, Sources, Slots
<1>2. \A S : <<>> \in Seq(S)
  BY EmptySeq
<1>3. Len(regions) = 0
  BY EmptySeq DEF Init
<1>4. stage \in Stages /\ request \in Requests
  BY RequestTypes DEF Init, Stages
<1>5. regionIdx = 1
  BY DEF Init
<1>6. regionIdx \in 1 .. Len(regions) + 1
  BY <1>3, <1>5
<1>7. TypeOK
  BY <1>1, <1>2, <1>4, <1>6 DEF Init, TypeOK
<1>8. QED
  BY <1>1, <1>7 DEF Init, IInv, CursorInRegions, RequestNamesCurrentGroup,
     BufferGapless, NoHalfAppliedGroup

(* The headers and the tables before the group table: the cursor is still  *)
(* before the first region.                                                *)
LEMMA TablesKeepIInv ==
  ASSUME IInv, Header1 \/ Header2 \/ PartTable \/ RawTable
  PROVE  IInv'
<1>1. /\ file.parts \in Seq(PartEntries)
      /\ file.raws \in Seq(RawEntries)
  BY FilesAssumption DEF IInv, TypeOK, Containers
<1>2. /\ UNCHANGED <<file, delegate, groups, regions, cursor, outputs, lastKey, error>>
      /\ stage \notin {"regions", "done"} /\ stage' \notin {"regions", "done"}
      /\ stage' \in Stages /\ request' \in Requests
      /\ parts' \in Seq(PartEntries) /\ rawEntries' \in Seq(RawEntries)
  BY <1>1, RequestTypes DEF IInv, TypeOK, Header1, Header2, PartTable, RawTable, Feeding, tables,
     Stages
<1>3. TypeOK'
  BY <1>2 DEF IInv, TypeOK, cursor
<1>4. CursorInRegions' /\ RequestNamesCurrentGroup' /\ ~ part.on
  BY <1>2 DEF IInv, CursorInRegions, RequestNamesCurrentGroup, cursor
<1>5. QED
  BY <1>2, <1>3, <1>4 DEF IInv, BufferGapless, NoHalfAppliedGroup, cursor

LEMMA GroupTableKeepsIInv ==
  ASSUME IInv, GroupTable
  PROVE  IInv'
<1>1. groups' \in Seq(GroupEntries)
  BY FilesAssumption DEF IInv, TypeOK, GroupTable, Containers
<1>2. regions' \in Seq(RegionEntries)
  BY OrdersType DEF IInv, TypeOK, GroupTable, RegionEntries
<1>3. 1 \in 1 .. Len(regions') + 1
  BY <1>2, LenProperties
<1>4. request \in Requests /\ error \in Errors /\ EnterRegion(1)
  BY DEF IInv, TypeOK, NoHalfAppliedGroup, GroupTable, Errors
<1>5. /\ stage' \in Stages /\ request' \in Requests
      /\ regionIdx' \in 1 .. Len(regions') + 1
      /\ rawI' \in Nat /\ part' \in PartStates /\ error' \in Errors
      /\ CursorInRegions' /\ RequestNamesCurrentGroup' /\ BufferGapless'
  BY <1>1, <1>2, <1>3, <1>4, EnterRegionKeepsIInv
<1>6. QED
  BY <1>1, <1>2, <1>5 DEF IInv, TypeOK, NoHalfAppliedGroup, GroupTable, RegionEntries, Errors

-----------------------------------------------------------------------------
(* What TypeOK says of the variables that a feed in the regions leaves     *)
(* alone or moves, ready to be cited.                                      *)
LEMMA FeedTypes ==
  ASSUME IInv
  PROVE  /\ regions \in Seq(RegionEntries) /\ groups \in Seq(GroupEntries)
         /\ request \in Requests /\ error \in Errors
         /\ rawI \in Nat /\ part \in PartStates /\ stage \in Stages
         /\ delegate \in BOOLEAN
         /\ outputs \in Seq(OutputRecords)
         /\ RequestNamesCurrentGroup /\ CursorInRegions /\ BufferGapless
BY DEF IInv, TypeOK, NoHalfAppliedGroup, RegionEntries, Errors

(* A feed in the regions keeps the invariant when the parts it moves keep  *)
(* their types and the cursor stays on the request.                        *)
LEMMA FeedKeepsIInv ==
  ASSUME IInv, UNCHANGED <<file, delegate, tables, lastKey>>,
         outputs' \in Seq(OutputRecords),
         stage' \in Stages, request' \in Requests,
         regionIdx' \in 1 .. Len(regions') + 1,
         rawI' \in Nat, part' \in PartStates, error' \in Errors,
         CursorInRegions', RequestNamesCurrentGroup', BufferGapless'
  PROVE  IInv'
BY DEF IInv, TypeOK, NoHalfAppliedGroup, tables, Errors

(* The region at the cursor, and what the delivered bytes are.             *)
LEMMA CurrentTypes ==
  ASSUME IInv, Feeding("regions")
  PROVE  /\ regionIdx \in 1 .. Len(regions) /\ Len(regions) \in Nat
         /\ Region \in RegionEntries
         /\ Region.gi \in Nat /\ Region.ng \in Nat
         /\ CurrentGroup \in Nat
         /\ groups[CurrentGroup + 1] \in GroupEntries
         /\ request.g \in Nat
<1>1. regionIdx \in 1 .. Len(regions) /\ Len(regions) \in Nat /\ Len(groups) \in Nat
  BY LenProperties DEF IInv, TypeOK, CursorInRegions, Feeding
<1>2. Region \in RegionEntries
  BY <1>1, ElementOfSeq DEF IInv, TypeOK, Region, RegionEntries
<1>3. Region.gi \in Nat /\ Region.ng \in Nat
  BY <1>2 DEF RegionEntries, PartEntries, RawEntries
<1>4. CurrentGroup \in Nat
  <2>1. rawI \in Nat /\ part.i \in Nat
    BY PartTypes DEF IInv, TypeOK
  <2>2. QED
    BY <1>3, <2>1 DEF CurrentGroup
<1>5. CurrentGroup + 1 \in 1 .. Len(groups)
  BY <1>1, <1>4 DEF IInv, RequestNamesCurrentGroup, Feeding
<1>6. groups[CurrentGroup + 1] \in GroupEntries
  BY <1>5, ElementOfSeq DEF IInv, TypeOK
<1>7. request.g \in Nat
  BY RequestTypes DEF IInv, TypeOK
<1>8. QED
  BY <1>1, <1>2, <1>3, <1>4, <1>6, <1>7

-----------------------------------------------------------------------------
LEMMA RawGroupKeepsIInv ==
  ASSUME IInv, RawGroup
  PROVE  IInv'
<1>0. \/ /\ rawI + 1 < Region.ng
         /\ rawI' = rawI + 1
         /\ RequestGroup(CurrentGroup + 1)
         /\ UNCHANGED <<stage, regionIdx, part>>
      \/ /\ rawI + 1 >= Region.ng
         /\ EnterRegion(regionIdx + 1)
  BY DEF RawGroup
<1>1. Feeding("regions") /\ ~ part.on
  BY DEF RawGroup
<1>2. /\ regionIdx \in 1 .. Len(regions) /\ Len(regions) \in Nat
      /\ Region \in RegionEntries /\ Region.gi \in Nat /\ Region.ng \in Nat
      /\ CurrentGroup \in Nat /\ request.g \in Nat
  BY <1>1, CurrentTypes
<1>2a. rawI \in Nat
  BY DEF IInv, TypeOK
<1>3. Region \in RawEntries
  BY <1>1, <1>2 DEF IInv, RequestNamesCurrentGroup, Feeding, RegionEntries, PartEntries,
     RawEntries
<1>4. outputs' \in Seq(OutputRecords)
  <2>1. RawOutput(Region, rawI, Delivered(CurrentGroup, 0))
          \in OutputRecords
    BY <1>2, <1>3, PayloadType, RawOutputType DEF IInv, TypeOK, Delivered
  <2>2. outputs' = Append(outputs, RawOutput(Region, rawI, Delivered(CurrentGroup, 0)))
    BY DEF RawGroup
  <2>3. outputs \in Seq(OutputRecords)
    BY DEF IInv, TypeOK
  <2>4. QED
    BY <2>1, <2>2, <2>3, AppendProperties
<1>5. UNCHANGED <<file, delegate, tables, lastKey>>
  BY DEF RawGroup
<1>6. CASE rawI + 1 < Region.ng
  <2>1. rawI' = rawI + 1 /\ RequestGroup(CurrentGroup + 1)
        /\ UNCHANGED <<stage, regionIdx, part>>
    BY <1>6, <1>0, <1>2, <1>2a
  <2>2. Region' = Region
    BY <1>5, <2>1 DEF Region, tables
  <2>3. CurrentGroup' = CurrentGroup + 1
    BY <1>1, <1>2, <1>2a, <2>1, <2>2 DEF CurrentGroup
  <2>4. /\ request' \in Requests /\ error' \in Errors
        /\ error' # "panic" => /\ request' = AtGroup(CurrentGroup + 1)
                               /\ CurrentGroup + 1 < Len(groups')
    BY <1>2, <2>1, RequestGroupTypes, FeedTypes
  <2>5. part.on <=> Region.kind = "part"
    BY <1>1, FeedTypes DEF RequestNamesCurrentGroup, Feeding
  <2>6. RequestNamesCurrentGroup'
    BY <1>1, <1>6, <2>1, <2>2, <2>3, <2>4, <2>5 DEF RequestNamesCurrentGroup
  <2>7. CursorInRegions'
    BY <1>2, <1>5, <2>1, FeedTypes DEF CursorInRegions, tables
  <2>8. regionIdx' \in 1 .. Len(regions') + 1 /\ rawI' \in Nat
    BY <1>2, <1>2a, <1>5, <2>1 DEF tables
  <2>9. BufferGapless'
    BY <1>1, <2>1 DEF BufferGapless
  <2>10. QED
    BY <1>4, <1>5, <2>1, <2>4, <2>6, <2>7, <2>8, <2>9, FeedTypes, FeedKeepsIInv
<1>7. CASE rawI + 1 >= Region.ng
  <2>1. EnterRegion(regionIdx + 1)
    BY <1>7, <1>0, <1>2, <1>2a
  <2>2. regions' \in Seq(RegionEntries) /\ groups' \in Seq(GroupEntries)
    BY <1>5, FeedTypes DEF tables
  <2>3. regionIdx + 1 \in 1 .. Len(regions') + 1
    BY <1>2, <1>5 DEF tables
  <2>4. request \in Requests /\ error \in Errors
    BY FeedTypes
  <2>5. /\ stage' \in Stages /\ request' \in Requests
        /\ regionIdx' \in 1 .. Len(regions') + 1
        /\ rawI' \in Nat /\ part' \in PartStates /\ error' \in Errors
        /\ CursorInRegions' /\ RequestNamesCurrentGroup' /\ BufferGapless'
    BY <2>1, <2>2, <2>3, <2>4, EnterRegionKeepsIInv
  <2>6. QED
    BY <1>4, <1>5, <2>5, FeedKeepsIInv
<1>8. QED
  BY <1>0, <1>6, <1>7

(* Going on after a partition group: to its next group, or out of it.      *)
LEMMA ContinueKeepsIInv ==
  ASSUME IInv, Feeding("regions"), part.on,
         NEW ps \in PartStates, ps.on, ps.i = part.i + 1,
         ps.i < Region.ng => Gapless(ps),
         UNCHANGED <<file, delegate, tables, lastKey>>,
         outputs' \in Seq(OutputRecords),
         Continue(ps)
  PROVE  IInv'
<1>1. /\ regionIdx \in 1 .. Len(regions) /\ Len(regions) \in Nat
      /\ Region.gi \in Nat /\ Region.ng \in Nat
  BY CurrentTypes
<1>2. part.i \in Nat /\ ps.i \in Nat
  BY PartTypes, FeedTypes
<1>3. regions' \in Seq(RegionEntries) /\ groups' \in Seq(GroupEntries)
  BY FeedTypes DEF tables
<1>4. request \in Requests /\ error \in Errors
  BY FeedTypes
<1>5. CASE ps.i < Region.ng
  <2>1. part' = ps /\ RequestGroup(Region.gi + ps.i) /\ UNCHANGED <<stage, regionIdx, rawI>>
    BY <1>1, <1>2, <1>5 DEF Continue
  <2>2. Region' = Region
    BY <2>1 DEF Region, tables
  <2>3. CurrentGroup' = Region.gi + ps.i
    BY <2>1, <2>2 DEF CurrentGroup
  <2>4. /\ request' \in Requests /\ error' \in Errors
        /\ error' # "panic" => /\ request' = AtGroup(Region.gi + ps.i)
                               /\ Region.gi + ps.i < Len(groups')
    <3>1. Region.gi + ps.i \in Nat
      BY <1>1, <1>2
    <3>2. QED
      BY <1>4, <2>1, <3>1, RequestGroupTypes
  <2>5. Region.kind = "part"
    BY FeedTypes DEF RequestNamesCurrentGroup, Feeding
  <2>6. RequestNamesCurrentGroup'
    BY <1>5, <2>1, <2>2, <2>3, <2>4, <2>5 DEF RequestNamesCurrentGroup
  <2>7. CursorInRegions'
    BY <1>1, <2>1, FeedTypes DEF CursorInRegions, tables, Feeding
  <2>8. regionIdx' \in 1 .. Len(regions') + 1 /\ rawI' \in Nat /\ stage' \in Stages
    BY <1>1, <2>1, FeedTypes DEF tables
  <2>9. BufferGapless'
    BY <1>5, <2>1 DEF BufferGapless, Gapless
  <2>10. QED
    BY <2>1, <2>4, <2>6, <2>7, <2>8, <2>9, FeedKeepsIInv
<1>6. CASE ps.i >= Region.ng
  <2>1. EnterRegion(regionIdx + 1)
    BY <1>1, <1>2, <1>6 DEF Continue
  <2>2. regionIdx + 1 \in 1 .. Len(regions') + 1
    BY <1>1 DEF tables
  <2>3. /\ stage' \in Stages /\ request' \in Requests
        /\ regionIdx' \in 1 .. Len(regions') + 1
        /\ rawI' \in Nat /\ part' \in PartStates /\ error' \in Errors
        /\ CursorInRegions' /\ RequestNamesCurrentGroup' /\ BufferGapless'
    BY <1>3, <1>4, <2>1, <2>2, EnterRegionKeepsIInv
  <2>4. QED
    BY <2>3, FeedKeepsIInv
<1>7. QED
  BY <1>1, <1>2, <1>5, <1>6

-----------------------------------------------------------------------------
LEMMA PartGroupKeepsIInv ==
  ASSUME IInv, PartGroup
  PROVE  IInv'
<1> DEFINE n == Expected(Region.ns, part.i, ChunkBlocks)
           ps == Filled(part, groups[CurrentGroup + 1], request.g, n)
<1>1. /\ Feeding("regions") /\ part.on
      /\ UNCHANGED <<file, delegate, tables, lastKey>>
  BY DEF PartGroup
<1>2. Region \in PartEntries
  <2>1. Region \in RegionEntries
    BY <1>1, CurrentTypes
  <2>2. Region.kind = "part"
    BY <1>1, FeedTypes DEF RequestNamesCurrentGroup, Feeding
  <2>3. QED
    BY <2>1, <2>2 DEF RegionEntries, PartEntries, RawEntries
<1>3. n \in Nat
  <2>1. Region.ns \in Nat
    BY <1>2 DEF PartEntries
  <2>2. part.i \in Nat
    BY FeedTypes, PartTypes
  <2>3. QED
    <3>1. n \in 0 .. ChunkBlocks
      BY <2>1, <2>2, FormatAssumption, ExpectedRange
    <3>2. QED
      BY <3>1, FormatAssumption
<1>4. /\ ps \in PartStates /\ ps.i = part.i + 1 /\ ps.on
      /\ Cleared(ps) \in PartStates /\ Cleared(ps).i = part.i + 1 /\ Cleared(ps).on
  <2>1. request.g \in Nat /\ part \in PartStates
    BY <1>1, CurrentTypes, FeedTypes
  <2>2. ps \in PartStates /\ ps.i = part.i + 1 /\ ps.on = part.on
    BY <1>3, <2>1, FilledType
  <2>3. QED
    BY <1>1, <2>2, ClearedType
<1>4a. Gapless(ps) /\ Finalizable(ps)
  <2>1. Gapless(part) /\ request.g \in Nat /\ part \in PartStates
    BY <1>1, CurrentTypes, FeedTypes DEF BufferGapless
  <2>2. Gapless(ps)
    BY <1>3, <2>1, FilledGapless
  <2>3. QED
    BY <1>4, <2>2, GaplessFinalizable
<1>5. \/ /\ Continue(ps) /\ UNCHANGED outputs
      \/ /\ Continue(Cleared(ps)) /\ UNCHANGED outputs
         /\ GroupComplete(ps, Region)
      \/ /\ GroupLength(ps) > 0
         /\ GroupComplete(ps, Region)
         /\ outputs' = Append(outputs, GroupOutput(ps, Region, OutputKey))
         /\ Continue(Cleared(ps))
      \/ ~ Finalizable(ps)
  BY DEF PartGroup
<1>5a. GroupComplete(ps, Region) /\ Cleared(ps).i < Region.ng => Gapless(Cleared(ps))
  <2>1. ASSUME GroupComplete(ps, Region), Cleared(ps).i < Region.ng
        PROVE  ps.blockIndex % GroupBlocks = 0
    <3>1. Region.ng \in Nat /\ ps.i \in Nat /\ ps.i = Cleared(ps).i
      BY <1>1, <1>4, CurrentTypes, PartTypes
    <3>2. QED
      BY <2>1, <3>1 DEF GroupComplete
  <2>2. QED
    BY <1>4, <2>1, ClearedGapless
<1> HIDE DEF ps, n
<1>6. outputs \in Seq(OutputRecords)
  BY FeedTypes
<1>7. CASE Continue(ps) /\ UNCHANGED outputs
  <2>1. outputs' \in Seq(OutputRecords)
    BY <1>6, <1>7
  <2>2. QED
    BY <1>1, <1>4, <1>4a, <1>7, <2>1, ContinueKeepsIInv
<1>8. CASE Continue(Cleared(ps)) /\ UNCHANGED outputs /\ GroupComplete(ps, Region)
  <2>1. outputs' \in Seq(OutputRecords)
    BY <1>6, <1>8
  <2>2. QED
    BY <1>1, <1>4, <1>5a, <1>8, <2>1, ContinueKeepsIInv
<1>9. CASE /\ GroupLength(ps) > 0
           /\ GroupComplete(ps, Region)
           /\ outputs' = Append(outputs, GroupOutput(ps, Region, OutputKey))
           /\ Continue(Cleared(ps))
  <2>1. GroupOutput(ps, Region, OutputKey) \in OutputRecords
    <3>1. OutputKey \in Keys \cup {NoKey}
      BY <1>2 DEF OutputKey, PartEntries
    <3>2. QED
      BY <1>2, <1>4, <1>9, <3>1, GroupOutputType
  <2>2. outputs' \in Seq(OutputRecords)
    BY <1>6, <1>9, <2>1, AppendProperties
  <2>3. QED
    BY <1>1, <1>4, <1>5a, <1>9, <2>2, ContinueKeepsIInv
<1>10. QED
  BY <1>4a, <1>5, <1>7, <1>8, <1>9

-----------------------------------------------------------------------------
LEMMA RefusedKeepsIInv ==
  ASSUME IInv, Refused
  PROVE  IInv'
<1>1. /\ UNCHANGED <<file, delegate, stage, request, tables, cursor, outputs, lastKey>>
      /\ error' = "refused" /\ error # "panic"
  BY DEF Refused
<1>2. TypeOK'
  BY <1>1 DEF IInv, TypeOK, tables, cursor
<1>3. Region' = Region /\ CurrentGroup' = CurrentGroup
  BY <1>1 DEF Region, CurrentGroup, tables, cursor
<1>4. RequestNamesCurrentGroup' /\ CursorInRegions'
  BY <1>1, <1>3 DEF IInv, RequestNamesCurrentGroup, CursorInRegions, tables, cursor
<1>5. BufferGapless'
  BY <1>1 DEF IInv, BufferGapless, cursor
<1>6. QED
  BY <1>1, <1>2, <1>4, <1>5 DEF IInv, NoHalfAppliedGroup

LEMMA TakeOutputKeepsIInv ==
  ASSUME IInv, TakeOutput
  PROVE  IInv'
<1>1. UNCHANGED <<file, delegate, stage, request, tables, cursor, error>>
  BY DEF TakeOutput
<1>2. /\ outputs' \in Seq(OutputRecords)
      /\ lastKey' \in Keys \cup {NoKey}
  <2>1. CASE outputs = <<>>
    BY <2>1, EmptySeq DEF TakeOutput
  <2>2. CASE outputs # <<>>
    <3>1. /\ outputs' = Tail(outputs) /\ lastKey' = Head(outputs).key
          /\ outputs \in Seq(OutputRecords)
      BY <2>2, FeedTypes DEF TakeOutput
    <3>2. /\ Head(outputs) \in OutputRecords
          /\ Tail(outputs) \in Seq(OutputRecords)
      BY <2>2, <3>1, HeadTailProperties
    <3>3. QED
      BY <3>1, <3>2 DEF OutputRecords
  <2>3. QED
    BY <2>1, <2>2
<1>3. TypeOK'
  BY <1>1, <1>2 DEF IInv, TypeOK, tables, cursor
<1>4. Region' = Region /\ CurrentGroup' = CurrentGroup
  BY <1>1 DEF Region, CurrentGroup, tables, cursor
<1>5. RequestNamesCurrentGroup' /\ CursorInRegions' /\ BufferGapless'
  BY <1>1, <1>4 DEF IInv, RequestNamesCurrentGroup, CursorInRegions, BufferGapless,
     tables, cursor
<1>6. QED
  BY <1>1, <1>3, <1>5 DEF IInv, NoHalfAppliedGroup

LEMMA StutterKeepsIInv ==
  ASSUME IInv, UNCHANGED vars
  PROVE  IInv'
<1>1. Region' = Region /\ CurrentGroup' = CurrentGroup
  BY DEF vars, tables, cursor, Region, CurrentGroup
<1>2. TypeOK' /\ NoHalfAppliedGroup'
  BY DEF IInv, TypeOK, NoHalfAppliedGroup, vars, tables, cursor
<1>3. RequestNamesCurrentGroup' /\ CursorInRegions' /\ BufferGapless'
  BY <1>1 DEF IInv, RequestNamesCurrentGroup, CursorInRegions, BufferGapless,
     vars, tables, cursor
<1>4. QED
  BY <1>2, <1>3 DEF IInv

LEMMA NextKeepsIInv ==
  ASSUME IInv, [Next]_vars
  PROVE  IInv'
<1>1. CASE Header1 \/ Header2 \/ PartTable \/ RawTable
  BY <1>1, TablesKeepIInv
<1>2. CASE GroupTable
  BY <1>2, GroupTableKeepsIInv
<1>3. CASE RawGroup
  BY <1>3, RawGroupKeepsIInv
<1>4. CASE PartGroup
  BY <1>4, PartGroupKeepsIInv
<1>5. CASE Refused
  BY <1>5, RefusedKeepsIInv
<1>6. CASE TakeOutput
  BY <1>6, TakeOutputKeepsIInv
<1>7. CASE UNCHANGED vars
  BY <1>7, StutterKeepsIInv
<1>. QED
  BY <1>1, <1>2, <1>3, <1>4, <1>5, <1>6, <1>7 DEF Next, Feed

(* The inductive invariant holds in every reachable state, for every set   *)
(* of containers, well-formed or not, and every block, chunk and group     *)
(* size.                                                                   *)
THEOREM PushDecoderInvariant == Spec => []IInv
<1>1. Init => IInv
  BY InitIInv
<1>2. IInv /\ [Next]_vars => IInv'
  BY NextKeepsIInv
<1>3. QED
  BY <1>1, <1>2, PTL DEF Spec

(* The variables of the push decoder keep their types.                     *)
THEOREM TypeCorrect == Spec => []TypeOK
<1>1. IInv => TypeOK
  BY DEF IInv
<1>2. QED
  BY <1>1, PushDecoderInvariant, PTL

(* No group is ever decoded with the table entry of another one.           *)
THEOREM RequestCorrect == Spec => []RequestNamesCurrentGroup
<1>1. IInv => RequestNamesCurrentGroup
  BY DEF IInv
<1>2. QED
  BY <1>1, PushDecoderInvariant, PTL

(* finalize_group never fails: no partition state is left half updated.    *)
THEOREM FinalizeNeverFails == Spec => []NoHalfAppliedGroup
<1>1. IInv => NoHalfAppliedGroup
  BY DEF IInv
<1>2. QED
  BY <1>1, PushDecoderInvariant, PTL

-----------------------------------------------------------------------------
(* The push decoder implements DiscStream.  Its position in the stream is  *)
(* its cursor: the region, and in a partition the hash groups that are     *)
(* complete; its queue is the stream's.                                    *)

Position ==
  IF stage = "done" THEN <<Len(regions) + 1, 0>>
  ELSE IF stage # "regions" THEN <<0, 0>>
  ELSE <<regionIdx, IF part.on THEN part.groupStart \div GroupBlocks ELSE rawI>>

(* The tables are those of the container once they are fed; a container    *)
(* without partitions never has its partition table asked for.             *)
TablesOfFile ==
  /\ stage \in {"header1", "header2"} => parts = <<>>
  /\ stage \in {"rawTable", "groupTable"} => parts = file.parts
  /\ stage = "groupTable" => rawEntries = file.raws
  /\ stage = "regions" => groups = file.groups
  /\ stage = "regions" /\ WellFormed(file) => AllWellFormed(regions, groups)

(* What has come of the open hash group is in its slots, and nothing else. *)
BufferExact ==
  /\ stage = "done" => ~ part.on
  /\ stage = "regions" /\ part.on /\ WellFormed(file) /\ ChunksFillGroups =>
       Exact(part, Region, groups) /\ Open(part)

RInv == IInv /\ TablesOfFile /\ BufferExact

-----------------------------------------------------------------------------
\* The stream's own copies of the operators of the format mean the same.
LEMMA StreamOrders ==
  ASSUME NEW P, NEW R
  PROVE  Stream!Orders(P, R) = Orders(P, R)
BY DEF Cardinality, Stream!Cardinality, Orders, Candidates, EntryAt, IsOrder, Before,
       StartKey, AlignDown, Stream!Orders, Stream!Candidates, Stream!EntryAt,
       Stream!IsOrder, Stream!Before, Stream!StartKey, Stream!AlignDown

LEMMA StreamOutputs ==
  ASSUME NEW e, NEW k
  PROVE  /\ Stream!OutputsOf(e) = IF e.kind = "part" THEN CeilDiv(e.ns, GroupBlocks) ELSE e.ng
         /\ Stream!PartOutput(e, k) = GroupRecord(e, k, file.groups, IF delegate THEN e.key ELSE NoKey)
         /\ Stream!RawOutput(e, k, Stream!Source(file.groups, e.gi + k, 0))
              = RawOutput(e, k, Source(file.groups, e.gi + k, 0))
<1>1. Stream!OutputsOf(e) = IF e.kind = "part" THEN CeilDiv(e.ns, GroupBlocks) ELSE e.ng
  BY DEF Stream!OutputsOf, Stream!CeilDiv, CeilDiv
<1>2. Stream!PartOutput(e, k) = GroupRecord(e, k, file.groups, IF delegate THEN e.key ELSE NoKey)
  BY DEF Stream!PartOutput, Stream!Lesser, Stream!Source, Stream!Zeros, Stream!Empty,
         Stream!Slots, GroupRecord, RecordFrom, Lesser, Source, Zeros, Empty, Slots
<1>3. Stream!RawOutput(e, k, Stream!Source(file.groups, e.gi + k, 0))
        = RawOutput(e, k, Source(file.groups, e.gi + k, 0))
  BY DEF Stream!RawOutput, Stream!Source, Stream!Zeros, Stream!AlignDown, Stream!Chunk,
         Stream!Expected, Stream!LogicalSize, Stream!Lesser, Stream!NoTree,
         Stream!Slots, Stream!Empty, RawOutput, Source, Zeros, AlignDown, Chunk,
         Expected, LogicalSize, Lesser, NoTree, Slots, Empty
<1>. QED
  BY <1>1, <1>2, <1>3

\* An entry has outputs exactly when it has groups.
LEMMA BusyHasOutputs ==
  ASSUME NEW e \in RegionEntries, NEW gs, WellFormedEntry(e, gs)
  PROVE  /\ Stream!OutputsOf(e) \in Nat /\ e.ng \in Nat
         /\ Stream!OutputsOf(e) > 0 <=> e.ng > 0
<1>1. CASE e.kind = "part"
  <2>1. e \in PartEntries
    BY <1>1 DEF RegionEntries, RawEntries
  <2>2. PICK ns \in Nat : ns = e.ns
    BY <2>1 DEF PartEntries
  <2>3. e.ng = CeilDiv(ns, ChunkBlocks) /\ Stream!OutputsOf(e) = CeilDiv(ns, GroupBlocks)
    BY <1>1, <2>2, StreamOutputs DEF WellFormedEntry
  <2>4. ChunkBlocks \in Nat \ {0} /\ GroupBlocks \in Nat \ {0} /\ 0 \in Nat
    BY FormatAssumption
  <2>5. CeilDiv(ns, ChunkBlocks) \in Nat /\ CeilDiv(ns, GroupBlocks) \in Nat
    BY <2>2, <2>4, CeilDivBounds
  <2>6. /\ 0 < CeilDiv(ns, ChunkBlocks) <=> 0 * ChunkBlocks < ns
        /\ 0 < CeilDiv(ns, GroupBlocks) <=> 0 * GroupBlocks < ns
    BY <2>2, <2>4, CeilDivUnit
  <2>7. 0 * ChunkBlocks = 0 /\ 0 * GroupBlocks = 0
    BY <2>4
  <2>. QED
    BY <2>3, <2>5, <2>6, <2>7
<1>2. CASE e.kind # "part"
  <2>1. e \in RawEntries
    BY <1>2 DEF RegionEntries, PartEntries
  <2>2. e.ng \in Nat /\ Stream!OutputsOf(e) = e.ng
    BY <1>2, <2>1, StreamOutputs DEF RawEntries
  <2>. QED
    BY <2>2
<1>. QED
  BY <1>1, <1>2


\* Going on at the next region with groups is going on at the first output
\* from there on, with buffers for the first hash group.
LEMMA EnterRegionStreams ==
  ASSUME regions' \in Seq(RegionEntries), NEW gs,
         NEW r \in 1 .. Len(regions') + 1, EnterRegion(r)
  PROVE  /\ AllWellFormed(regions', gs) => Stream!IsFirstFrom(regions', r, Position')
         /\ (stage' = "done") = (Position' = Stream!EndOf(regions'))
         /\ stage' \in {"regions", "done"} /\ BufferExact'
<1>0. PICK l \in Nat : l = Len(regions')
  BY LenProperties
<1>1. l = Len(regions') /\ DOMAIN regions' = 1 .. l
  BY <1>0, LenProperties
<1>2. PICK q \in r .. Len(regions') + 1 : IsNextBusy(regions', r, q) /\ Enter(q, 0)
  BY DEF EnterRegion
<1>2a. /\ regionIdx' = q /\ rawI' = 0
       /\ \/ q > Len(regions') /\ stage' = "done" /\ part' = NoPart
          \/ /\ q <= Len(regions') /\ stage' = "regions"
             /\ part' = IF regions'[q].kind = "part" THEN PartStart ELSE NoPart
  BY <1>2 DEF Enter
<1>3. q \in 1 .. l + 1 /\ r \in Nat /\ r <= q
  BY <1>0
<1>4. Position' = <<q, 0>> /\ (stage' = "done") = (q = l + 1)
  <2>1. CASE q > l
    <3>1. stage' = "done" /\ q = Len(regions') + 1 /\ q = l + 1
      BY <1>1, <1>2a, <1>3, <2>1
    <3>2. Position' = <<q, 0>>
      BY <3>1 DEF Position
    <3>. QED
      BY <3>1, <3>2
  <2>2. CASE q <= l
    <3>1. /\ regionIdx' = q /\ rawI' = 0 /\ stage' = "regions"
          /\ part' = IF regions'[q].kind = "part" THEN PartStart ELSE NoPart
      BY <1>1, <1>2a, <1>3, <2>2
    <3>2. (IF part'.on THEN part'.groupStart \div GroupBlocks ELSE rawI') = 0
      <4>1. PartStart.groupStart = 0 /\ NoPart.groupStart = 0
        BY DEF PartStart, NoPart
      <4>2. 0 \div GroupBlocks = 0
        BY FormatAssumption
      <4>. QED
        BY <3>1, <4>1, <4>2
    <3>3. Position' = <<q, 0>>
      BY <3>1, <3>2 DEF Position
    <3>4. ~ (q = l + 1)
      BY <1>3, <2>2
    <3>. QED
      BY <3>1, <3>3, <3>4
  <2>. QED
    BY <1>1, <1>3, <2>1, <2>2
<1>5. (Position' = Stream!EndOf(regions')) = (q = l + 1)
  BY <1>1, <1>4 DEF Stream!EndOf
<1>6. ASSUME AllWellFormed(regions', gs)
      PROVE  Stream!IsFirstFrom(regions', r, <<q, 0>>)
  <2>1. ASSUME NEW t \in 1 .. l
        PROVE  /\ Stream!OutputsOf(regions'[t]) \in Nat /\ regions'[t].ng \in Nat
               /\ Stream!OutputsOf(regions'[t]) > 0 <=> regions'[t].ng > 0
    <3>1. regions'[t] \in RegionEntries /\ WellFormedEntry(regions'[t], gs)
      BY <1>1, <1>6, ElementOfSeq DEF AllWellFormed
    <3>. QED
      BY <3>1, BusyHasOutputs
  <2>2. q <= l => Stream!OutputsOf(regions'[q]) > 0
    BY <1>1, <1>2, <1>3, <2>1 DEF IsNextBusy
  <2>3. ASSUME NEW t \in r .. q - 1 PROVE Stream!OutputsOf(regions'[t]) = 0
    <3>1. t \in 1 .. l /\ regions'[t].ng = 0
      BY <1>1, <1>2, <1>3 DEF IsNextBusy
    <3>. QED
      BY <2>1, <3>1
  <2>. QED
    BY <1>1, <1>3, <2>2, <2>3 DEF Stream!IsFirstFrom
<1>7. BufferExact'
  <2>1. stage' = "done" => ~ part'.on
    BY <1>1, <1>2a, <1>3, PartStartGapless
  <2>2. ASSUME stage' = "regions", part'.on
        PROVE  Exact(part', Region', groups') /\ Open(part')
    <3>1. q \in 1 .. l /\ Region' = regions'[q]
      BY <1>1, <1>2a, <1>3, <2>2 DEF Region
    <3>2. regions'[q].kind = "part" /\ part' = PartStart
      BY <1>1, <1>2a, <2>2, <3>1, PartStartGapless
    <3>3. regions'[q] \in PartEntries
      BY <1>1, <3>1, <3>2, ElementOfSeq DEF RegionEntries, RawEntries
    <3>. QED
      BY <3>1, <3>2, <3>3, StartExact
  <2>. QED
    BY <2>1, <2>2 DEF BufferExact
<1>. QED
  BY <1>2a, <1>4, <1>5, <1>6, <1>7

-----------------------------------------------------------------------------
\* The steps of the stream, in terms of the decoder.
LEMMA StreamStutters ==
  ASSUME file' = file, delegate' = delegate, regions' = regions, Position' = Position,
         outputs' = outputs, (stage' = "done") = (stage = "done")
  PROVE  UNCHANGED Stream!vars
BY DEF Stream!vars, Position

LEMMA OpenStep ==
  ASSUME Position = <<0, 0>>, regions' \in Orders(file.parts, file.raws),
         Stream!IsFirstFrom(regions', 1, Position'),
         (stage' = "done") = (Position' = Stream!EndOf(regions')),
         file' = file, delegate' = delegate, outputs' = outputs
  PROVE  Stream!Next
<1>1. regions' \in Stream!Orders(file.parts, file.raws)
  BY StreamOrders
<1>. QED
  BY <1>1 DEF Stream!Next, Stream!Open, Stream!Start, Position

LEMMA ProduceStep ==
  ASSUME Position \notin {<<0, 0>>, Stream!EndOf(regions)},
         outputs' = Append(outputs, Stream!OutputAt(regions, Position)),
         Stream!IsNext(regions, Position, Position'),
         (stage' = "done") = (Position' = Stream!EndOf(regions)),
         file' = file, delegate' = delegate, regions' = regions
  PROVE  Stream!Next
BY DEF Stream!Next, Stream!Produce, Stream!Start, Position

LEMMA TakeStep ==
  ASSUME outputs # <<>>, outputs' = Tail(outputs), Position' = Position,
         (stage' = "done") = (stage = "done"),
         file' = file, delegate' = delegate, regions' = regions
  PROVE  Stream!Next
BY DEF Stream!Next, Stream!Take, Position

\* In the regions: the position, and what follows it.
Unit == IF part.on THEN part.groupStart \div GroupBlocks ELSE rawI

LEMMA PositionInRegions ==
  ASSUME RInv, Feeding("regions")
  PROVE  /\ Position = <<regionIdx, Unit>> /\ Unit \in Nat
         /\ Position \notin {<<0, 0>>, Stream!EndOf(regions)}
         /\ stage = "regions"
         /\ regionIdx \in 1 .. Len(regions) /\ Len(regions) \in Nat
         /\ regions \in Seq(RegionEntries)
<1>1. regionIdx \in 1 .. Len(regions) /\ Len(regions) \in Nat
  BY CurrentTypes DEF RInv
<1>2. stage = "regions" /\ regions \in Seq(RegionEntries)
  BY FeedTypes DEF RInv, Feeding
<1>3. Position = <<regionIdx, Unit>>
  BY <1>2 DEF Position, Unit
<1>4. Unit \in Nat
  <2>1. rawI \in Nat /\ part.groupStart \in Nat /\ GroupBlocks \in Nat \ {0}
    BY FeedTypes, PartTypes, FormatAssumption DEF RInv
  <2>2. part.groupStart \div GroupBlocks \in Nat
    BY <2>1, DivMod
  <2>. QED
    BY <2>1, <2>2 DEF Unit
<1>5. regionIdx # 0 /\ regionIdx # Len(regions) + 1
  BY <1>1
<1>6. Position \notin {<<0, 0>>, Stream!EndOf(regions)}
  BY <1>3, <1>5 DEF Stream!EndOf
<1>. QED
  BY <1>1, <1>2, <1>3, <1>4, <1>6

LEMMA NextUnit ==
  ASSUME RInv, Feeding("regions")
  PROVE  /\ /\ Unit + 1 < Stream!OutputsOf(Region)
            /\ Position' = <<regionIdx, Unit + 1>>
            => Stream!IsNext(regions, Position, Position')
         /\ /\ ~ (Unit + 1 < Stream!OutputsOf(Region))
            /\ Stream!IsFirstFrom(regions, regionIdx + 1, Position')
            => Stream!IsNext(regions, Position, Position')
<1>1. Position[1] = regionIdx /\ Position[2] = Unit /\ regions[Position[1]] = Region
  BY PositionInRegions DEF Region
<1>. QED
  BY <1>1 DEF Stream!IsNext

-----------------------------------------------------------------------------
\* In a well-formed container every region has the groups that its size
\* needs, and the caller delivers the group at the cursor.
LEMMA RegionsWellFormed ==
  ASSUME RInv, Feeding("regions")
  PROVE  /\ groups = file.groups /\ request.g = CurrentGroup
         /\ part.on = (Region.kind = "part")
         /\ (IF part.on THEN part.i ELSE rawI) < Region.ng
         /\ WellFormed(file) =>
              AllWellFormed(regions, groups) /\ WellFormedEntry(Region, groups)
<1>1. /\ groups = file.groups
      /\ WellFormed(file) => AllWellFormed(regions, groups)
  BY DEF RInv, TablesOfFile, Feeding
<1>2. regionIdx \in 1 .. Len(regions) /\ DOMAIN regions = 1 .. Len(regions)
  BY PositionInRegions, LenProperties
<1>3. WellFormed(file) => WellFormedEntry(Region, groups)
  BY <1>1, <1>2 DEF AllWellFormed, Region
<1>4. /\ request = AtGroup(CurrentGroup)
      /\ part.on <=> Region.kind = "part"
      /\ (IF part.on THEN part.i ELSE rawI) < Region.ng
  BY DEF RInv, IInv, RequestNamesCurrentGroup, Feeding
<1>5. request.g = CurrentGroup
  BY <1>4 DEF AtGroup
<1>6. part.on = (Region.kind = "part")
  <2>1. part.on \in BOOLEAN
    BY FeedTypes, PartTypes DEF RInv
  <2>. QED
    BY <1>4, <2>1
<1>. QED
  BY <1>1, <1>3, <1>4, <1>5, <1>6

LEMMA RegionsKeepTables ==
  ASSUME RInv, Feeding("regions"), UNCHANGED <<file, tables>>, stage' \in {"regions", "done"}
  PROVE  TablesOfFile'
BY DEF RInv, TablesOfFile, Feeding, tables

\* The tables before the group table.
LEMMA TablesStutter ==
  ASSUME RInv, Header1 \/ Header2 \/ PartTable \/ RawTable
  PROVE  UNCHANGED Stream!vars /\ TablesOfFile' /\ BufferExact'
<1>1. /\ UNCHANGED <<file, delegate, regions, outputs>>
      /\ stage \notin {"regions", "done"} /\ stage' \notin {"regions", "done"}
  BY DEF Header1, Header2, PartTable, RawTable, Feeding, tables
<1>2. Position = <<0, 0>> /\ Position' = <<0, 0>>
  BY <1>1 DEF Position
<1>3. (stage' = "done") = (stage = "done")
  BY <1>1
<1>4. UNCHANGED Stream!vars
  BY <1>1, <1>2, <1>3, StreamStutters
<1>5. TablesOfFile'
  <2>1. CASE Header1
    BY <2>1 DEF RInv, TablesOfFile, Header1, Feeding, tables
  <2>2. CASE Header2
    BY <2>2 DEF RInv, TablesOfFile, Header2, Feeding, tables
  <2>3. CASE PartTable
    BY <2>3 DEF RInv, TablesOfFile, PartTable, Feeding
  <2>4. CASE RawTable
    BY <2>4 DEF RInv, TablesOfFile, RawTable, Feeding
  <2>. QED
    BY <2>1, <2>2, <2>3, <2>4
<1>6. BufferExact'
  BY <1>1 DEF BufferExact
<1>. QED
  BY <1>4, <1>5, <1>6

LEMMA GroupTableOpens ==
  ASSUME RInv, GroupTable
  PROVE  TablesOfFile' /\ BufferExact' /\ (WellFormed(file) => Stream!Next)
<1>1. file \in Containers /\ parts \in Seq(PartEntries) /\ rawEntries \in Seq(RawEntries)
  BY FilesAssumption DEF RInv, IInv, TypeOK
<1>2. /\ parts = file.parts /\ rawEntries = file.raws /\ groups' = file.groups
      /\ regions' \in Orders(parts, rawEntries) /\ EnterRegion(1)
      /\ file' = file /\ delegate' = delegate /\ outputs' = outputs
      /\ stage = "groupTable"
  BY DEF RInv, TablesOfFile, GroupTable, Feeding
<1>3. regions' \in Seq(RegionEntries)
  BY <1>1, <1>2, OrdersType DEF RegionEntries
<1>4. 1 \in 1 .. Len(regions') + 1
  BY <1>3, LenProperties
<1>5. /\ AllWellFormed(regions', file.groups) => Stream!IsFirstFrom(regions', 1, Position')
      /\ (stage' = "done") = (Position' = Stream!EndOf(regions'))
      /\ stage' \in {"regions", "done"} /\ BufferExact'
  BY <1>2, <1>3, <1>4, EnterRegionStreams
<1>6. WellFormed(file) => AllWellFormed(regions', file.groups)
  BY <1>1, <1>2, OrdersWellFormed
<1>7. Position = <<0, 0>>
  BY <1>2 DEF Position
<1>8. WellFormed(file) => Stream!Next
  BY <1>2, <1>5, <1>6, <1>7, OpenStep
<1>9. TablesOfFile'
  BY <1>2, <1>5, <1>6 DEF TablesOfFile
<1>. QED
  BY <1>5, <1>8, <1>9

\* A unit that is done is the stream's next output, whether the region goes
\* on or the next one follows.
LEMMA UnitProduced ==
  ASSUME RInv, Feeding("regions"), WellFormed(file),
         UNCHANGED <<file, delegate, tables, lastKey>>,
         outputs' = Append(outputs, Stream!OutputAt(regions, Position)),
         \/ /\ Unit + 1 < Stream!OutputsOf(Region)
            /\ Position' = <<regionIdx, Unit + 1>> /\ stage' = "regions"
         \/ /\ ~ (Unit + 1 < Stream!OutputsOf(Region))
            /\ EnterRegion(regionIdx + 1)
  PROVE  Stream!Next
<1>1. /\ Position \notin {<<0, 0>>, Stream!EndOf(regions)}
      /\ regionIdx \in 1 .. Len(regions) /\ Len(regions) \in Nat
      /\ regions \in Seq(RegionEntries)
      /\ file' = file /\ delegate' = delegate /\ regions' = regions
  BY PositionInRegions DEF tables
<1>2. CASE /\ Unit + 1 < Stream!OutputsOf(Region)
           /\ Position' = <<regionIdx, Unit + 1>> /\ stage' = "regions"
  <2>1. Stream!IsNext(regions, Position, Position')
    BY <1>2, NextUnit
  <2>2. ~ (stage' = "done")
    BY <1>2
  <2>3. regionIdx # Len(regions) + 1
    BY <1>1
  <2>4. Position' # Stream!EndOf(regions)
    BY <1>2, <2>3 DEF Stream!EndOf
  <2>. QED
    BY <1>1, <2>1, <2>2, <2>4, ProduceStep
<1>3. CASE /\ ~ (Unit + 1 < Stream!OutputsOf(Region))
           /\ EnterRegion(regionIdx + 1)
  <2>1. regionIdx + 1 \in 1 .. Len(regions') + 1 /\ regions' \in Seq(RegionEntries)
    BY <1>1
  <2>2. AllWellFormed(regions', groups)
    BY <1>1, RegionsWellFormed
  <2>3. /\ AllWellFormed(regions', groups)
             => Stream!IsFirstFrom(regions', regionIdx + 1, Position')
        /\ (stage' = "done") = (Position' = Stream!EndOf(regions'))
    BY <1>3, <2>1, EnterRegionStreams
  <2>4. Stream!IsFirstFrom(regions, regionIdx + 1, Position')
    BY <1>1, <2>2, <2>3
  <2>5. Stream!IsNext(regions, Position, Position')
    BY <1>3, <2>4, NextUnit
  <2>. QED
    BY <1>1, <2>3, <2>5, ProduceStep
<1>. QED
  BY <1>2, <1>3

LEMMA LeaveRegionRuns ==
  ASSUME RInv, Feeding("regions"), UNCHANGED <<file, tables>>, EnterRegion(regionIdx + 1)
  PROVE  TablesOfFile' /\ BufferExact'
<1>1. /\ regionIdx \in 1 .. Len(regions) /\ Len(regions) \in Nat
      /\ regions \in Seq(RegionEntries) /\ regions' = regions
  BY PositionInRegions DEF tables
<1>2. regionIdx + 1 \in 1 .. Len(regions') + 1 /\ regions' \in Seq(RegionEntries)
  BY <1>1
<1>3. stage' \in {"regions", "done"} /\ BufferExact'
  BY <1>2, EnterRegionStreams
<1>. QED
  BY <1>3, RegionsKeepTables

-----------------------------------------------------------------------------
LEMMA RawGroupStreams ==
  ASSUME RInv, RawGroup
  PROVE  /\ TablesOfFile' /\ BufferExact'
         /\ WellFormed(file) => Stream!Next
<1> DEFINE out == RawOutput(Region, rawI, Delivered(CurrentGroup, 0))
<1>1. /\ Feeding("regions") /\ ~ part.on
      /\ UNCHANGED <<file, delegate, tables, lastKey>>
      /\ outputs' = Append(outputs, out)
  BY DEF RawGroup
<1>2. /\ Region.kind # "part" /\ Region.ng \in Nat /\ rawI \in Nat
      /\ CurrentGroup = Region.gi + rawI /\ Unit = rawI /\ request.g = CurrentGroup
      /\ groups = file.groups
  BY <1>1, CurrentTypes, FeedTypes, RegionsWellFormed DEF RInv, CurrentGroup, Unit
<1>3. /\ Position = <<regionIdx, rawI>> /\ stage = "regions" /\ regions' = regions
  BY <1>1, <1>2, PositionInRegions DEF tables
<1>4. out = Stream!OutputAt(regions, Position)
  <2>1. out = RawOutput(Region, rawI, Source(file.groups, Region.gi + rawI, 0))
    BY <1>2 DEF Delivered, Payload, Source
  <2>2. Stream!OutputAt(regions, Position)
          = Stream!RawOutput(Region, rawI, Stream!Source(file.groups, Region.gi + rawI, 0))
    BY <1>2, <1>3 DEF Stream!OutputAt, Region
  <2>. QED
    BY <2>1, <2>2, StreamOutputs
<1>5. Stream!OutputsOf(Region) = Region.ng
  BY <1>2, StreamOutputs
<1>6. \/ /\ rawI + 1 < Region.ng
         /\ rawI' = rawI + 1
         /\ UNCHANGED <<stage, regionIdx, part>>
      \/ /\ rawI + 1 >= Region.ng
         /\ EnterRegion(regionIdx + 1)
  BY DEF RawGroup
<1> HIDE DEF out
<1>7. CASE /\ rawI + 1 < Region.ng
           /\ rawI' = rawI + 1
           /\ UNCHANGED <<stage, regionIdx, part>>
  <2>1. stage' = "regions" /\ ~ part'.on
    BY <1>1, <1>3, <1>7
  <2>2. TablesOfFile' /\ BufferExact'
    BY <1>1, <2>1, RegionsKeepTables DEF BufferExact
  <2>3. Position' = <<regionIdx, Unit + 1>>
    BY <1>2, <1>7, <2>1 DEF Position
  <2>4. Unit + 1 < Stream!OutputsOf(Region)
    BY <1>2, <1>5, <1>7
  <2>. QED
    BY <1>1, <1>4, <2>1, <2>2, <2>3, <2>4, UnitProduced
<1>8. CASE /\ rawI + 1 >= Region.ng
           /\ EnterRegion(regionIdx + 1)
  <2>1. TablesOfFile' /\ BufferExact'
    BY <1>1, <1>8, LeaveRegionRuns
  <2>2. ~ (Unit + 1 < Stream!OutputsOf(Region))
    BY <1>2, <1>5, <1>8
  <2>. QED
    BY <1>1, <1>4, <1>8, <2>1, <2>2, UnitProduced
<1>. QED
  BY <1>6, <1>7, <1>8

-----------------------------------------------------------------------------
\* The hash group at the cursor once the next chunk is in.
LEMMA ChunkStreams ==
  ASSUME RInv, Feeding("regions"), part.on, WellFormed(file), ChunksFillGroups,
         NEW qs, qs = Filled(part, groups[CurrentGroup + 1], request.g,
                             Expected(Region.ns, part.i, ChunkBlocks))
  PROVE  /\ Exact(qs, Region, groups) /\ GroupLength(qs) > 0
         /\ Unit = qs.groupStart \div GroupBlocks
         /\ ~ GroupComplete(qs, Region) => Open(qs)
         /\ GroupComplete(qs, Region) =>
              GroupOutput(qs, Region, OutputKey) = Stream!OutputAt(regions, Position)
         /\ GroupComplete(qs, Region) /\ qs.i < Region.ng =>
              /\ qs.blockIndex = (Unit + 1) * GroupBlocks
              /\ Unit + 1 < Stream!OutputsOf(Region)
         /\ qs.i >= Region.ng => ~ (Unit + 1 < Stream!OutputsOf(Region))
<1>1. /\ Region \in PartEntries /\ Region.kind = "part" /\ part \in PartStates
      /\ CurrentGroup \in Nat /\ CurrentGroup = Region.gi + part.i /\ request.g = CurrentGroup
      /\ Unit = part.groupStart \div GroupBlocks /\ Region.ns \in Nat /\ Region.ng \in Nat
      /\ part.i \in Nat /\ part.i < Region.ng
  <2>1. Region.kind = "part" /\ part \in PartStates
    BY RegionsWellFormed, FeedTypes DEF RInv
  <2>2. Region \in PartEntries
    BY <2>1, CurrentTypes DEF RInv, RegionEntries, RawEntries
  <2>3. part.i \in Nat /\ Region.ns \in Nat /\ Region.ng \in Nat
    BY <2>1, <2>2, PartTypes DEF PartEntries
  <2>. QED
    BY <2>1, <2>2, <2>3, RegionsWellFormed, CurrentTypes DEF RInv, CurrentGroup, Unit
<1>2. /\ WellFormedEntry(Region, groups) /\ groups = file.groups
      /\ Region.ng = CeilDiv(Region.ns, ChunkBlocks)
  BY <1>1, RegionsWellFormed DEF WellFormedEntry
<1>3. Exact(part, Region, groups) /\ Open(part)
  BY DEF RInv, BufferExact, Feeding
<1>4. /\ Exact(qs, Region, groups) /\ qs.groupStart = part.groupStart
      /\ part.blockIndex < qs.blockIndex /\ qs.blockIndex <= qs.groupStart + GroupBlocks
  BY <1>1, <1>2, <1>3, FilledExact
<1>5. qs \in PartStates /\ qs.i = part.i + 1
  <2>1. ChunkBlocks \in Nat \ {0} /\ Expected(Region.ns, part.i, ChunkBlocks) \in 0 .. ChunkBlocks
    BY <1>1, FormatAssumption, ExpectedRange
  <2>2. Expected(Region.ns, part.i, ChunkBlocks) \in Nat
    BY <2>1
  <2>. QED
    BY <1>1, <2>2, FilledType
<1>6. qs.groupStart < qs.blockIndex /\ qs.i <= Region.ng
  <2>1. part.groupStart <= part.blockIndex /\ part.groupStart \in Nat
          /\ part.blockIndex \in Nat /\ qs.blockIndex \in Nat
    BY <1>1, <1>3, <1>5, PartTypes DEF Exact
  <2>. QED
    BY <1>1, <1>4, <1>5, <2>1
<1>7. PICK k \in Nat : k = qs.groupStart \div GroupBlocks
  BY <1>1, <1>2, <1>4, <1>5, <1>6, GroupAfterChunk
<1>8. k \in Nat /\ k = Unit
  BY <1>1, <1>4, <1>7
<1>9. /\ qs.groupStart = k * GroupBlocks
      /\ GroupLength(qs) = qs.blockIndex - qs.groupStart
      /\ ~ GroupComplete(qs, Region) => Open(qs)
      /\ GroupComplete(qs, Region) =>
           GroupLength(qs) = Lesser(GroupBlocks, Region.ns - qs.groupStart)
      /\ GroupComplete(qs, Region) /\ qs.i < Region.ng =>
           /\ qs.blockIndex = (k + 1) * GroupBlocks
           /\ k + 1 < CeilDiv(Region.ns, GroupBlocks)
      /\ qs.i >= Region.ng => ~ (k + 1 < CeilDiv(Region.ns, GroupBlocks))
  BY <1>1, <1>2, <1>4, <1>5, <1>6, <1>7, GroupAfterChunk
<1>10. Stream!OutputsOf(Region) = CeilDiv(Region.ns, GroupBlocks)
  BY <1>1, StreamOutputs
<1>11. GroupLength(qs) > 0
  <2>1. qs.groupStart \in Nat /\ qs.blockIndex \in Nat
    BY <1>5, PartTypes
  <2>. QED
    BY <1>6, <1>9, <2>1
<1>12. ASSUME GroupComplete(qs, Region)
       PROVE  GroupOutput(qs, Region, OutputKey) = Stream!OutputAt(regions, Position)
  <2>1. GroupOutput(qs, Region, OutputKey) = GroupRecord(Region, k, groups, OutputKey)
    BY <1>1, <1>4, <1>5, <1>6, <1>8, <1>9, <1>12, OutputIsRecord
  <2>2. Position = <<regionIdx, k>>
    BY <1>8, PositionInRegions
  <2>3. Stream!OutputAt(regions, Position) = Stream!PartOutput(Region, k)
    BY <1>1, <2>2 DEF Stream!OutputAt, Region
  <2>. QED
    BY <1>2, <2>1, <2>3, StreamOutputs DEF OutputKey
<1>. QED
  BY <1>4, <1>7, <1>8, <1>9, <1>10, <1>11, <1>12

LEMMA PartGroupStreams ==
  ASSUME RInv, PartGroup
  PROVE  /\ TablesOfFile'
         /\ stage' = "done" => ~ part'.on
         /\ WellFormed(file) /\ ChunksFillGroups =>
              BufferExact' /\ (Stream!Next \/ UNCHANGED Stream!vars)
<1> DEFINE n  == Expected(Region.ns, part.i, ChunkBlocks)
           ps == Filled(part, groups[CurrentGroup + 1], request.g, n)
           out == GroupOutput(ps, Region, OutputKey)
<1>1. /\ Feeding("regions") /\ part.on /\ stage = "regions"
      /\ UNCHANGED <<file, delegate, tables, lastKey>>
      /\ file' = file /\ delegate' = delegate /\ groups' = groups /\ regions' = regions
  BY DEF PartGroup, Feeding, tables
<1>2. /\ ps \in PartStates /\ ps.on /\ ps.i = part.i + 1 /\ ps.i \in Nat /\ part.i \in Nat
      /\ Cleared(ps) \in PartStates /\ Cleared(ps).on /\ Cleared(ps).i = ps.i
      /\ Region.ng \in Nat /\ part.i < Region.ng /\ Finalizable(ps)
  <2>1. Region.kind = "part" /\ part \in PartStates /\ request.g \in Nat /\ Gapless(part)
    BY <1>1, RegionsWellFormed, CurrentTypes, FeedTypes DEF RInv, BufferGapless
  <2>2. Region \in PartEntries
    BY <1>1, <2>1, CurrentTypes DEF RInv, RegionEntries, RawEntries
  <2>3. part.i \in Nat /\ Region.ns \in Nat /\ Region.ng \in Nat
    BY <2>1, <2>2, PartTypes DEF PartEntries
  <2>4. n \in 0 .. ChunkBlocks
    BY <2>3, FormatAssumption, ExpectedRange
  <2>5. n \in Nat
    BY <2>4, FormatAssumption
  <2>6. ps \in PartStates /\ ps.on = part.on /\ ps.i = part.i + 1
    BY <2>1, <2>5, FilledType
  <2>7. Cleared(ps) \in PartStates /\ Cleared(ps).on = ps.on /\ Cleared(ps).i = ps.i
    BY <2>6, ClearedType
  <2>8. Finalizable(ps)
    <3>1. Gapless(ps)
      BY <2>1, <2>5, FilledGapless
    <3>. QED
      BY <2>6, <3>1, GaplessFinalizable
  <2>9. part.i < Region.ng
    BY <1>1, RegionsWellFormed
  <2>. QED
    BY <1>1, <2>3, <2>6, <2>7, <2>8, <2>9
<1>3. WellFormed(file) /\ ChunksFillGroups =>
         /\ Exact(ps, Region, groups) /\ GroupLength(ps) > 0
         /\ Unit = ps.groupStart \div GroupBlocks
         /\ ~ GroupComplete(ps, Region) => Open(ps)
         /\ GroupComplete(ps, Region) => out = Stream!OutputAt(regions, Position)
         /\ GroupComplete(ps, Region) /\ ps.i < Region.ng =>
              /\ ps.blockIndex = (Unit + 1) * GroupBlocks
              /\ Unit + 1 < Stream!OutputsOf(Region)
         /\ ps.i >= Region.ng => ~ (Unit + 1 < Stream!OutputsOf(Region))
  BY <1>1, ChunkStreams
<1>4. Position = <<regionIdx, Unit>> /\ Unit \in Nat
  BY <1>1, PositionInRegions
<1>5. \/ ~ GroupComplete(ps, Region) /\ Continue(ps) /\ outputs' = outputs
      \/ /\ GroupComplete(ps, Region) /\ Continue(Cleared(ps))
         /\ \/ ~ (GroupLength(ps) > 0)
            \/ outputs' = Append(outputs, out)
      \/ ~ Finalizable(ps)
  <2>1. GroupLength(ps) = 0 => ~ (GroupLength(ps) > 0)
    OBVIOUS
  <2>. QED
    BY <2>1 DEF PartGroup
<1>6. ps.i = Region.ng => GroupComplete(ps, Region)
  BY DEF GroupComplete
<1> HIDE DEF n, ps, out
\* going on in the region, with the buffers qs
<1>7. ASSUME NEW qs, qs.on, qs.i = ps.i, Continue(qs), ps.i < Region.ng
      PROVE  /\ TablesOfFile' /\ stage' = "regions" /\ part' = qs /\ Region' = Region
             /\ Position' = <<regionIdx, qs.groupStart \div GroupBlocks>>
             /\ Exact(qs, Region, groups) /\ Open(qs) => BufferExact'
  <2>1. part' = qs /\ UNCHANGED <<stage, regionIdx, rawI>>
    BY <1>2, <1>7 DEF Continue
  <2>2. stage' = "regions" /\ Region' = Region /\ part'.on
    BY <1>1, <1>7, <2>1 DEF Region
  <2>3. TablesOfFile'
    BY <1>1, <2>2, RegionsKeepTables
  <2>4. Position' = <<regionIdx, qs.groupStart \div GroupBlocks>>
    BY <1>7, <2>1, <2>2 DEF Position
  <2>5. Exact(qs, Region, groups) /\ Open(qs) => BufferExact'
    BY <1>1, <2>1, <2>2 DEF BufferExact, Open
  <2>. QED
    BY <2>1, <2>2, <2>3, <2>4, <2>5
<1>8. CASE ps.i < Region.ng /\ ~ GroupComplete(ps, Region)
  <2>1. Continue(ps) /\ outputs' = outputs
    BY <1>2, <1>5, <1>8
  <2>2. /\ TablesOfFile' /\ stage' = "regions" /\ part' = ps
        /\ Position' = <<regionIdx, ps.groupStart \div GroupBlocks>>
        /\ Exact(ps, Region, groups) /\ Open(ps) => BufferExact'
    BY <1>2, <1>7, <1>8, <2>1
  <2>3. ASSUME WellFormed(file), ChunksFillGroups
        PROVE  BufferExact' /\ UNCHANGED Stream!vars
    <3>1. Position' = Position /\ BufferExact'
      BY <1>3, <1>4, <1>8, <2>2, <2>3
    <3>2. (stage' = "done") = (stage = "done")
      BY <1>1, <2>2
    <3>. QED
      BY <1>1, <2>1, <3>1, <3>2, StreamStutters
  <2>. QED
    BY <2>2, <2>3
<1>9. CASE ps.i < Region.ng /\ GroupComplete(ps, Region)
  <2>1. Continue(Cleared(ps))
    BY <1>2, <1>5, <1>9
  <2>2. /\ TablesOfFile' /\ stage' = "regions" /\ part' = Cleared(ps)
        /\ Position' = <<regionIdx, Cleared(ps).groupStart \div GroupBlocks>>
        /\ Exact(Cleared(ps), Region, groups) /\ Open(Cleared(ps)) => BufferExact'
    BY <1>2, <1>7, <1>9, <2>1
  <2>3. ASSUME WellFormed(file), ChunksFillGroups
        PROVE  BufferExact' /\ Stream!Next
    <3>1. outputs' = Append(outputs, Stream!OutputAt(regions, Position))
      BY <1>2, <1>3, <1>5, <1>9, <2>3
    <3>2. Unit + 1 \in Nat /\ ps.blockIndex = (Unit + 1) * GroupBlocks
            /\ Unit + 1 < Stream!OutputsOf(Region)
      BY <1>3, <1>4, <1>9, <2>3
    <3>3. PICK k \in Nat : k = Unit + 1
      BY <3>2
    <3>4. ps.blockIndex = k * GroupBlocks /\ k \in Nat
      BY <3>2, <3>3
    <3>5. /\ Exact(Cleared(ps), Region, groups) /\ Open(Cleared(ps))
          /\ Cleared(ps).groupStart = ps.blockIndex /\ ps.blockIndex \div GroupBlocks = k
      <4>1. ps \in PartStates /\ Region \in PartEntries /\ Exact(ps, Region, groups)
        <5>1. Region.kind = "part"
          BY <1>1, RegionsWellFormed
        <5>. QED
          BY <1>1, <1>2, <1>3, <2>3, <5>1, CurrentTypes DEF RInv, RegionEntries, RawEntries
      <4>. QED
        BY <3>4, <4>1, ClearedExact
    <3>6. Position' = <<regionIdx, Unit + 1>>
      BY <2>2, <3>3, <3>5
    <3>. QED
      BY <1>1, <2>2, <2>3, <3>1, <3>2, <3>5, <3>6, UnitProduced
  <2>. QED
    BY <2>2, <2>3
<1>10. CASE ~ (ps.i < Region.ng)
  <2>1. ps.i = Region.ng /\ ps.i >= Region.ng /\ GroupComplete(ps, Region)
    BY <1>2, <1>6, <1>10
  <2>2. EnterRegion(regionIdx + 1)
    BY <1>2, <1>5, <1>10, <2>1 DEF Continue
  <2>3. TablesOfFile' /\ BufferExact'
    BY <1>1, <2>2, LeaveRegionRuns
  <2>4. ASSUME WellFormed(file), ChunksFillGroups PROVE Stream!Next
    <3>1. outputs' = Append(outputs, Stream!OutputAt(regions, Position))
      BY <1>2, <1>3, <1>5, <2>1, <2>4
    <3>2. ~ (Unit + 1 < Stream!OutputsOf(Region))
      BY <1>3, <2>1, <2>4
    <3>. QED
      BY <1>1, <2>2, <2>4, <3>1, <3>2, UnitProduced
  <2>. QED
    BY <2>3, <2>4 DEF BufferExact
<1>. QED
  BY <1>8, <1>9, <1>10

-----------------------------------------------------------------------------
\* A refusal changes nothing in the stream, taking an output is its own step.
LEMMA ClientStreams ==
  ASSUME RInv, Refused \/ TakeOutput \/ UNCHANGED vars
  PROVE  /\ TablesOfFile' /\ BufferExact'
         /\ Stream!Next \/ UNCHANGED Stream!vars
<1>1. UNCHANGED <<file, delegate, stage, parts, rawEntries, groups, regions, regionIdx,
                  rawI, part>>
  BY DEF Refused, TakeOutput, vars, tables, cursor
<1>2. Position' = Position /\ Region' = Region /\ (stage' = "done") = (stage = "done")
  BY <1>1 DEF Position, Region
<1>3. TablesOfFile'
  BY <1>1 DEF RInv, TablesOfFile
<1>4. BufferExact'
  BY <1>1, <1>2 DEF RInv, BufferExact, Open
<1>5. \/ outputs' = outputs
      \/ outputs # <<>> /\ outputs' = Tail(outputs)
  BY DEF Refused, TakeOutput, vars
<1>6. CASE outputs' = outputs
  BY <1>1, <1>2, <1>3, <1>4, <1>6, StreamStutters
<1>7. CASE outputs # <<>> /\ outputs' = Tail(outputs)
  BY <1>1, <1>2, <1>3, <1>4, <1>7, TakeStep
<1>. QED
  BY <1>5, <1>6, <1>7

\* Every step of the decoder is a step of the stream or changes nothing in it.
LEMMA StepStreams ==
  ASSUME RInv, [Next]_vars
  PROVE  /\ RInv'
         /\ WellFormed(file) /\ ChunksFillGroups => Stream!Next \/ UNCHANGED Stream!vars
<1>1. IInv'
  BY NextKeepsIInv DEF RInv
<1>2. CASE Header1 \/ Header2 \/ PartTable \/ RawTable
  BY <1>1, <1>2, TablesStutter DEF RInv
<1>3. CASE GroupTable
  BY <1>1, <1>3, GroupTableOpens DEF RInv
<1>4. CASE RawGroup
  BY <1>1, <1>4, RawGroupStreams DEF RInv
<1>5. CASE PartGroup
  <2>1. file' = file /\ (stage' = "done" => ~ part'.on)
    BY <1>5, PartGroupStreams DEF PartGroup
  <2>2. ~ (WellFormed(file) /\ ChunksFillGroups) => BufferExact'
    BY <2>1 DEF BufferExact
  <2>. QED
    BY <1>1, <1>5, <2>2, PartGroupStreams DEF RInv
<1>6. CASE Refused \/ TakeOutput \/ UNCHANGED vars
  BY <1>1, <1>6, ClientStreams DEF RInv
<1>. QED
  BY <1>2, <1>3, <1>4, <1>5, <1>6 DEF Next, Feed

LEMMA InitRInv ==
  ASSUME Init
  PROVE  RInv /\ Stream!Init
<1>1. /\ file \in Files /\ delegate \in BOOLEAN /\ regions = <<>> /\ outputs = <<>>
      /\ stage = "header1" /\ parts = <<>>
  BY DEF Init
<1>2. RInv
  BY <1>1, InitIInv DEF RInv, TablesOfFile, BufferExact
<1>3. Position = <<0, 0>> /\ (stage = "done") = FALSE
  BY <1>1 DEF Position
<1>4. Stream!Init
  BY <1>1, <1>3 DEF Stream!Init, Stream!Start, Position
<1>. QED
  BY <1>2, <1>4

(* The push decoder implements the stream: for a well-formed container its *)
(* outputs are the disc's, in order and each once, however feeds, refusals *)
(* and takes interleave, for all containers whose hash groups are whole    *)
(* numbers of chunks, encrypting or not.                                   *)
THEOREM PushImplementsStream ==
  ASSUME ChunksFillGroups
  PROVE  Spec => StreamSpec
<1>1. Init => RInv /\ Stream!Init
  BY InitRInv
<1>2. RInv /\ [Next]_vars =>
        RInv' /\ [WellFormed(file) => Stream!Next]_(Stream!vars)
  BY StepStreams
<1>. QED
  BY <1>1, <1>2, PTL DEF Spec, StreamSpec

(* The buffers hold the open hash group and nothing of the one before it,  *)
(* when all containers are well-formed.                                    *)
THEOREM BuffersHoldOpenGroup ==
  ASSUME ChunksFillGroups, \A f \in Files : WellFormed(f)
  PROVE  Spec => []BufferHoldsOpenGroup
<1>1. Init => RInv
  BY InitRInv
<1>2. RInv /\ [Next]_vars => RInv'
  BY StepStreams
<1>3. RInv => BufferHoldsOpenGroup
  <2>. SUFFICES ASSUME RInv, part.on PROVE BufferHoldsOpenGroup
    BY DEF BufferHoldsOpenGroup
  <2>1. stage = "regions" /\ WellFormed(file)
    BY DEF RInv, IInv, TypeOK, CursorInRegions, BufferExact
  <2>2. Exact(part, Region, groups)
    BY <2>1 DEF RInv, BufferExact
  <2>. QED
    BY <2>2 DEF Exact, SlotExact, BufferHoldsOpenGroup
<1>. QED
  BY <1>1, <1>2, <1>3, PTL DEF Spec
=============================================================================
