---------------------------- MODULE PullDecoder ----------------------------
(***************************************************************************)
(* The pull decoder (decompress_rvz, crates/rvz/src/decoder.rs): it reads  *)
(* the container through ReadAt, one group at a time, and hands each       *)
(* output to the caller's write closure.  Any read may fail.               *)
(***************************************************************************)
EXTENDS HashGroup

CONSTANT Files      \* containers that may be decoded

ASSUME FilesAssumption == Files \subseteq Containers

VARIABLES
  file,       \* the container
  pc,         \* what decompress_rvz is reading
  parts,      \* header.parts
  rawEntries, \* raw_entries
  groups,     \* groups
  regions,    \* regions, sorted
  regionIdx,  \* the region of the loop, from 1
  i,          \* group of a raw region the loop is at
  part,       \* buffers of decompress_partition; its loop counter is part.i
  writes,     \* the calls of write, in order
  result      \* "" while running, "ok", or the error returned

vars == <<file, pc, parts, rawEntries, groups, regions, regionIdx, i, part,
          writes, result>>
loop == <<regionIdx, i, part>>

Init ==
  /\ file \in Files
  /\ pc = "header"
  /\ parts = <<>> /\ rawEntries = <<>> /\ groups = <<>> /\ regions = <<>>
  /\ regionIdx = 1 /\ i = 0 /\ part = NoPart
  /\ writes = <<>> /\ result = ""

Region == regions[regionIdx]
CurrentGroup == Region.gi + IF part.on THEN part.i ELSE i

\* The loop over the regions goes on at the first one with groups, or ends.
EnterRegion(r) ==
  \E q \in r .. Len(regions') + 1 :
    /\ IsNextBusy(regions', r, q)
    /\ regionIdx' = q
    /\ i' = 0
    /\ \/ /\ q > Len(regions')
          /\ pc' = "end"
          /\ part' = NoPart
          /\ result' = "ok"
       \/ /\ q <= Len(regions')
          /\ pc' = "regions"
          /\ part' = IF regions'[q].kind = "part" THEN PartStart ELSE NoPart
          /\ result' = result

Fails(error) ==
  /\ pc' = "end"
  /\ result' = error
  /\ UNCHANGED <<file, parts, rawEntries, groups, regions, loop, writes>>

-----------------------------------------------------------------------------
ReadHeader ==
  /\ pc = "header"
  /\ parts' = file.parts
  /\ pc' = "rawTable"
  /\ UNCHANGED <<file, rawEntries, groups, regions, loop, writes, result>>

ReadRawTable ==
  /\ pc = "rawTable"
  /\ rawEntries' = file.raws
  /\ pc' = "groupTable"
  /\ UNCHANGED <<file, parts, groups, regions, loop, writes, result>>

ReadGroupTable ==
  /\ pc = "groupTable"
  /\ groups' = file.groups
  /\ regions' \in Orders(parts, rawEntries)
  /\ EnterRegion(1)
  /\ UNCHANGED <<file, parts, rawEntries, writes>>

\* The checks that decompress_raw and decompress_partition make before they
\* decode a group, in their order: the size comes first for a raw region, the
\* group table for a partition.  One group too many is noticed when nothing
\* is left of the region, not when the u64 difference has wrapped.
RefusalIf(mismatch) ==
  LET missing == CurrentGroup >= Len(groups)
  IN  IF missing /\ (part.on \/ ~ mismatch) THEN "MissingGroup"
      ELSE IF mismatch THEN "SizeMismatch"
      ELSE IF ~ groups[CurrentGroup + 1].zero /\ groups[CurrentGroup + 1].bad
        THEN "BadRecord"
      ELSE ""

\* Seeded bug: a full unit refused with the overlong ones.
RefusalOfFull(n, unit) == RefusalIf(n = 0 \/ n >= unit)
Refusal(n, unit) == RefusalIf(n = 0 \/ n > unit)

RawGroup ==
  LET n == Expected(LogicalSize(Region), i, Chunk)
  IN  /\ pc = "regions"
      /\ ~ part.on
      /\ \/ /\ Refusal(n, Chunk) # ""
            /\ Fails(Refusal(n, Chunk))
         \/ /\ Refusal(n, Chunk) = ""
            /\ UNCHANGED <<file, parts, rawEntries, groups, regions>>
            /\ writes' = Append(writes, RawOutput(Region, i,
                 Payload(groups[CurrentGroup + 1], CurrentGroup, 0)))
            /\ \/ /\ i + 1 < Region.ng
                  /\ i' = i + 1
                  /\ UNCHANGED <<pc, regionIdx, part, result>>
               \/ /\ i + 1 >= Region.ng
                  /\ EnterRegion(regionIdx + 1)

PartGroup ==
  LET n  == Expected(Region.ns, part.i, ChunkBlocks)
      ps == Filled(part, groups[CurrentGroup + 1], CurrentGroup, n)
      next == IF GroupComplete(ps, Region) THEN Cleared(ps) ELSE ps
  IN  /\ pc = "regions"
      /\ part.on
      /\ \/ /\ Refusal(n, ChunkBlocks) # ""
            /\ Fails(Refusal(n, ChunkBlocks))
         \/ /\ Refusal(n, ChunkBlocks) = ""
            /\ GroupComplete(ps, Region) /\ GroupLength(ps) > 0 /\ ~ Finalizable(ps)
            /\ Fails("MissingGroup")
         \/ /\ Refusal(n, ChunkBlocks) = ""
            /\ UNCHANGED <<file, parts, rawEntries, groups, regions>>
            /\ \/ /\ GroupComplete(ps, Region) /\ GroupLength(ps) > 0 /\ Finalizable(ps)
                  /\ writes' = Append(writes, GroupOutput(ps, Region, NoKey))
               \/ /\ ~ (GroupComplete(ps, Region) /\ GroupLength(ps) > 0)
                  /\ writes' = writes
            /\ \/ /\ ps.i < Region.ng
                  /\ part' = next
                  /\ UNCHANGED <<pc, regionIdx, i, result>>
               \/ /\ ps.i >= Region.ng
                  /\ EnterRegion(regionIdx + 1)

\* read_at returns an error, or bytes that a header or table check refuses.
ReadFails ==
  /\ pc # "end"
  /\ pc = "regions" => /\ CurrentGroup < Len(groups)
                       /\ ~ groups[CurrentGroup + 1].zero
  /\ Fails("BadHeader")

Next == \/ ReadHeader \/ ReadRawTable \/ ReadGroupTable
        \/ RawGroup \/ PartGroup
        \/ ReadFails

Spec == Init /\ [][Next]_vars
=============================================================================
