---------------------------- MODULE PushDecoder ----------------------------
(***************************************************************************)
(* The push decoder (crates/rvz/src/push.rs): it names the bytes it wants  *)
(* (`request'), its caller feeds them, outputs wait in a queue until the   *)
(* caller takes them.  A feed delivers what the request in force names, or *)
(* bytes that decoding refuses; the caller may feed again after a refusal. *)
(***************************************************************************)
EXTENDS HashGroup

CONSTANT Files      \* containers that may be decoded

ASSUME FilesAssumption == Files \subseteq Containers

VARIABLES
  file,        \* the container behind the requests
  delegate,    \* delegate_aes: the caller encrypts
  stage,       \* Stage
  request,     \* the bytes asked for; at = "none" once done
  parts,       \* header.parts, data entries of the partition table
  rawEntries,  \* raw_entries
  groups,      \* groups
  regions,     \* regions in decoding order
  regionIdx,   \* region_idx + 1
  rawI,        \* raw_i
  part,        \* PartState of the region, on = FALSE for None
  outputs,     \* outputs, oldest first
  lastKey,     \* last_key
  error        \* error, sticky; "panic" when an index left its vector

tables == <<parts, rawEntries, groups, regions>>
cursor == <<regionIdx, rawI, part>>
vars == <<file, delegate, stage, request, tables, cursor, outputs, lastKey, error>>

Stages ==
  {"header1", "header2", "partTable", "rawTable", "groupTable", "regions", "done"}
Requests ==
  [at : {"header1", "header2", "partTable", "rawTable", "groupTable", "none"}, g : {0}]
    \cup [at : {"group"}, g : Nat]
At(what) == [at |-> what, g |-> 0]
AtGroup(g) == [at |-> "group", g |-> g]

Init ==
  /\ file \in Files
  /\ delegate \in BOOLEAN
  /\ stage = "header1"
  /\ request = At("header1")
  /\ parts = <<>> /\ rawEntries = <<>> /\ groups = <<>> /\ regions = <<>>
  /\ regionIdx = 1 /\ rawI = 0 /\ part = NoPart
  /\ outputs = <<>> /\ lastKey = NoKey /\ error = ""

-----------------------------------------------------------------------------
(* Naming the next group.                                                  *)

Region == regions[regionIdx]

\* self.groups[g]: asks for the group, or panics past the end of the table.
RequestGroup(g) ==
  \/ /\ g < Len(groups')
     /\ request' = AtGroup(g)
     /\ error' = error
  \/ /\ g >= Len(groups')
     /\ request' = request
     /\ error' = "panic"

Enter(q, i) ==
  /\ regionIdx' = q
  /\ rawI' = i
  /\ \/ /\ q > Len(regions')
        /\ stage' = "done"
        /\ part' = NoPart
        /\ request' = At("none")
        /\ error' = error
     \/ /\ q <= Len(regions')
        /\ stage' = "regions"
        /\ part' = IF regions'[q].kind = "part" THEN PartStart ELSE NoPart
        /\ RequestGroup(regions'[q].gi)

\* Seeded bug: next_region that forgets to reset raw_i.
EnterRegionKeepingRawI(r) ==
  \E q \in r .. Len(regions') + 1 :
    IsNextBusy(regions', r, q) /\ Enter(q, IF part.on THEN rawI ELSE rawI + 1)

EnterRegion(r) ==
  \E q \in r .. Len(regions') + 1 : IsNextBusy(regions', r, q) /\ Enter(q, 0)

-----------------------------------------------------------------------------
(* Feeding the headers and the tables.                                     *)

Feeding(s) == stage = s /\ error # "panic"

Header1 ==
  /\ Feeding("header1")
  /\ stage' = "header2"
  /\ request' = At("header2")
  /\ UNCHANGED <<file, delegate, tables, cursor, outputs, lastKey, error>>

Header2 ==
  /\ Feeding("header2")
  /\ stage' = IF file.parts # <<>> THEN "partTable" ELSE "rawTable"
  /\ request' = At(stage')
  /\ UNCHANGED <<file, delegate, tables, cursor, outputs, lastKey, error>>

PartTable ==
  /\ Feeding("partTable")
  /\ parts' = file.parts
  /\ stage' = "rawTable"
  /\ request' = At("rawTable")
  /\ UNCHANGED <<file, delegate, rawEntries, groups, regions, cursor,
                 outputs, lastKey, error>>

RawTable ==
  /\ Feeding("rawTable")
  /\ rawEntries' = file.raws
  /\ stage' = "groupTable"
  /\ request' = At("groupTable")
  /\ UNCHANGED <<file, delegate, parts, groups, regions, cursor,
                 outputs, lastKey, error>>

GroupTable ==
  /\ Feeding("groupTable")
  /\ groups' = file.groups
  /\ regions' \in Orders(parts, rawEntries)
  /\ EnterRegion(1)
  /\ UNCHANGED <<file, delegate, parts, rawEntries, outputs, lastKey>>

-----------------------------------------------------------------------------
(* Feeding a group of a raw region.                                        *)

CurrentGroup == Region.gi + IF part.on THEN part.i ELSE rawI

\* The caller delivers what the request names; it is decoded by what the
\* table says of the group g at the cursor.
Decodes(g) == groups[g + 1].zero \/ ~ groups[request.g + 1].bad
Delivered(g, b) == Payload(groups[g + 1], request.g, b)

RawGroup ==
  LET g == CurrentGroup
  IN  /\ Feeding("regions")
      /\ ~ part.on
      /\ Decodes(g)
      /\ UNCHANGED <<file, delegate, tables, lastKey>>
      /\ outputs' = Append(outputs, RawOutput(Region, rawI, Delivered(g, 0)))
      /\ \/ /\ rawI + 1 < Region.ng
            /\ rawI' = rawI + 1
            /\ RequestGroup(g + 1)
            /\ UNCHANGED <<stage, regionIdx, part>>
         \/ /\ rawI + 1 >= Region.ng
            /\ EnterRegion(regionIdx + 1)

-----------------------------------------------------------------------------
(* Feeding a group of a partition region.                                  *)

\* issue_part_request for the state ps.
Continue(ps) ==
  \/ /\ ps.i < Region.ng
     /\ part' = ps
     /\ RequestGroup(Region.gi + ps.i)
     /\ UNCHANGED <<stage, regionIdx, rawI>>
  \/ /\ ps.i >= Region.ng
     /\ EnterRegion(regionIdx + 1)

\* Option::Some only when the caller encrypts.
OutputKey == IF delegate THEN Region.key ELSE NoKey

PartGroup ==
  LET n  == Expected(Region.ns, part.i, ChunkBlocks)
      ps == Filled(part, groups[CurrentGroup + 1], request.g, n)
  IN  /\ Feeding("regions")
      /\ part.on
      /\ Decodes(CurrentGroup)
      /\ UNCHANGED <<file, delegate, tables, lastKey>>
      /\ \/ /\ ~ GroupComplete(ps, Region)
            /\ Continue(ps)
            /\ UNCHANGED outputs
         \/ /\ GroupComplete(ps, Region)
            /\ GroupLength(ps) = 0
            /\ Continue(Cleared(ps))
            /\ UNCHANGED outputs
         \/ /\ GroupComplete(ps, Region)
            /\ GroupLength(ps) > 0
            /\ Finalizable(ps)
            /\ outputs' = Append(outputs, GroupOutput(ps, Region, OutputKey))
            /\ Continue(Cleared(ps))
         \/ /\ GroupComplete(ps, Region)
            /\ GroupLength(ps) > 0
            /\ ~ Finalizable(ps)
            /\ part' = ps
            /\ error' = "MissingGroup"
            /\ UNCHANGED <<stage, request, regionIdx, rawI, outputs>>

-----------------------------------------------------------------------------
(* A feed whose bytes are refused: too short, a wrong magic or size, or a  *)
(* payload that does not decode.  Zero groups ignore their bytes.          *)
Refused ==
  /\ stage # "done" /\ error # "panic"
  /\ stage = "regions" => ~ groups[CurrentGroup + 1].zero
  /\ error' = "refused"
  /\ UNCHANGED <<file, delegate, stage, request, tables, cursor, outputs, lastKey>>

\* take_output of an empty queue forgets the key of the last output.
TakeOutput ==
  /\ error # "panic"
  /\ \/ /\ outputs # <<>>
        /\ outputs' = Tail(outputs)
        /\ lastKey' = Head(outputs).key
     \/ /\ outputs = <<>>
        /\ outputs' = outputs
        /\ lastKey' = NoKey
  /\ UNCHANGED <<file, delegate, stage, request, tables, cursor, error>>

Feed == \/ Header1 \/ Header2 \/ PartTable \/ RawTable \/ GroupTable
        \/ RawGroup \/ PartGroup

Next == Feed \/ Refused \/ TakeOutput

Spec == Init /\ [][Next]_vars

\* The drivers loop: while a request stands they feed it, and they drain the
\* queue after every feed.
FairSpec == Spec /\ WF_vars(Feed) /\ WF_vars(TakeOutput)
=============================================================================
