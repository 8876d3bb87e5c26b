-------------------------- MODULE PushDecoderProps --------------------------
(***************************************************************************)
(* What must hold of PushDecoder.                                          *)
(***************************************************************************)
EXTENDS PushDecoder

(* The state of PushDecoder (push.rs:103-119) has its types. *)
TypeOK ==
  /\ file \in Files /\ delegate \in BOOLEAN
  /\ stage \in Stages /\ request \in Requests
  /\ parts \in Seq(PartEntries) /\ rawEntries \in Seq(RawEntries)
  /\ groups \in Seq(GroupEntries)
  /\ regions \in Seq(PartEntries \cup RawEntries)
  /\ regionIdx \in 1 .. Len(regions) + 1
  /\ rawI \in Nat /\ part \in PartStates
  /\ outputs \in Seq(OutputRecords)
  /\ lastKey \in Keys \cup {NoKey}
  /\ error \in {"", "refused", "MissingGroup", "panic"}

(* Whenever the decoder can be fed a group, the request in force names the *)
(* group that the cursor is about to decode, whatever was skipped, refused *)
(* or panicked on before: feeding never decodes one group's bytes with     *)
(* another group's table entry (issue_region_request, issue_part_request,  *)
(* process_raw_group and process_part_group keep this between them).       *)
RequestNamesCurrentGroup ==
  stage = "regions" /\ error # "panic" =>
    /\ request = AtGroup(CurrentGroup)
    /\ CurrentGroup < Len(groups)
    /\ part.on <=> Region.kind = "part"
    /\ (IF part.on THEN part.i ELSE rawI) < Region.ng

(* The slots of the hash group under construction hold exactly the blocks  *)
(* received since the last finalized group, each with the exceptions of    *)
(* its own chunk: a partial group at the end of a region never inherits    *)
(* blocks or exceptions of the group before it (process_part_group).       *)
BufferHoldsOpenGroup ==
  part.on =>
    \A s \in Slots :
      LET b == part.groupStart + s
          g == Region.gi + b \div ChunkBlocks
      IN  IF b < part.blockIndex
          THEN /\ part.blocks[s] = Source(groups, g, b % ChunkBlocks)
               /\ part.ex[s] = IF b % ChunkBlocks \in groups[g + 1].ex
                                 THEN {<<g, b % ChunkBlocks>>} ELSE {}
          ELSE part.blocks[s] = Empty /\ part.ex[s] = {}

(* finalize_group never meets an unfilled slot, whatever the tables say:   *)
(* its MissingGroup exit, which would leave the partition state advanced   *)
(* but its buffers uncleared, is dead code (process_part_group).           *)
NoHalfAppliedGroup == error # "MissingGroup"

(* For a well-formed container the push decoder implements the stream of   *)
(* the disc: each output once, in order, from its own chunks, however      *)
(* feeds, refusals and takes interleave.                                   *)
Stream == INSTANCE DiscStream WITH
  position <- IF stage = "done" THEN <<Len(regions) + 1, 0>>
              ELSE IF stage # "regions" THEN <<0, 0>>
              ELSE <<regionIdx,
                     IF part.on THEN part.groupStart \div GroupBlocks ELSE rawI>>,
  queue <- outputs,
  closed <- stage = "done"
StreamSpec ==
  /\ Stream!Init
  /\ [][WellFormed(file) => Stream!Next]_(Stream!vars)

(* A container whose tables and groups are sound is decoded to the end and *)
(* drained, even when some feeds are refused and repeated.                 *)
Sound(f) == WellFormed(f) /\ \A n \in DOMAIN f.groups : ~ f.groups[n].bad
EventuallyDrained ==
  Sound(file) => <>[](stage = "done" /\ outputs = <<>>)
=============================================================================
