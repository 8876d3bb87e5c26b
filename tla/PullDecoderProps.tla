-------------------------- MODULE PullDecoderProps --------------------------
(***************************************************************************)
(* What must hold of PullDecoder.                                          *)
(***************************************************************************)
EXTENDS PullDecoder

(* The state of decompress_rvz has its types.                              *)
TypeOK ==
  /\ file \in Files
  /\ pc \in {"header", "rawTable", "groupTable", "regions", "end"}
  /\ parts \in Seq(PartEntries) /\ rawEntries \in Seq(RawEntries)
  /\ groups \in Seq(GroupEntries)
  /\ regions \in Seq(PartEntries \cup RawEntries)
  /\ regionIdx \in 1 .. Len(regions) + 1
  /\ i \in Nat /\ part \in PartStates
  /\ writes \in Seq(OutputRecords)
  /\ result \in {"", "ok", "BadHeader", "SizeMismatch", "MissingGroup", "BadRecord"}

(* For a well-formed container the writes are the stream of the disc, in   *)
(* order and each once, also when a read fails halfway: what was written   *)
(* until then is a prefix of the image's outputs.                          *)
Stream == INSTANCE DiscStream WITH
  delegate <- FALSE,
  position <- IF result = "ok" THEN <<Len(regions) + 1, 0>>
              ELSE IF regions = <<>> THEN <<0, 0>>
              ELSE <<regionIdx,
                     IF part.on THEN part.groupStart \div GroupBlocks ELSE i>>,
  queue <- writes,
  closed <- result = "ok"
StreamSpec ==
  /\ Stream!Init
  /\ [][WellFormed(file) => Stream!Next]_(Stream!vars)

(* The only way for decompress_rvz to refuse a well-formed container with  *)
(* intact groups is a failed read.                                         *)
Sound(f) == WellFormed(f) /\ \A n \in DOMAIN f.groups : ~ f.groups[n].bad
SoundIsDecoded == Sound(file) => result \in {"", "ok", "BadHeader"}
=============================================================================
