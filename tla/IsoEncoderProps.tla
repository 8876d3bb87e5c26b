--------------------------- MODULE IsoEncoderProps ---------------------------
(***************************************************************************)
(* What must hold of IsoEncoder.                                           *)
(***************************************************************************)
EXTENDS IsoEncoder

(* The state of compress_iso and encode_iso_to_rvz has its types.          *)
TypeOK ==
  /\ iso \in Isos /\ available \in 0 .. iso.size
  /\ pc \in {"begin", "detect", "next", "before", "setup", "fst", "head", "entries",
             "data0", "data1", "rest", "partTable", "rawTable", "groupTable",
             "header", "done", "failed", "panic"}
  /\ table \in Seq(Partitions)
  /\ part \in [key : Keys \cup {NoKey}, offset : Nat, dataOffset : Nat,
               start : Nat, end : Nat, split : Nat]
  /\ lastEnd \in Nat
  /\ region \in RawEntries \cup PartEntries /\ k \in Nat
  /\ groupIndex \in Nat
  /\ raws \in Seq(RawEntries) /\ parts \in Seq(PartEntries)
  /\ chunks \in Seq([from : Nat, size : Nat, word : Nat, len : Nat])
  /\ bytesDone \in Nat /\ reported \in Nat
  /\ pos \in Nat
  /\ tables \in Seq([what : {"part", "raw", "group"}, at : Nat, len : Nat])
  /\ header \in {"none", "zero", "full"}

(* Group n of the group table was made from the bytes of the disc that the *)
(* decoders will restore from it, for every entry that claims it: the      *)
(* groups allotted ahead (compress_raw_region, create_pde) are the ones    *)
(* that the chunks stored later get, whatever was stored in between.       *)
HasChunk(e, c) == e.gi + c < Len(chunks)
ChunkOf(e, c) == chunks[e.gi + c + 1]
RawNamed(e) ==
  \A c \in 0 .. e.ng - 1 : HasChunk(e, c) =>
    /\ ChunkOf(e, c).from = RawOutput(e, c, Zeros).offset
    /\ ChunkOf(e, c).size = RawOutput(e, c, Zeros).len
PartNamed(e) ==
  \A c \in 0 .. e.ng - 1 : HasChunk(e, c) =>
    /\ ChunkOf(e, c).from = (e.fs + c * ChunkBlocks) * Block
    /\ ChunkOf(e, c).size = Expected(e.ns, c, ChunkBlocks) * Block
EntriesNameTheirChunks ==
  /\ \A n \in DOMAIN raws : RawNamed(raws[n])
  /\ \A n \in DOMAIN parts : PartNamed(parts[n])

Covered(x) ==
  \E n \in DOMAIN chunks : chunks[n].from <= x /\ x < chunks[n].from + chunks[n].size

(* A finished container restores the disc (README.md:16): its tables are   *)
(* well-formed, which the decoders rely on, every byte of the disc is in a *)
(* group, and no group reaches past the end of the disc.                   *)
Container ==
  [parts |-> parts, raws |-> raws,
   groups |-> [n \in DOMAIN chunks |-> [zero |-> FALSE, bad |-> FALSE, ex |-> {}]]]
RestoresDisc ==
  pc = "done" /\ iso.size > DiscHeader =>
    /\ WellFormed(Container)
    /\ \A x \in 0 .. iso.size - 1 : Covered(x)
    /\ \A n \in DOMAIN chunks : chunks[n].from + chunks[n].size <= iso.size

(* When a container has its header, all it points at has been written: a   *)
(* crash, or a failed read or write, leaves the zero header of the start.  *)
HeaderComesLast ==
  header = "full" =>
    /\ Len(chunks) = groupIndex
    /\ [n \in DOMAIN tables |-> tables[n].what] =
         (IF parts # <<>> THEN <<"part">> ELSE <<>>) \o <<"raw", "group">>

(* The positions in the group table, which count words, and those of the   *)
(* tables lead to the bytes that were stored, and nothing written later    *)
(* overlaps them.                                                          *)
StoredApart ==
  LET at(n) == chunks[n].word * 4
  IN  /\ \A n \in DOMAIN chunks : at(n) >= HeaderArea
      /\ \A m, n \in DOMAIN chunks : m < n => at(m) + chunks[m].len <= at(n)
      /\ \A n \in DOMAIN chunks, t \in DOMAIN tables :
           at(n) + chunks[n].len <= tables[t].at
      /\ \A s, t \in DOMAIN tables :
           s < t => tables[s].at + tables[s].len <= tables[t].at

(* README.md:29-31: whenever the encoder waits for a growing disc, all of  *)
(* the disc has been stored but for what the step in hand needs at once (a *)
(* window, a partition header, or the way to the FST of a partition): a    *)
(* partition at the end of the disc does not hold up the rest.             *)
Ahead == CASE pc = "setup" -> PartHeader
           [] pc = "fst"   -> part.start + Block - part.offset
           [] StoringRaw   -> Chunk
           [] OTHER        -> GroupBlocks * Block
WaitsAtTheFront ==
  ~ Readable /\ pc \notin {"begin", "detect"} =>
    \A x \in DiscHeader .. available - Ahead - 1 : Covered(x)

(* When regions begin at block boundaries, as they do on a disc whose      *)
(* partitions do, the progress reported stays within the disc and ends     *)
(* with the disc counted once (README.md:28, `value' is 0..1).             *)
Aligned(d) == \A n \in DOMAIN d.table : d.table[n].offset % Block = 0
ProgressWithinDisc == reported <= iso.size
ProgressOfAlignedDisc ==
  Aligned(iso) => /\ ProgressWithinDisc
                  /\ pc = "done" /\ iso.size > DiscHeader => bytesDone = iso.size

(* README.md:16 (decoding what was encoded gives the disc back): no reader *)
(* takes a compressed table of a finished container for a plain one        *)
(* (build_tables always compresses, table_bytes guesses from the length).  *)
TablesAreUnpacked ==
  header = "full" => \A n \in DOMAIN tables : ~ TakenAsPlain(tables[n])

(* The encoder comes to an end, also while the disc is still growing.      *)
Terminates == <>Stopped
=============================================================================
