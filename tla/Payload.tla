------------------------------ MODULE Payload ------------------------------
(***************************************************************************)
(* The payload of a chunk, between the encoder (compress_raw_region,       *)
(* collect_hash_exceptions, build_exception_list and the chunk loop of     *)
(* compress_partition_region, encoder.rs) and the readers                  *)
(* (decompress_raw_data, decompress_partition and finalize_group,          *)
(* decoder.rs, and their like in push.rs): for partition data a list of    *)
(* hash exceptions and padding, and the packed data of the chunk.          *)
(***************************************************************************)
EXTENDS Packing, FiniteSets

CONSTANTS RawOffsets,  \* the offsets of chunks of raw regions
          BlockData,   \* BLOCK_DATA_SIZE
          HeaderSize,  \* BLOCK_HEADER_SIZE: the hashes of a block
          HashSize,    \* 20
          Areas,       \* ranges: the areas of a header, [base, size]
          OffsetRange, \* values of the offset of an exception, a u16
          EntrySize,   \* bytes of an exception in the list
          NoDifference, \* for each block of the chunk, no byte of its header
          Differences, \* for each block, the bytes that are not as recomputed
          Sampled,     \* chunks that are combined with all of them
          CompressedSizes \* lengths zstd may return

ASSUME PayloadAssumption ==
  /\ BlockData \in Nat \ {0} /\ HashSize \in Nat \ {0} /\ HeaderSize \in Nat
  /\ \A a \in Areas : /\ a.base \in Nat /\ a.size \in Nat
                      /\ a.size >= HashSize /\ a.base + a.size <= HeaderSize
  /\ IsFiniteSet(DOMAIN NoDifference)
  /\ OffsetRange \in Nat \ {0} /\ EntrySize \in Nat
  /\ \A d \in Differences : DOMAIN d = DOMAIN NoDifference
  /\ \A d \in Differences : \A b \in DOMAIN d : d[b] \subseteq 0 .. HeaderSize - 1
  /\ CompressedSizes \subseteq Nat \ {0}

\* The six areas leave no byte of a header out, and the headers of the four
\* blocks of a chunk are within the range of an offset (encoder.rs:340).
ASSUME HeadersFit ==
  /\ \A y \in 0 .. HeaderSize - 1 : \E a \in Areas : y \in a.base .. a.base + a.size - 1
  /\ \A b \in DOMAIN NoDifference : b \in Nat /\ b * HeaderSize + HeaderSize <= OffsetRange

\* The headers that are compared are those of the blocks of the chunk
\* (encoder.rs:533).
ASSUME BlocksOfChunk ==
  /\ Sampled \subseteq Chunks
  /\ \A c \in Sampled : \A b \in DOMAIN NoDifference : (b + 1) * BlockData <= c.size
  /\ \A b \in DOMAIN NoDifference : NoDifference[b] = {}

VARIABLES differs,    \* for each block of the chunk, the bytes of its header
                      \* that are not as recomputed from the data
          stage,      \* "collect", "pack", "load", "unpack", "apply", "end"
          exceptions, \* the exception list: an offset, and the hash it is for
          stored,     \* the payload: [list, pad, main, length, compressed]
          mainAt,     \* where the reader takes the data of the chunk from
          headers     \* headers of the reader: where each byte comes from

payload == <<stored, mainAt, headers>>
pvars == <<vars, differs, stage, exceptions, payload>>

Computed == <<"computed">>
NoPayload == [list |-> 0, pad |-> 0, main |-> 0, length |-> 0, compressed |-> FALSE]
Blocks == DOMAIN differs

Raw == offset \in RawOffsets

PayloadInit ==
  /\ Init
  /\ differs \in IF ~Raw /\ \E c \in Sampled : data = c.bytes THEN Differences ELSE {NoDifference}
  /\ stage = "collect" /\ exceptions = <<>>
  /\ stored = NoPayload /\ mainAt = 0
  /\ headers = [b \in Blocks |-> [y \in 0 .. HeaderSize - 1 |-> Computed]]

-----------------------------------------------------------------------------
(* The encoder.                                                            *)

\* Seeded bug: the last hash of an area is cut off, not moved to its end.
SlotsCut ==
  UNION {{a.base + l * HashSize : l \in 0 .. (a.size \div HashSize) - 1} : a \in Areas}

\* Where the hashes that are compared begin.  An area that is no multiple
\* of a hash ends with one that overlaps the one before.
Slots ==
  UNION {{a.base + (IF l * HashSize < a.size - HashSize THEN l * HashSize ELSE a.size - HashSize)
           : l \in 0 .. (a.size - 1) \div HashSize} : a \in Areas}

SlotBytes(s) == s .. s + HashSize - 1
Differing(b) == {s \in Slots : SlotBytes(s) \cap differs[b] # {}}

Collected == {e \in Blocks \X Slots : e[2] \in Differing(e[1])}

\* Block by block, slot by slot.
Place(e) == Cardinality({f \in Collected : f[1] < e[1] \/ (f[1] = e[1] /\ f[2] <= e[2])})
ExceptionOf(b, s) == [offset |-> (b * HeaderSize + s) % OffsetRange, block |-> b, slot |-> s]

CollectExceptions ==
  /\ stage = "collect"
  /\ exceptions' = [n \in 1 .. Cardinality(Collected) |->
                     LET e == CHOOSE f \in Collected : Place(f) = n IN ExceptionOf(e[1], e[2])]
  /\ stage' = "pack"
  /\ UNCHANGED <<vars, differs, payload>>

Pack ==
  /\ stage = "pack"
  /\ ScanWindow \/ ScanEnds \/ EmitPadding \/ EmitRest \/ EmitEnds
  /\ UNCHANGED <<differs, stage, exceptions, payload>>

ListSize(count) == 2 + count * EntrySize

\* Seeded bug: the list is always followed by padding.
PadAlways(list) == 4 - (list % 4)
Pad(list) == (4 - (list % 4)) % 4
Align4(n) == ((n + 3) \div 4) * 4

\* The list and the data are compressed without padding between them, or
\* stored with padding when that does not make them shorter.
Store ==
  /\ stage = "pack" /\ pc = "unpack"
  /\ LET list == IF Raw THEN 0 ELSE ListSize(Len(exceptions))
         main == IF packed = 0 THEN size ELSE Length(parts)
     IN  \/ \E c \in CompressedSizes :
              /\ c < main + Align4(list)
              /\ stored' = [list |-> list, pad |-> 0, main |-> main,
                            length |-> list + main, compressed |-> TRUE]
         \/ stored' = [list |-> list, pad |-> Pad(list), main |-> main,
                       length |-> list + Pad(list) + main, compressed |-> FALSE]
  /\ stage' = "load"
  /\ UNCHANGED <<vars, differs, exceptions, mainAt, headers>>

-----------------------------------------------------------------------------
(* The reader.                                                             *)

\* Seeded bug: the list of a compressed payload is taken to be padded too.
ListEndPadded(list) == Align4(list)
ListEnd(list) == IF stored.compressed THEN list ELSE Align4(list)

Load ==
  /\ stage = "load"
  /\ mainAt' = IF Raw THEN 0 ELSE ListEnd(ListSize(Len(exceptions)))
  /\ \/ /\ Raw \/ mainAt' + claimed <= stored.length
        /\ stage' = "unpack"
        /\ UNCHANGED <<pc, verdict>>
     \/ /\ ~Raw /\ mainAt' + claimed > stored.length
        /\ stage' = "end" /\ pc' = "done"
        /\ verdict' = "BadRecord"
  /\ UNCHANGED <<input, scanned, emitted, given, read, written, output>>
  /\ UNCHANGED <<differs, exceptions, stored, headers>>

\* Partition data that was kept as it is: a slice of the payload, which panics
\* when the payload is too short.
TakeSlice ==
  /\ pc = "unpack" /\ claimed = 0
  /\ \/ /\ mainAt + expected <= stored.length
        /\ output' = Bytes(0, expected)
        /\ verdict' = "ok"
     \/ /\ mainAt + expected > stored.length
        /\ output' = output
        /\ verdict' = "panic"
  /\ pc' = "done"
  /\ UNCHANGED <<input, scanned, emitted, given, read, written>>

Unpack ==
  /\ stage = "unpack"
  /\ \/ Raw /\ TakePlain
     \/ ~Raw /\ TakeSlice
     \/ UnpackRefuses \/ UnpackRecord \/ UnpackEnds
  /\ stage' = IF pc' # "done" THEN stage ELSE IF verdict' = "ok" THEN "apply" ELSE "end"
  /\ UNCHANGED <<differs, exceptions, payload>>

\* Exception e lands on byte y of the header of block b.
Hits(e, b, y) ==
  e.offset \div HeaderSize = b /\ y \in SlotBytes(e.offset % HeaderSize)

\* Byte y of the header of block b once the exceptions are applied: the last
\* exception of the list wins, with the bytes it was collected from.
Applied(b, y) ==
  LET hits == {n \in DOMAIN exceptions : Hits(exceptions[n], b, y)}
      last == exceptions[CHOOSE n \in hits : \A m \in hits : m <= n]
  IN  IF hits = {} THEN Computed
      ELSE <<last.block, last.slot + y - (last.offset % HeaderSize)>>

\* Exceptions that are not of a block of the chunk, or reach past its header.
Misplaced ==
  {n \in DOMAIN exceptions :
    \/ exceptions[n].offset \div HeaderSize >= expected \div BlockData
    \/ (exceptions[n].offset % HeaderSize) + HashSize > HeaderSize}

ApplyExceptions ==
  /\ stage = "apply"
  /\ \/ /\ Misplaced = {}
        /\ headers' = [b \in Blocks |-> [y \in 0 .. HeaderSize - 1 |-> Applied(b, y)]]
        /\ UNCHANGED verdict
     \/ /\ Misplaced # {}
        /\ verdict' = "BadRecord"
        /\ UNCHANGED headers
  /\ stage' = "end"
  /\ UNCHANGED <<input, pc, scanned, emitted, given, read, written, output>>
  /\ UNCHANGED <<differs, exceptions, stored, mainAt>>

PayloadNext ==
  CollectExceptions \/ Pack \/ Store \/ Load \/ Unpack \/ ApplyExceptions

PayloadSpec == PayloadInit /\ [][PayloadNext]_pvars /\ WF_pvars(PayloadNext)
=============================================================================
