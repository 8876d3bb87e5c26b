------------------------------ MODULE Packing ------------------------------
(***************************************************************************)
(* RVZ packing of one chunk: rvz_pack_chunk (crates/rvz/src/pack.rs) finds *)
(* the runs of the chunk that are padding of the generator and writes      *)
(* records of literal bytes and of seeds; unpack (unpack.rs) writes the    *)
(* bytes out again.  Indices of bytes and of records count as in the code. *)
(***************************************************************************)
EXTENDS Lfg, Sequences, SequencesExt

CONSTANTS Chunks,   \* chunks, [size, bytes]
          Offsets,  \* places of a chunk on the disc or in the partition data
          Skews,    \* how far the tables may be off the size of the chunk
          PackedSkews  \* and off its packed size

ASSUME PackingAssumption ==
  /\ \A c \in Chunks : c.size \in Nat \ {0} /\ c.bytes \in [0 .. c.size - 1 -> Bit]
  /\ Offsets \subseteq Nat
  /\ Skews \subseteq Int /\ \A c \in Chunks : \A w \in Skews : c.size + w \in Nat
  /\ PackedSkews \subseteq Nat

VARIABLES size,     \* data.len()
          data,     \* the chunk
          offset,   \* data_offset
          pc,       \* "scan", "emit", "unpack", "done"
          position, \* first byte not scanned yet
          junk,     \* junk_info: the runs of padding
          current,  \* current_offset
          parts,    \* the records
          starts,   \* where in the chunk each record begins (history)
          packed,   \* packed_size, 0 when the chunk is kept as it is
          claimed,  \* the packed size that the readers' tables give
          expected, \* the size that they give
          read,     \* records unpacked
          written,  \* bytes unpacked
          output,   \* the chunk of the reader
          verdict   \* "none", "ok" or the error

input == <<size, data, offset>>
scanned == <<position, junk>>
emitted == <<current, parts, starts, packed>>
given == <<claimed, expected>>
unpacked == <<read, written, output, verdict>>
vars == <<input, pc, scanned, emitted, given, unpacked>>

Phase(p) == (offset + p) % Block
Bytes(from, to) == [x \in 0 .. to - from - 1 |-> data[from + x]]

Init ==
  /\ \E c \in Chunks : size = c.size /\ data = c.bytes
  /\ offset \in Offsets
  /\ pc = "scan"
  /\ position = 0 /\ junk = <<>>
  /\ current = 0 /\ parts = <<>> /\ starts = <<>> /\ packed = 0
  /\ claimed = 0 /\ expected = 0
  /\ read = 0 /\ written = 0 /\ output = <<>> /\ verdict = "none"

-----------------------------------------------------------------------------
(* rvz_pack_chunk.                                                         *)

\* Zeroes are left out of the search for padding.
AfterZeroes(p) ==
  /\ p \in position .. size
  /\ \A x \in position .. p - 1 : data[x] = 0
  /\ p < size => data[p] # 0

\* A window of the search ends with the block it begins in.
WindowLength(p) ==
  IF Block - Phase(p) < size - p THEN Block - Phase(p) ELSE size - p

\* Seeded bug: the phase of a window counted from the start of the chunk.
RunsFromChunk(p) ==
  {[from |-> p, to |-> p + f.count, seed |-> f.seed] :
    f \in {g \in GetSeed(Bytes(p, p + WindowLength(p)), WindowLength(p), p % Block) : g.count > 0}}

RunsAt(p) ==
  {[from |-> p, to |-> p + f.count, seed |-> f.seed] :
    f \in {g \in GetSeed(Bytes(p, p + WindowLength(p)), WindowLength(p), Phase(p)) : g.count > 0}}

ScanWindow ==
  /\ pc = "scan" /\ position < size
  /\ \E p \in position .. size :
       /\ AfterZeroes(p)
       /\ position' = p + WindowLength(p)
       /\ \/ /\ RunsAt(p) = {}
             /\ junk' = junk
          \/ \E r \in RunsAt(p) : junk' = Append(junk, r)
  /\ UNCHANGED <<input, pc, emitted, given, unpacked>>

ScanEnds ==
  /\ pc = "scan" /\ position = size
  /\ pc' = "emit"
  /\ UNCHANGED <<input, scanned, emitted, given, unpacked>>

\* Seeded bug: a run that ends where the next record begins is taken again.
ReachesBack(r) == r.to >= current
Reaches(r) == r.to > current + SeedBytes

\* The run the next record is for: the first that is worth a seed.
Chosen(i) ==
  /\ size - current > SeedBytes
  /\ i \in DOMAIN junk /\ Reaches(junk[i])
  /\ \A m \in DOMAIN junk : m < i => ~Reaches(junk[m])
  /\ junk[i].from + SeedBytes < size

Literal(from, to) ==
  [junk |-> FALSE, size |-> to - from, bytes |-> Bytes(from, to), seed |-> {}]
Padding(from, to, seed) ==
  [junk |-> TRUE, size |-> to - from, bytes |-> <<>>, seed |-> seed]

\* Four bytes for the length and the kind.
RecordLength(r) == 4 + (IF r.junk THEN SeedBytes ELSE r.size)

PaddingStart(r) == IF r.from < current THEN current ELSE r.from

\* One turn of the second loop with a run: the bytes before it and it.
EmitPadding ==
  /\ pc = "emit" /\ current < size
  /\ \E i \in DOMAIN junk :
       LET r == junk[i]
           from == PaddingStart(r)
       IN  /\ Chosen(i) /\ r.to > from
           /\ \/ /\ from = current
                 /\ parts' = Append(parts, Padding(from, r.to, r.seed))
                 /\ starts' = Append(starts, from)
                 /\ packed' = packed + 4 + SeedBytes
              \/ /\ from > current
                 /\ parts' = Append(Append(parts, Literal(current, from)),
                                    Padding(from, r.to, r.seed))
                 /\ starts' = Append(Append(starts, current), from)
                 /\ packed' = packed + 4 + (from - current) + 4 + SeedBytes
           /\ current' = r.to
  /\ UNCHANGED <<input, pc, scanned, given, unpacked>>

\* Without a run: the rest of the chunk.  In the first turn the chunk is
\* kept as it is, with packed_size 0.
EmitRest ==
  /\ pc = "emit" /\ current < size
  /\ \A i \in DOMAIN junk : ~Chosen(i)
  /\ \/ /\ current = 0
        /\ UNCHANGED <<parts, starts, packed>>
     \/ /\ current > 0
        /\ parts' = Append(parts, Literal(current, size))
        /\ starts' = Append(starts, current)
        /\ packed' = packed + 4 + (size - current)
  /\ current' = size
  /\ UNCHANGED <<input, pc, scanned, given, unpacked>>

EmitEnds ==
  /\ pc = "emit" /\ current = size
  /\ pc' = "unpack"
  /\ \E w \in PackedSkews : claimed' = IF packed = 0 THEN 0 ELSE packed + w
  /\ \E w \in Skews : expected' = size + w
  /\ output' = [x \in 0 .. expected' - 1 |-> 0]
  /\ UNCHANGED <<input, scanned, emitted, read, written, verdict>>

-----------------------------------------------------------------------------
(* The reader.                                                             *)

\* The caller of unpack takes a chunk that was kept as it is itself.
TakePlain ==
  /\ pc = "unpack" /\ claimed = 0
  /\ \/ /\ size = expected
        /\ output' = data
        /\ verdict' = "ok"
     \/ /\ size # expected
        /\ output' = output
        /\ verdict' = "SizeMismatch"
  /\ pc' = "done"
  /\ UNCHANGED <<input, scanned, emitted, given, read, written>>

\* Seeded bug: the generator goes on from record to record.
PaddingByteUnphased(seed, y) == Stream(seed, y)

\* Byte y of a record that is written at `written'.
PaddingByte(seed, y) == Stream(seed, Phase(written) + y)

RecordByte(r, y) == IF r.junk THEN PaddingByte(r.seed, y) ELSE r.bytes[y]

\* Seeded bug: the last record may not fill the chunk.
FitsShort(r) == written + r.size < expected
\* Seeded bug: a record may write past the end of the chunk.
FitsAlways(r) == TRUE
Fits(r) == written + r.size <= expected

Length(records) == FoldFunction(+, 0, [i \in DOMAIN records |-> RecordLength(records[i])])

Unpacking == pc = "unpack" /\ claimed # 0 /\ Length(parts) = claimed

UnpackRefuses ==
  /\ pc = "unpack" /\ claimed # 0 /\ Length(parts) # claimed
  /\ verdict' = "PackingSizeMismatch"
  /\ pc' = "done"
  /\ UNCHANGED <<input, scanned, emitted, given, read, written, output>>

UnpackRecord ==
  /\ Unpacking /\ read < Len(parts) /\ written < expected
  /\ LET r == parts[read + 1]
     IN  \/ /\ Fits(r)
            /\ output' = [x \in 0 .. expected - 1 |->
                            IF x \in written .. written + r.size - 1
                              THEN RecordByte(r, x - written) ELSE output[x]]
            /\ written' = written + r.size
            /\ read' = read + 1
            /\ UNCHANGED <<pc, verdict>>
         \/ /\ ~Fits(r)
            /\ verdict' = IF r.junk THEN "PaddingOverflow" ELSE "BadRecord"
            /\ pc' = "done"
            /\ UNCHANGED <<read, written, output>>
  /\ UNCHANGED <<input, scanned, emitted, given>>

UnpackEnds ==
  /\ Unpacking /\ (read = Len(parts) \/ written >= expected)
  /\ verdict' = IF read # Len(parts) THEN "UnconsumedInput"
                ELSE IF written # expected THEN "SizeMismatch" ELSE "ok"
  /\ pc' = "done"
  /\ UNCHANGED <<input, scanned, emitted, given, read, written, output>>

Next ==
  \/ ScanWindow \/ ScanEnds
  \/ EmitPadding \/ EmitRest \/ EmitEnds
  \/ TakePlain \/ UnpackRefuses \/ UnpackRecord \/ UnpackEnds

Spec == Init /\ [][Next]_vars
=============================================================================
