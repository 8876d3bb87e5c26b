# A TLA+ verification of rvz-core

rvz-core encodes Wii and GameCube disc images (ISO) into RVZ containers, decodes
them again in two ways, and descrambles GameCube discs. This directory holds
TLA+ modules of its control logic, TLC configurations that check them on small
instances, and proofs that TLAPS checks for every instance.

Paths below are relative to `src/crates/`.

## Inventory

| component | source | state | operations |
|---|---|---|---|
| push decoder | `rvz/src/push.rs` | stage, request in force, tables, cursor (region, raw group, hash group under construction), output queue, sticky error | `feed`, `take_output`, accessors |
| pull decoder | `rvz/src/decoder.rs` | the same tables and buffers as locals of one call | `decompress_rvz` and its helpers |
| encoder | `rvz/src/encoder.rs` | entries, group index, end of the last region, progress; container position and group table | `encode_iso_to_rvz`, `compress_iso` and its helpers |
| packing | `rvz/src/pack.rs`, `unpack.rs`, `lfg.rs` | position in the generator | `rvz_pack_chunk`, `unpack` |
| binding | `rvz-wasm/src/lib.rs` | a `PushDecoder` behind a pointer | `rvz_decoder_*` |
| command line | `rvz-cli/src/main.rs` | digest and position of `Md5Sink`, last progress, growth of the followed file | `decode`, `decode-push`, `encode [--follow]` |
| descrambler | `gc-disc/src/lib.rs` | seed and cipher per phase, cache file | `unscramble_block`, `find_seed`, `load`, `save` |

How they interact. The encoder reads the disc through `ReadAt` (a file, or
`FollowReader`, which waits for a growing file), writes through `WriteAt`, and
reports progress through a callback. The pull decoder reads through `ReadAt` and
calls a write closure. The push decoder never reads: it names the bytes it wants,
its driver (`cmd_decode_push`, or JavaScript through the binding) feeds them and
empties the queue. Encoder and decoders meet only in the container: the two
region tables and the group table have to agree about which group restores
which bytes.

What is hard, and what has to hold:

* Push decoder: control is spread over mutually recursive functions that skip
  empty regions, and a feed may fail halfway and be repeated. The request must
  always name the group that will be decoded with it; buffers of a partial hash
  group must not leak; outputs come once and in order; decoding ends.
* Pull decoder: the same buffers in nested loops; writes must be a prefix of the
  image when a read fails; it must agree with the push decoder.
* Encoder: groups are allotted before they are stored; regions meet at
  boundaries of blocks, chunks, windows and at the end of the disc; the disc may
  still be growing; reads fail and some failures are swallowed; it may stop
  anywhere. A finished container must restore the disc, and an unfinished one
  must not look finished.
* Descrambler: cached seeds are trusted for ever, also those of another disc; the
  cache file is replaced through a shared temporary name.
* Packing: a generator position that depends on the place on the disc must be
  reproduced by the reader across chunk and sector boundaries.

`PROJECT.json` lists the hazards with their lines.

## Modules

| module | models | built on |
|---|---|---|
| `RvzFormat` | regions, chunks and hash groups; order of regions; contents of an output | |
| `HashGroup` | the buffers of a partition's hash group, common to both decoders | `RvzFormat` |
| `DiscStream` | abstract specification: the stream of outputs a container stands for | `RvzFormat` |
| `PushDecoder`, `PushDecoderProps` | `push.rs`, and what must hold of it | `HashGroup`, `DiscStream` |
| `PullDecoder`, `PullDecoderProps` | `decoder.rs` | `HashGroup`, `DiscStream` |
| `DecoderPair` | both decoders on one container | `PushDecoder`, `PullDecoder` |
| `WasmDecoder` | the binding's `take_output` and its client | `PushDecoder` |
| `IsoEncoder`, `IsoEncoderProps` | `encoder.rs` and the reader it follows | `RvzFormat` |
| `RvzCli`, `RvzCliProps` | `rvz encode [--follow]`, then `rvz decode`: the clock of `FollowReader`, the drive, `Md5Sink` | `IsoEncoder`, `PullDecoder` |
| `Lfg` | `lfg.rs`: the generator of the padding, and the search for a seed | |
| `Packing`, `PackingProps` | `pack.rs` and `unpack.rs` | `Lfg` |
| `Payload`, `PayloadProps` | the payload of a chunk: hash exceptions, padding, packed data | `Packing` |
| `Descrambler`, `DescramblerProps` | `gc-disc/src/lib.rs`: processes and the seed cache they share | |
| `Sums_proofs` | lemmas about sums (folds over functions), which other proofs cite | |
| `HashGroup_proofs` | lemmas about the format, hash groups and outputs, which the proofs of the decoders and the encoder cite | `HashGroup`, `Sums_proofs` |
| `PushDecoder_proofs`, `PullDecoder_proofs`, `IsoEncoder_proofs` | theorems about decoders and encoder | `HashGroup_proofs` |
| `Payload_proofs` | theorems about packing and payloads | `PayloadProps`, `Sums_proofs` |
| `Descrambler_proofs` | theorems about the descrambler | `DescramblerProps` |
| `RvzCli_proofs` | theorems about the command line, from those about its parts | `IsoEncoder_proofs`, `PullDecoder_proofs` |
| `MC*` | instances for TLC; `MCContainers` holds the containers of the decoders | |

Some definitions have a twin marked "Seeded bug": what the code would be with a
plausible mistake in that place. No specification uses them; each property has
been seen to fail with one of them in place of the definition it imitates
(`mutants` of `PROJECT.json`).

### Content and sizes

A block, a chunk and a hash group keep their relations (`Block`, `ChunkBlocks`,
`GroupBlocks`; on the disc 0x8000 bytes, 4 and 64), but contents are names: the
source of a restored block is `<<group, block of the chunk>>`, so that a property
can say which bytes went where without saying what they are. Hash exceptions are
the set of blocks of a chunk that carry some. A group is stored or all zero, and
one marked `bad` stands for every payload that does not decode (zstd, exception
list, length). Partition sizes count blocks, and the plain sizes of the code
(0x7c00 bytes a block) have the same quotients. `Expected` keeps the behaviour of
unsigned 64-bit subtraction: the minimum of a chunk and a wrapped difference is
the chunk.

### The decoders

`PushDecoder` has one action per stage of `feed_inner`, with everything the stage
calls: appending the output, moving the cursor, skipping regions without groups
(`EnterRegion`, the recursion of `next_region` and `issue_region_request` as a
choice of the next busy region) and naming the next request, or a panic when the
tables point past the group table. `Refused` is a feed whose bytes do not decode:
it sets the sticky error and nothing else. `PartGroup` has the four ways out of
`process_part_group`: hash group not complete, complete, complete but empty, and
failed in `finalize_group` with the counters already advanced. `TakeOutput` may
happen at any time, on an empty queue too.

`PullDecoder` is the same work with the control of `decompress_rvz`: its own
checks before each group, in their order, a read that fails at any point, and
writes kept in order.

`DiscStream` knows nothing of requests, buffers or cursors: it opens the
container, produces the outputs one by one, each computed from the tables alone,
and lets them be taken from the front. Both decoders are checked to implement it
(`StreamSpec`) for well-formed containers; the position of the stream is the
region and the finished hash groups of the decoder's cursor.

### The encoder

`IsoEncoder` follows `compress_iso`: candidates are walked in order, the raw
bytes before a candidate are stored, its header is read (`SetUp`), then the start
of its data for the FST (`ReadFst`), the raw bytes up to its data are stored, both
data entries get their groups (`CreateEntries`) and are compressed a window at a
time (`PartChunk`), and the rest of the disc is raw again (`ReachEnd`). Each chunk
goes through `Store`, the callback of `encode_iso_to_rvz`, which places it in the
container. Tables and header follow, one write an action, so that every state
between two writes is a state in which a crash may leave the file. `chunks` keeps
with each group the range of the disc it was made from, which the code forgets;
the properties compare it with what the decoders will restore.

The disc grows block by block (`available`), and `Readable` is the wait of
`FollowReader`; an ordinary file is a disc that has already grown. Any step may
fail (`Fail`); a failing read of a partition table or of the FST is swallowed by
the code, and so are the corresponding choices in `Detect` and `ReadFst`.

### Packing and payloads

A byte is one bit in `Lfg` and in everything built on it: the generator is linear
over bits, xor never crosses one, and shifts and the byte order are the same in
every generation. A buffer is the set of its cells that are 1. What is kept is
the recurrence with its two lags, the words of the seed, the four generations of
warm-up, the start of the stream in each block, and the search: `backward` in its
order from the top down, the seed read off the buffer, the bytes that match.

`Packing` has the two loops of `rvz_pack_chunk`, one window and one record a
step, and `unpack` record by record with all its errors. The records carry what
`unpack` reads; `starts` remembers where each record came from. The tables of
the reader may be off the size and the packed size of the chunk (`Skews`,
`PackedSkews`). A window whose start lies in the last word of a generation, behind
its first byte, is compared with the generation behind it (`ComparedFrom`): the
code does that, and `Straddles` names such runs.

`Payload` puts a chunk of partition data together and takes it apart: which hashes
of a block's header differ (`Differing`, slot by slot, the last slot of an area
moved to its end), the list of exceptions and its length, padding behind it only
when the payload is stored uncompressed, the packed data; then where the reader
looks for the data (`ListEnd`), and the application of each exception to the
recomputed header, byte by byte. A hash is a range of `HashSize` bytes; its value
is where it comes from.

### The command line

`RvzCli` composes `IsoEncoder` (by EXTENDS), the loop of `FollowReader::read_at`,
`PullDecoder` (by INSTANCE, on the container the encoder has left) and `Md5Sink`.
A drive creates the file and writes it block by block, at any pace, and may stop
for ever. Time counts in polls of 200 ms: `since` is the time since the reader saw
growth, `quiet` that since the drive wrote. Every wait of the encoder becomes a
loop of `Poll` and `Tick`. A timeout, or an error of the file system in a poll
(`PollFails`), is the failure of the read, which ends the encoder, unless the read is
of a partition table behind their directory or of an FST: the encoder goes on without
these (`DoesWithout`), and may give up on a later read of the same run. Without
`--iso-size` the size of the disc is the size that the file has when it appears.

### The descrambler

Each process of `Descrambler` has a disc, seeds and ciphers per phase, a search
limit and perhaps a cache path. Calls (`find_seed`, `unscramble_block`, `set_seed`)
take several steps when they save the cache: open the temporary file (truncating
it), write, rename. Files are inodes, so that two processes may hold the same
temporary file and rename it under each other. Each of the three steps may fail,
which the code ignores, and a process may stop after any step. EDCs are external:
a sector passes with the seed of its disc and phase unless it is damaged. `trusted`
and `overlapped` are history: whether all seeds were of one disc, and whether two
processes wrote at once.

A crash or a failure leaves the old cache or the new one (`CacheIsWhole`). That is not
claimed once two processes have written at once: one may rename the file that the other
is still writing. Then only the parse in `load` stands between the torn file and the
decoder, and `OutputIsRight` and `RefusedWithCause`, which hold whether or not writes
overlapped, say that no block is decoded wrongly or refused for it.

## Runs

| run | checks | bounds |
|---|---|---|
| `push` | types; the request names the group that comes next; the open hash group's buffers; `finalize_group` cannot fail; refinement of `DiscStream`; a sound container is drained | nine containers of up to nine groups: two data entries with a partial chunk and a partial hash group, shuffled and empty regions, zero groups, undecodable groups, dangling and surplus groups, three hash groups in a row; both settings of delegation |
| `pull` | types; refinement of `DiscStream`; sound containers are refused only by failed reads | the same |
| `encoder` | types; entries name their chunks; a finished container restores the disc; the header comes last; nothing stored overlaps; waiting only at the front; progress; termination | seven discs of up to 31 bytes: no partitions, empty, too short for a table, split data with a partial window and a partial last block, two tables out of order with nested, duplicate, invalid and clipped partitions, candidates off block boundaries, data beyond the disc; chunks of two stored lengths |
| `packing` | types; unpacking restores the chunk; it accepts exactly the sizes of the chunk; hashes and data are found; padding is found; packing ends | chunks of 24 bytes in blocks of 20, words of 2 bytes, a generator of 3 words; zeroes, padding of three seeds and other bytes in all mixtures, each chunk also with every one of its bytes flipped; two disc offsets; two blocks of headers with every set of differing bytes |
| `descrambler` | types; no wrong output; no refusal without cause; searches heal; the cache is whole | two processes, two discs, two phases, seeds of 0..2, five starts and calls, three inodes; processes and inodes are symmetric |
| `cli` | types; the disc is restored, with its hash trees; the digest is that of the disc; the reader is patient; the command ends | four discs of up to 25 bytes; from a file, followed, followed with a size; timeouts of one and two polls |
| `pair`, `wasm`, `phase`, `progress`, `offset`, `tables` | findings, see below | |

Block 2, chunk 2 blocks and hash group 4 blocks are the smallest sizes at which a
chunk has several blocks, a hash group several chunks, and both can be partial.
Three hash groups in one region show first, middle and last; two regions of each
kind show every succession. Larger instances repeat these cases. In `packing` a
block is three generations and a part, and a chunk crosses the end of its block,
so that a window begins at every place of a word and of a generation. In
`descrambler` five starts and calls are enough for a process to fill the cache, a
second one with another disc to start from it, decode with its seed, search again
and decode; a third disc or process adds nothing to two that disagree. In `cli` the
timeouts differ, so that neither is taken for the other.

Deadlock is not checked because a decoder that is done, an encoder or a command
that has stopped, and processes that have made their calls make no further step;
that they get there is what the liveness properties say.

### Fairness

`PushDecoder!FairSpec` assumes that a client feeds while there is a request and
takes outputs: the loops of `cmd_decode_push` (`rvz-cli/src/main.rs:119-135`) and
of `tools/wasm-decode-check.mjs`. Refusals are not fair and may repeat as long as
the client tries again; a client that gives up at the first one simply stops.
`IsoEncoder!FairSpec` assumes that the encoder runs and that the disc grows to its
announced size; when it does not, `FollowReader` times out, which is `Fail`.
`PayloadSpec` is a sequential program that runs. `CliSpec` assumes that the command
and the clock go on, and nothing of the drive.

## What the violations show

* `pair`: `push.rs:7` says that both decoders have the same logic. The pull
  decoder refuses a raw entry with one group more than its size fills
  (`decoder.rs:237`), the push decoder decodes the group to an empty output.
* `wasm`: `rvz_decoder_take_output` takes the output off the queue before it
  compares its length with the buffer; the retry that the comment at
  `rvz-wasm/src/lib.rs:140` has in mind gets the next output.
* `phase`: `tests/pack_unpack.rs:87` asserts that unpacking gives the chunk that was
  packed. `get_seed` (`lfg.rs:245`) counts the generation from the next whole word; for
  a start inside the last word of a generation the bytes before that word are
  compared with the wrong generation, may match it by accident, and unpack to other
  bytes. `UnpackRestores` in the `packing` run shows that nothing else goes wrong.
* `progress`: regions that meet inside a block both count it, and the progress
  exceeds 1. With partitions on block boundaries, the usual case, the `encoder`
  run shows that it ends with exactly the size of the disc.
* `offset`: `ValidPartition.data_offset` is a `u32`; with a data offset of 4 GiB or
  more the bytes between the truncated and the true offset are stored nowhere.
  `OffsetRange` stands for 2^32.
* `tables`: readers take a table for uncompressed when its length is that of its
  entries; the encoder always compresses and does not look at the length. The
  model allows both lengths; zstd does return the length of its input for some
  group tables of four or five entries and some raw tables. `RestoresDisc` in the
  `encoder` run is about the tables that the readers unpack.

## Proofs

Every safety property of the passing runs, invariant or action property, is also a
theorem, and so is the refinement of `DiscStream` by both decoders. Every theorem
holds for every value of the constants, under the assumptions that the modules name
(`FormatAssumption`, `FilesAssumption`, `EncoderAssumption`, `LfgAssumption`,
`PackingAssumption`, `PayloadAssumption`, `HeadersFit`, `BlocksOfChunk`,
`PadsAssumption`, `CliAssumption`, `DescramblerAssumption`: sizes are positive, sets
have the types of the code, the blocks whose headers are compared lie in their chunk
(`encoder.rs:533`), `Pads` are streams of seeds) and those a theorem states:
`ChunksFillGroups`, true of the chunks that the encoder makes, and `CodeRanges`, that
a data offset fits its 32 bits (see below for both).

### Decoders

`PushDecoder_proofs`, for every container, well-formed or not:

* `TypeCorrect`: `Spec => []TypeOK`,
* `RequestCorrect`: `Spec => []RequestNamesCurrentGroup`,
* `FinalizeNeverFails`: `Spec => []NoHalfAppliedGroup`,

from one inductive invariant, `IInv` (theorem `PushDecoderInvariant`). The last
two are not inductive. For the request one has to know that the cursor's region
has groups and that the one in force was checked against the group table; for
`finalize_group` that the slots from the start of the open hash group up to the
blocks received are filled, that the open group starts at a multiple of the hash
group, and that it has fewer blocks than a hash group: `IInv` says so, and each
action preserves it. `HashGroup_proofs` has the arithmetic: what `Expected` can
return, and how a block index turns over at a hash group.

`PullDecoder_proofs`, for every container:

* `PullTypeCorrect`: `Spec => []TypeOK`,
* `SoundDecoded`: `Spec => []SoundIsDecoded`,

from its `IInv` (theorem `PullDecoderInvariant`): the tables are those of the
file, the regions those of the tables, the cursor is inside its region, and the
buffers have no gap. A sound container passes each check because the cursor's
group is one of an entry that the container vouches for.

Both implement the abstract stream:

* `PushImplementsStream`, `PullImplementsStream`: `Spec => StreamSpec`,
* `BuffersHoldOpenGroup`: `Spec => []BufferHoldsOpenGroup`, for well-formed files.

These assume `ChunksFillGroups`, that a hash group is a whole number of chunks. It
is so with the chunks that the encoder makes (4 blocks of 64); with other sizes
two blocks of a chunk may fall into one slot and the stream is not what the code
writes. The step theorems rest on `BufferExact`: the slots of the open hash group
hold, each, the block and the exceptions of the chunk it came in, and the others
nothing (`Exact`, `HashGroup_proofs`). From it the output of `finalize_group` is
the record that the stream computes from the tables (`OutputIsRecord`). Where the
decoders skip a region, the stream has nothing to skip to: an entry has outputs
if and only if it has groups (`BusyHasOutputs`), so the next busy region is the
first from which the stream goes on.

* `PullWrites`: `Spec => []Written`, for the command line below. A prefix of the
  stream is not yet a disc: `Written` says that what a well-formed container has
  been decoded to are units of its regions (hash groups, raw chunks), that no unit
  behind the decoder's place is missing, and that each begins where the one before it
  ended if the regions follow without a gap (`Seamless`).

### Encoder

`IsoEncoder_proofs` proves for every value of the constants (under
`FormatAssumption` and `EncoderAssumption`: positive sizes, a header area of whole
words, a disc header no longer than a block), so for every disc and partition
table, read failure and growth of the disc:

* `EncoderTypeCorrect`: `Spec => []TypeOK`; that no size or offset becomes negative
  rests on `DataSplit`, the split lies inside the data of the partition;
* `ChunksNamedRightly`: `Spec => []EntriesNameTheirChunks`,
* `FinishedContainers`: the container is `WellFormed` when the encoder is done,
  which `StreamSpec` assumes of the containers of the decoders,

from `IInv` (theorem `EncoderInvariant`). Its heart is `Ledger`: all groups of
an entry are stored, but for the open entries, at most the one being stored and
the second data entry behind it, whose groups are the next ones in order. An
entry ends with the chunk that `compress_partition_region` takes for its last one
because block counts and byte counts round to the same number of chunks
(`CeilDivScaled`, `LastChunk`).

* `NothingOverlaps`: `Spec => []StoredApart`,
* `HeaderIsLast`: `Spec => []HeaderComesLast`,

from `LInv` (theorem `LayoutInvariant`, which uses `EncoderInvariant`): all that is
written ends before the position, which is at a word boundary until the group
table is written, and the tables come after the chunks in their order.

* `FinishedRestores`: `Spec => []RestoresDisc`, no byte of the disc is left out;
* `WaitsAtFront`: `Spec => []WaitsAtTheFront`,

from `CInv` (theorem `CoverInvariant`): at each place of the walk everything before
the point that it has reached is stored. Regions meet because a partition is set
up only at a block, its data are split at one, and `last_end` is the end of the
last entry. A point inside the disc header is passed without storing anything, hence
`ReachIf`. Both assume `CodeRanges`: the disc header is smaller than a block (0x80
and 0x8000 bytes), or the gap behind it would begin in a later block, and data
offsets fit into 32 bits (the `offset` run shows what the code does otherwise).

* `ProgressCounted`: `Spec => []ProgressOfAlignedDisc`,

from `PInv` (theorem `CountInvariant`), under `CodeRanges` too: on a disc whose
partitions begin at blocks the bytes counted are those before the point reached, or
before the window in hand. A window counts with its last chunk, which exists because
windows are whole numbers of chunks (`ChunkInWindow`).

* `EntriesApart`: `Spec => []AInv`, under `CodeRanges`: each group is named by an entry
  (`AllClaimed`), partition entries never overlap, and raw ones neither overlap nor
  reach into a partition when partitions begin at blocks. The invariant knows how far
  the entries reach at each place of the walk (`Front`).

The invariants are stated of discs that may be shorter than those of `Isos`
(`CutDiscs`): a followed file is taken for as long as it is when it appears, and the
proofs about the encoder are used again for the command line.

### Packing and payloads

* `BackwardUndoesForward`: of a buffer that follows another, `backward` restores the
  other, for every lag that is at most half the buffer. It is what makes the search
  for a seed correct and depends on the order of the words.
* `PackingRestores`, `PayloadRestores`: `UnpackRestores` of a packed chunk, and of one
  that was packed, stored with its exceptions and found again. The invariant
  relates packer and reader: a run is the stream it was compared with (`RunsRight`),
  runs follow one another and no record cuts one (`RunsApart`), the records cover
  the chunk without a gap (`Chain`), and what is unpacked is right up to the bytes
  written (`Course`). A run that does not straddle two generations is the stream the
  reader produces.
* `PayloadDataIsFound`: `DataIsFound`, since a list in an uncompressed payload is
  padded to four bytes by both sides (`LaidOut`).
* `PayloadHeaders`: `HeadersRestored`. The hashes of a header that are compared leave
  no byte out (`SlotsCover`); each difference has its own place in the list
  (`PlacesTaken`: an injection between sets of one size is onto), so that the list
  names each and nothing else (`Listed`); and an offset gives back the block and the
  hash it was made from (`HitsItsSlot`). It rests on `HeadersFit`: the six areas make
  up the header and four headers are within a `u16`, as in `encoder.rs:340`.
* `PayloadAccepts`: `AcceptsItsSize`. The packer counts `packed_size` apart from its
  records, and the reader adds up the records; that both agree is a fact about a fold
  (`LengthGrows`, from `Sums_proofs`). The reader ends exactly at the end of the chunk
  because the records cover it, and no exception of a chunk that agrees with its
  tables is misplaced (`NoneMisplaced`).
* `PaddingFound`: `PaddingIsFound`. A window of padding gives back its seed: the buffer
  that is put together from the words of the window, some of one generation and some of the
  next, is a whole generation once the lower words are taken back (`BackwardInPart`);
  all generations before it are taken back one by one (`RewindsToSeed`), down to the
  expansion of the seed, which begins with the seed (`ExpandKeepsSeed`); and all bytes
  of the window then match. That the recursive definitions of the model (`Expand`,
  `Generations`, `Rewound`) have values at all is proved, too, by a least
  counterexample (`BitsDefined`, `Iterates`).
* `PackingType`, `PayloadType`: `TypeOK`.

### Command line

`RvzCli_proofs` extends the proofs of the encoder and instantiates those of the pull
decoder on the container that the encoder leaves; `FormatAgrees` to `DecoderSteps`
say that the two instances of the decoder are one.

* `ReaderIsPatient`: `CliSpec => PatientReader`. While the reader waits and has seen the
  last growth, it has counted no more ticks than the drive has been quiet for (`Patient`).
  Every time that the reader gives up counts, also after an unread table or FST.
* `CommandTypeCorrect`: `CliSpec => []CliTypeOK`,
* `RestoresImage`: `CliSpec => []ImageRestored`, under `CodeRanges`,
* `DigestOfImage`: `CliSpec => []DigestIsOfImage`, under `CodeRanges`,

from `OInv`: the invariants of the encoder (`WInv` with `IInv`; `CInv`, `PInv`, `AInv`)
and of the decoder (`DInv`, `RInv`, `Written`) hold throughout, and from the moment at
which decoding begins the container is that of a finished encoder (`RoundTrip`). Every
step of the command is a step of one of them, or leaves both alone.

That every byte is restored goes from the disc to the writes: the byte lies in a stored
chunk (`CInv`), the group of which an entry names (`AllClaimed`); the entry is one of
the decoder's regions (`OrdersComplete`), the chunk lies in one of its units
(`RegionsCover`), and the decoder has written them all (`Written`). That every block is
from its own place goes the other way: a write is a unit of a region, the region an entry,
and the chunk in its group the bytes at that place (`EntriesNameTheirChunks`). For the
hash tree the chunk's blocks must belong to the hash group of one partition only, and
partitions do not overlap. The digest needs the regions of an aligned disc to follow each
other from the first byte to the last (`RegionsSeamless`): they are sorted and do not
overlap, and the next one can begin nowhere but at the end of the one before, as that
byte is in some region.

### Descrambler

* `DecodesRightly`: `[]OutputIsRight`; `RefusesWithCause`: `[]RefusedWithCause`;
  `SearchesHeal`: `SearchHeals`; `DescramblerType`: `[]TypeOK`, for every number of
  processes, discs, inodes and calls, from `IInv` (`DescramblerInvariant`). While all
  processes read one disc all seeds are of it, those in files too (`SeedsOfDisc`); a
  cached cipher is that of the seed (`CipherOfSeed`), which `register_seed` has to
  clear; and a call in progress has what it was begun with (`CallInOrder`).
* `CacheStaysWhole`: `[]CacheIsWhole`, from `FileInvariant`: as long as no two
  processes wrote at once, the inode that is being written is not the cache file,
  and only one is. The first two theorems make no such exception.

### Only model-checked

All liveness: `EventuallyDrained`, `Terminates`, `Packs`, `CommandEnds`. They hold under
fairness, of which the prover knows nothing. The violations of the runs `pair`, `wasm`,
`phase`, `progress`, `offset` and `tables` are traces of TLC. What is data for the
models (that `initialize` agrees with `Expand` on real words, the hashes, the
compression) is neither checked nor proved.

## Not modelled

* AES, SHA-1, zstd: functions of data. EDCs tell the right seed of the descrambler
  (a collision would need two seeds with the same EDC on one sector); `find_seed`
  called with a phase that is not that of its block.
* The bytes of headers and tables. The decoders do not check the header hashes
  that the encoder writes, so these have no effect.
* Short reads: a read is complete or fails.
* Chunk sizes other than `CHUNK_SIZE`; the encoder's second constant,
  `blocks_per_chunk`, agrees with it.
* The command line's `decode-push` (its loop is the fairness of `PushDecoder`), the sum
  of the container (`md5_file`), the JSON lines and argument errors. A followed file
  that is preallocated to its full size, which `FollowReader` cannot tell from a
  finished one.
* The order in which the partition tables become available: `Detect` reads them
  together once the last is there (`TableEnd`), or passes over any of them when one
  cannot be read.
* Panics on malformed bytes. A header, a table or a partition chunk that is too short
  is sliced without a check (`push.rs:191`, `push.rs:454`, `decoder.rs:113`,
  `decoder.rs:146`, `decoder.rs:413`) and ends the program; the models take it for a
  refusal. No property tells the two apart: `EventuallyDrained` and `SoundIsDecoded`
  are about sound containers, and the others hold of what was done until then.
* What a release build stores between the wrapped subtraction of a partition beyond
  the disc (`encoder.rs:147`) and its panic (`encoder.rs:519`): the model stops where a
  debug build does. No container is finished either way.
* The narrowing of group positions to 32 bits of words (`encoder.rs:725`): a container
  would have to pass 16 GiB, twice any disc.
* The binding's allocation, its accessors, and the keys that its JavaScript client
  has to match with outputs.

## Plan

1. Done: the format, both decoders with their abstract specification and the
   proofs that they implement it, the pair, the binding's `take_output`, the encoder
   with its ledger and layout, packing and payloads, the descrambler, the command
   line that composes encoder, reader and decoder.
2. Done: theorems for every safety property of the runs, up to the round trip of the
   command line.
3. The binding with its client: keys of delegated outputs, accessors between calls.
4. `decode-push`: the push decoder in the place of the pull decoder behind the encoder;
   `PushImplementsStream` and the lemmas about units carry over.
