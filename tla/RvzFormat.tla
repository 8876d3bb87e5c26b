----------------------------- MODULE RvzFormat -----------------------------
(***************************************************************************)
(* The RVZ container as its readers and its writer see it: regions of the  *)
(* disc image, cut into chunks ("groups" of the group table), partition    *)
(* regions also into hash groups of GroupBlocks blocks.  Sizes of          *)
(* partition data count blocks; raw offsets and sizes count bytes, scaled  *)
(* down to Block bytes a block.                                            *)
(***************************************************************************)
EXTENDS Integers, Sequences, FiniteSets

CONSTANTS Block,          \* BLOCK_TOTAL_SIZE: bytes of a block on the disc
          ChunkBlocks,    \* blocks in a chunk (chunk_size of the header)
          GroupBlocks,    \* BLOCKS_PER_GROUP: blocks that share a hash tree
          Keys,           \* title keys of the partitions
          NoKey           \* no key: of raw data, and of encrypted outputs

ASSUME FormatAssumption ==
  /\ Block \in Nat \ {0}
  /\ ChunkBlocks \in Nat \ {0}
  /\ GroupBlocks \in Nat \ {0}
  /\ NoKey \notin Keys

Chunk == ChunkBlocks * Block
Slots == 0 .. GroupBlocks - 1

Lesser(a, b) == IF a <= b THEN a ELSE b
CeilDiv(n, d) == (n + d - 1) \div d
AlignDown(x) == x - (x % Block)

(* Seeded bug: the difference taken as a signed number. *)
ExpectedSigned(total, k, unit) == Lesser(unit, total - k * unit)

(* Bytes (or blocks) the readers expect in unit k of a region cut into     *)
(* units of `unit': min(unit, total - k*unit) on u64, where a negative     *)
(* difference wraps to a huge number and the minimum is the unit.          *)
Expected(total, k, unit) ==
  IF k * unit > total THEN unit ELSE Lesser(unit, total - k * unit)

-----------------------------------------------------------------------------
(* Table entries.  A group is stored (its payload is named by its index),  *)
(* or all zero (stored size 0); `bad' marks a payload that does not        *)
(* decode, `ex' the blocks of the chunk that carry hash exceptions.        *)

RawEntries ==
  [kind : {"raw"}, key : {NoKey}, offset : Nat, size : Nat, gi : Nat, ng : Nat]
PartEntries ==
  [kind : {"part"}, key : Keys, fs : Nat, ns : Nat, gi : Nat, ng : Nat]
GroupEntries == [zero : BOOLEAN, bad : BOOLEAN, ex : SUBSET Nat]

(* A container: the partition table flattened to its data entries, the raw *)
(* table and the group table (group g of the tables is groups[g + 1]).     *)
Containers ==
  [parts : Seq(PartEntries), raws : Seq(RawEntries), groups : Seq(GroupEntries)]

(* Offset of the region's data on the disc, after the alignment that the   *)
(* chunks of a raw region undergo: the key the readers sort by.            *)
StartKey(e) == IF e.kind = "part" THEN e.fs * Block ELSE AlignDown(e.offset)

(* Bytes of a raw region counted from its aligned start.                   *)
LogicalSize(e) == e.size + (e.offset % Block)

(* What a writer guarantees of a table entry: it has the groups its size   *)
(* needs, and the group table has them.                                    *)
WellFormedEntry(e, groups) ==
  /\ e.gi + e.ng <= Len(groups)
  /\ e.ng = IF e.kind = "part" THEN CeilDiv(e.ns, ChunkBlocks)
                               ELSE CeilDiv(LogicalSize(e), Chunk)
WellFormed(f) ==
  /\ \A n \in DOMAIN f.parts : WellFormedEntry(f.parts[n], f.groups)
  /\ \A n \in DOMAIN f.raws : WellFormedEntry(f.raws[n], f.groups)

-----------------------------------------------------------------------------
(* The regions in the order of decoding: partition data entries with       *)
(* sectors, then raw entries, sorted by StartKey with a stable sort.       *)

Candidates(parts, raws) ==
  {<<0, n>> : n \in {m \in DOMAIN parts : parts[m].ns # 0}}
    \cup {<<1, n>> : n \in DOMAIN raws}

EntryAt(parts, raws, c) == IF c[1] = 0 THEN parts[c[2]] ELSE raws[c[2]]

Before(parts, raws, c, d) ==
  LET s == StartKey(EntryAt(parts, raws, c))
      t == StartKey(EntryAt(parts, raws, d))
  IN \/ s < t
     \/ s = t /\ (c[1] < d[1] \/ (c[1] = d[1] /\ c[2] < d[2]))

IsOrder(parts, raws, p) ==
  \A m, n \in DOMAIN p : m < n => Before(parts, raws, p[m], p[n])

Orders(parts, raws) ==
  LET S == Candidates(parts, raws)
  IN  {[n \in DOMAIN p |-> EntryAt(parts, raws, p[n])] :
        p \in {q \in [1 .. Cardinality(S) -> S] : IsOrder(parts, raws, q)}}

\* Seeded bug: a region without groups is entered like any other.
IsNextUnskipped(rs, r, q) == q = r

\* The first region from r on that has groups: regions without are skipped.
IsNextBusy(rs, r, q) ==
  /\ q \in r .. Len(rs) + 1
  /\ q <= Len(rs) => rs[q].ng > 0
  /\ \A p \in r .. q - 1 : rs[p].ng = 0

-----------------------------------------------------------------------------
(* Content.  A block (or raw chunk) of an output is named by the payload   *)
(* it came from, <<group, block of the chunk>>.                            *)

Empty == <<>>                    \* an unfilled slot of a hash group
Zeros == <<"zeros">>             \* a block of an all-zero chunk
Source(groups, g, b) == IF groups[g + 1].zero THEN Zeros ELSE <<g, b>>

Sources == {Empty, Zeros} \cup (Nat \X Nat)

(* An output of a decoder: where it goes, how long it is, the key that a   *)
(* delegated encryption has to use, its blocks with the hash exceptions    *)
(* applied to each, and the slots its hash tree was computed from.         *)
OutputRecords ==
  [offset : Nat, len : Nat, key : Keys \cup {NoKey},
   blocks : Seq([src : Sources, ex : SUBSET (Nat \X Nat)]),
   tree : [Slots -> Sources]]

NoTree == [s \in Slots |-> Empty]

RawOutput(e, k, src) ==
  [offset |-> AlignDown(e.offset) + k * Chunk,
   len |-> Expected(LogicalSize(e), k, Chunk),
   key |-> NoKey,
   blocks |-> <<[src |-> src, ex |-> {}]>>,
   tree |-> NoTree]
=============================================================================
