----------------------------- MODULE MCPacking -----------------------------
(* Chunks to pack: zeroes, then padding of a seed, then bytes that are not *)
(* padding, with one byte of the chunk changed or none, so that windows    *)
(* begin and padding ends at every place of a word and of a generation.    *)
EXTENDS PayloadProps

MCOffsets == {0, 8}
MCSkews == {-1, 0, 1}
Size == 24

\* The chunk of a disc with padding of the seed in from .. to - 1.
Image(o, seed, from, to) ==
  [x \in 0 .. Size - 1 |->
     IF x < from THEN 0
     ELSE IF x < to THEN Stream(seed, (o + x) % Block) ELSE (x % 3) % 2]

Flip(bytes, x) == [y \in 0 .. Size - 1 |-> IF y = x THEN 1 - bytes[y] ELSE bytes[y]]

MCSeeds == {{0, 3}, {2, 3}, {1}}
Padded == {[offset |-> o, from |-> f, to |-> t, size |-> Size, bytes |-> Image(o, s, f, t)] :
            o \in MCOffsets, s \in MCSeeds, f \in {0, 3, 11}, t \in {19, 24}}

MCPads == Padded
MCChunks ==
  {[size |-> Size, bytes |-> b] :
    b \in {Image(8, {0, 3}, 24, 24)} \cup UNION {{p.bytes} \cup {Flip(p.bytes, x) : x \in 0 .. Size - 1} : p \in Padded}}

\* Headers of a block: two areas of hashes, the second of which is not a
\* multiple of a hash.
MCAreas == {[base |-> 0, size |-> 4], [base |-> 4, size |-> 3]}
MCNoDifference == [b \in 0 .. 1 |-> {}]
MCDifferences ==
  {[MCNoDifference EXCEPT ![b] = d] : b \in 0 .. 1, d \in SUBSET (0 .. 6)}
    \cup {[b \in 0 .. 1 |-> IF b = 0 THEN {6} ELSE {0, 6}]}
MCSampled == {[size |-> Size, bytes |-> Image(8, {0, 3}, 3, 24)],
              [size |-> Size, bytes |-> Image(8, {0, 3}, 24, 24)]}
=============================================================================
