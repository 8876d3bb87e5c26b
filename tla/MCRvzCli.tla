------------------------------ MODULE MCRvzCli ------------------------------
(* Discs small enough to be followed block by block: blocks of two bytes,  *)
(* two blocks to a chunk and to a hash group of four.                      *)
EXTENDS RvzCliProps

CONSTANT K1

At(offset, dataOffset, dataSize, fst) ==
  [grp |-> 0, offset |-> offset, magic |-> TRUE, key |-> K1,
   dataOffset |-> dataOffset, dataSize |-> dataSize, fst |-> fst]

\* Without partitions; with a partition of three data windows and raw data
\* behind it; with a partition off the block boundaries; with one whose data
\* would lie beyond the disc.
Plain == [size |-> 9, wii |-> FALSE, table |-> <<>>]
Game == [size |-> 25, wii |-> TRUE, table |-> <<At(4, 2, 18, 3)>>]
Unaligned == [size |-> 13, wii |-> TRUE, table |-> <<At(5, 1, 6, 8)>>]
Beyond == [size |-> 9, wii |-> TRUE, table |-> <<At(4, 8, 4, 0)>>]

MCIsos == {Plain, Game, Unaligned, Beyond}
=============================================================================
