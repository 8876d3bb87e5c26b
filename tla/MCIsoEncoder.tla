---------------------------- MODULE MCIsoEncoder ----------------------------
(* Discs to check the encoder on, with blocks of two bytes, two blocks to  *)
(* a chunk and four to a hash group.                                       *)
EXTENDS IsoEncoderProps

CONSTANTS K1, K2

At(grp, offset, magic, key, dataOffset, dataSize, fst) ==
  [grp |-> grp, offset |-> offset, magic |-> magic, key |-> key,
   dataOffset |-> dataOffset, dataSize |-> dataSize, fst |-> fst]
Disc(size, found) == [size |-> size, wii |-> TRUE, table |-> found]

\* A disc without partitions, and one whose size is not known yet.
Plain == [size |-> 9, wii |-> FALSE, table |-> <<>>]
Nothing == [size |-> 0, wii |-> FALSE, table |-> <<>>]
NoTable == Disc(2, <<At(0, 0, TRUE, K1, 0, 2, 0)>>)

\* A partition whose second data entry has a partial window, whose data does
\* not fill its last block, and raw data behind it.
Game == Disc(31, <<At(0, 4, TRUE, K1, 2, 19, 3)>>)

\* Two tables out of order: a partition that reaches past the disc, one with
\* a candidate in its data, one that is none and one past the end.
Tables == Disc(23, <<At(1, 12, TRUE, K2, 2, 40, 9), At(0, 4, TRUE, K1, 2, 4, 0),
                     At(0, 7, TRUE, K1, 1, 4, 0), At(1, 10, FALSE, K1, 0, 0, 0),
                     At(1, 30, TRUE, K1, 0, 4, 0)>>)

\* Candidates off the block boundaries and in the disc header, a duplicate.
Unaligned == Disc(17, <<At(0, 0, FALSE, K1, 0, 0, 0), At(0, 3, FALSE, K1, 0, 0, 0),
                        At(0, 7, TRUE, K2, 1, 6, 8), At(1, 7, TRUE, K1, 1, 6, 8)>>)

\* A partition whose data begins past the end of the disc.
Beyond == Disc(9, <<At(0, 4, TRUE, K1, 8, 4, 0)>>)

\* A data offset that does not fit in 32 bits.
Far == Disc(17, <<At(0, 4, TRUE, K1, 10, 2, 0)>>)

\* Four chunks: a group table of as many bytes as it may compress to.
Four == [size |-> 15, wii |-> FALSE, table |-> <<>>]

MCIsos == {Plain, Nothing, NoTable, Game, Tables, Unaligned, Beyond}
MCUnaligned == {Unaligned}
MCFar == {Far}
MCFour == {Four}
=============================================================================
