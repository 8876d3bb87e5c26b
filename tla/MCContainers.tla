---------------------------- MODULE MCContainers ----------------------------
(* Containers to check the readers on, with blocks of two bytes, two       *)
(* blocks to a chunk and four to a hash group.                             *)
EXTENDS RvzFormat

CONSTANTS K1, K2

Raw(offset, size, gi, ng) ==
  [kind |-> "raw", key |-> NoKey, offset |-> offset, size |-> size,
   gi |-> gi, ng |-> ng]
Part(key, fs, ns, gi, ng) ==
  [kind |-> "part", key |-> key, fs |-> fs, ns |-> ns, gi |-> gi, ng |-> ng]
Stored(ex) == [zero |-> FALSE, bad |-> FALSE, ex |-> ex]
AllZero == [zero |-> TRUE, bad |-> FALSE, ex |-> {}]
Broken == [zero |-> FALSE, bad |-> TRUE, ex |-> {}]

\* A disc whose first raw region skips the disc header, then a partition
\* whose second data entry ends in a partial chunk and a partial hash group.
Disc ==
  [parts |-> <<Part(K1, 4, 4, 2, 2), Part(K1, 8, 7, 4, 4)>>,
   raws  |-> <<Raw(1, 7, 0, 2), Raw(30, 3, 8, 1)>>,
   groups |-> <<Stored({}), AllZero, Stored({0}), Stored({1}), Stored({0, 1}),
                AllZero, Stored({}), Stored({0}), Stored({})>>]

\* Two partitions out of order in the table, an empty data entry, a raw
\* entry without groups, two regions that start in the same block.
Shuffled ==
  [parts |-> <<Part(K2, 6, 2, 3, 1), Part(K2, 8, 0, 0, 0),
               Part(K1, 2, 3, 0, 2), Part(K1, 5, 1, 2, 1)>>,
   raws  |-> <<Raw(11, 1, 4, 1), Raw(0, 0, 5, 0)>>,
   groups |-> <<Stored({1}), Stored({0}), AllZero, Stored({0}), Stored({})>>]

\* A plain disc without partitions, read through raw regions only.
Plain ==
  [parts |-> <<>>, raws |-> <<Raw(4, 4, 1, 1), Raw(0, 4, 0, 1)>>,
   groups |-> <<AllZero, Stored({})>>]

Nothing == [parts |-> <<>>, raws |-> <<>>, groups |-> <<>>]

\* A group that does not decode in the middle of a hash group.
Damaged ==
  [parts |-> <<Part(K1, 0, 4, 0, 2)>>, raws |-> <<>>,
   groups |-> <<Stored({0}), Broken>>]

\* Tables that name groups the group table does not have.
Dangling ==
  [parts |-> <<>>, raws |-> <<Raw(0, 4, 0, 1), Raw(4, 8, 1, 2)>>,
   groups |-> <<Stored({}), Stored({})>>]

\* Entries that claim more groups than their size needs.
Overlong ==
  [parts |-> <<Part(K1, 2, 3, 1, 3)>>, raws |-> <<Raw(0, 2, 0, 1), Raw(14, 1, 0, 2)>>,
   groups |-> <<Stored({}), Stored({0}), Stored({}), Stored({1})>>]

\* A raw entry that claims one group more than its size fills.
ExtraGroup ==
  [parts |-> <<>>, raws |-> <<Raw(0, 4, 0, 2), Raw(4, 2, 1, 1)>>,
   groups |-> <<Stored({}), AllZero>>]

\* A partition of three hash groups after a raw region of three chunks.
Long ==
  [parts |-> <<Part(K2, 5, 9, 3, 5)>>, raws |-> <<Raw(1, 9, 0, 3)>>,
   groups |-> <<AllZero, Stored({}), Stored({}), Stored({0}), AllZero,
                Stored({1}), Stored({0, 1}), Stored({})>>]

MCFiles == {Disc, Shuffled, Plain, Nothing, Damaged, Dangling, Overlong,
            ExtraGroup, Long}
=============================================================================
