----------------------------- MODULE DiscStream -----------------------------
(***************************************************************************)
(* What decoding a container promises, whoever does the reading: the image *)
(* arrives as a stream of outputs, one for each chunk of a raw region and  *)
(* one for each hash group of a partition region, region after region in   *)
(* the order of their place on the disc, each output once and computed     *)
(* from exactly the chunks it covers.                                      *)
(***************************************************************************)
EXTENDS RvzFormat

CONSTANT Files

VARIABLES file,      \* the container
          delegate,  \* partition blocks leave unencrypted, with their key
          regions,   \* <<>> until the tables are known
          position,  \* <<region, output of the region>> that comes next
          queue,     \* outputs produced and not yet taken
          closed     \* nothing more will come

vars == <<file, delegate, regions, position, queue, closed>>

OutputsOf(e) == IF e.kind = "part" THEN CeilDiv(e.ns, GroupBlocks) ELSE e.ng

Start == <<0, 0>>
EndOf(rs) == <<Len(rs) + 1, 0>>

\* q is the first output of a region from r on, or the end.
IsFirstFrom(rs, r, q) ==
  \E s \in r .. Len(rs) + 1 :
    /\ q = <<s, 0>>
    /\ s <= Len(rs) => OutputsOf(rs[s]) > 0
    /\ \A t \in r .. s - 1 : OutputsOf(rs[t]) = 0

IsNext(rs, p, q) ==
  IF p[2] + 1 < OutputsOf(rs[p[1]]) THEN q = <<p[1], p[2] + 1>>
                                    ELSE IsFirstFrom(rs, p[1] + 1, q)

\* Hash group k of the partition region e: its blocks and their chunks.
PartOutput(e, k) ==
  LET first    == k * GroupBlocks
      n        == Lesser(GroupBlocks, e.ns - first)
      group(b) == e.gi + (first + b) \div ChunkBlocks
      chunkBlock(b) == (first + b) % ChunkBlocks
      src(b)   == Source(file.groups, group(b), chunkBlock(b))
      ex(b)    == IF chunkBlock(b) \in file.groups[group(b) + 1].ex
                    THEN {<<group(b), chunkBlock(b)>>} ELSE {}
  IN  [offset |-> (e.fs + first) * Block,
       len    |-> n * Block,
       key    |-> IF delegate THEN e.key ELSE NoKey,
       blocks |-> [b \in 1 .. n |-> [src |-> src(b - 1), ex |-> ex(b - 1)]],
       tree   |-> [s \in Slots |-> IF s < n THEN src(s) ELSE Empty]]

OutputAt(rs, p) ==
  LET e == rs[p[1]]
  IN  IF e.kind = "part" THEN PartOutput(e, p[2])
      ELSE RawOutput(e, p[2], Source(file.groups, e.gi + p[2], 0))

Init ==
  /\ file \in Files
  /\ delegate \in BOOLEAN
  /\ regions = <<>>
  /\ position = Start
  /\ queue = <<>>
  /\ closed = FALSE

\* The tables are read.
Open ==
  /\ position = Start
  /\ regions' \in Orders(file.parts, file.raws)
  /\ IsFirstFrom(regions', 1, position')
  /\ closed' = (position' = EndOf(regions'))
  /\ UNCHANGED <<file, delegate, queue>>

Produce ==
  /\ position \notin {Start, EndOf(regions)}
  /\ queue' = Append(queue, OutputAt(regions, position))
  /\ IsNext(regions, position, position')
  /\ closed' = (position' = EndOf(regions))
  /\ UNCHANGED <<file, delegate, regions>>

Take ==
  /\ queue # <<>>
  /\ queue' = Tail(queue)
  /\ UNCHANGED <<file, delegate, regions, position, closed>>

Next == Open \/ Produce \/ Take

Spec == Init /\ [][Next]_vars
=============================================================================
