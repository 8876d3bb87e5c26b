-------------------------- MODULE HashGroup_proofs --------------------------
(* Facts about the container format, about the buffers of a hash group and *)
(* about outputs that the proofs of the decoders and the encoder cite.     *)
EXTENDS HashGroup, Sums_proofs, FunctionTheorems, SequenceTheorems

(* The u64 arithmetic of `expected' (decoder.rs and push.rs) never leaves  *)
(* the range of one unit, even when the subtraction wraps.                 *)
LEMMA ExpectedRange ==
  ASSUME NEW total \in Nat, NEW k \in Nat, NEW unit \in Nat \ {0}
  PROVE  Expected(total, k, unit) \in 0 .. unit
<1> DEFINE p == k * unit
<1>1. p \in Nat
  OBVIOUS
<1> HIDE DEF p
<1>2. QED
  BY <1>1 DEF Expected, Lesser, p

-----------------------------------------------------------------------------
(* Division with remainder, for slots and chunks counted modulo a size.    *)

LEMMA DivMod ==
  ASSUME NEW n \in Nat, NEW d \in Nat \ {0}
  PROVE  n = d * (n \div d) + (n % d) /\ n % d \in 0 .. d - 1 /\ n \div d \in Nat
OBVIOUS

LEMMA DivModUnique ==
  ASSUME NEW d \in Nat \ {0}, NEW q \in Int, NEW p \in Int,
         NEW r \in 0 .. d - 1, NEW s \in 0 .. d - 1, d * q + r = d * p + s
  PROVE  q = p /\ r = s
<1>1. d * (q - p) = s - r /\ s - r < d /\ s - r > -d
  OBVIOUS
<1>2. CASE q - p >= 1
  <2>1. d * (q - p) >= d
    BY <1>2
  <2>2. QED
    BY <1>1, <2>1
<1>3. CASE q - p <= -1
  <2>1. d * (q - p) <= -d
    BY <1>3
  <2>2. QED
    BY <1>1, <2>1
<1>4. QED
  BY <1>1, <1>2, <1>3

(* Whole turns around the slots do not change the slot.                    *)
LEMMA ModTurns ==
  ASSUME NEW n \in Nat, NEW d \in Nat \ {0}, NEW k \in Nat
  PROVE  (n + k * d) % d = n % d
<1> DEFINE m == n + k * d
           q == n \div d
           p == m \div d
           r == n % d
           s == m % d
<1>1. k * d \in Nat
  OBVIOUS
<1>2. n = d * q + r /\ r \in 0 .. d - 1 /\ q \in Nat
  BY DivMod
<1>3. m = d * p + s /\ s \in 0 .. d - 1 /\ p \in Nat
  <2>1. m \in Nat
    BY <1>1
  <2> HIDE DEF m
  <2>2. QED
    BY <2>1, DivMod
<1> HIDE DEF q, p, r, s
<1>4. d * (q + k) + r = d * p + s /\ q + k \in Int
  BY <1>2, <1>3
<1>5. r = s
  BY <1>2, <1>3, <1>4, DivModUnique
<1>6. QED
  BY <1>5 DEF r, s

(* A slot counted from the start of a group.                               *)
LEMMA ModFromMultiple ==
  ASSUME NEW n \in Nat, NEW d \in Nat \ {0}, n % d = 0, NEW s \in 0 .. d - 1
  PROVE  (n + s) % d = s
OBVIOUS

-----------------------------------------------------------------------------
(* How many units a size fills (div_ceil).                                 *)

LEMMA TimesMonotone ==
  ASSUME NEW d \in Nat, NEW a \in Int, NEW b \in Int, a <= b
  PROVE  d * a <= d * b
<1>1. d * (b - a) >= 0
  OBVIOUS
<1>2. QED
  BY <1>1

LEMMA CeilDivBounds ==
  ASSUME NEW n \in Nat, NEW d \in Nat \ {0}
  PROVE  /\ CeilDiv(n, d) \in Nat
         /\ d * CeilDiv(n, d) >= n
         /\ d * CeilDiv(n, d) < n + d
<1> DEFINE m == n + d - 1
<1>1. m \in Nat
  OBVIOUS
<1>2. m = d * (m \div d) + (m % d) /\ m % d \in 0 .. d - 1 /\ m \div d \in Nat
  <2> HIDE DEF m
  <2>1. QED
    BY <1>1, DivMod
<1> DEFINE q == m \div d
           r == m % d
           p == d * q
<1>3. p \in Int /\ m = p + r /\ r \in 0 .. d - 1 /\ q \in Nat
  BY <1>2
<1>4. CeilDiv(n, d) = q
  BY DEF CeilDiv
<1> HIDE DEF q, r
<1>5. p >= n /\ p < n + d
  <2> HIDE DEF p
  <2>1. QED
    BY <1>3
<1>6. QED
  BY <1>3, <1>4, <1>5

(* Unit k exists when it begins inside the size.                           *)
LEMMA CeilDivUnit ==
  ASSUME NEW n \in Nat, NEW d \in Nat \ {0}, NEW k \in Nat
  PROVE  k < CeilDiv(n, d) <=> k * d < n
<1> DEFINE m == CeilDiv(n, d)
<1>1. m \in Nat /\ d * m >= n /\ d * m < n + d
  BY CeilDivBounds
<1> HIDE DEF m
<1>2. CASE k < m
  <2>1. d * k <= d * (m - 1)
    BY <1>1, <1>2, TimesMonotone
  <2>2. d * k <= d * m - d
    BY <1>1, <2>1
  <2>3. QED
    BY <1>1, <1>2, <2>2 DEF m
<1>3. CASE k >= m
  <2>1. d * m <= d * k
    BY <1>1, <1>3, TimesMonotone
  <2>2. QED
    BY <1>1, <1>3, <2>1 DEF m
<1>4. QED
  BY <1>1, <1>2, <1>3

(* Whole blocks fill the same number of chunks, counted in bytes or blocks. *)
LEMMA CeilDivScaled ==
  ASSUME NEW n \in Nat, NEW d \in Nat \ {0}, NEW b \in Nat \ {0}
  PROVE  CeilDiv(n * b, d * b) = CeilDiv(n, d)
<1> DEFINE m == CeilDiv(n, d)
           l == CeilDiv(n * b, d * b)
<1>1. n * b \in Nat /\ d * b \in Nat \ {0}
  OBVIOUS
<1>2. m \in Nat /\ l \in Nat
  BY <1>1, CeilDivBounds
<1>3. ASSUME NEW k \in Nat
      PROVE  k < l <=> k < m
  <2>1. k < l <=> k * (d * b) < n * b
    <3> DEFINE nb == n * b
               db == d * b
    <3>1. nb \in Nat /\ db \in Nat \ {0}
      BY <1>1
    <3> HIDE DEF nb, db
    <3>2. k < CeilDiv(nb, db) <=> k * db < nb
      BY <3>1, CeilDivUnit
    <3>3. QED
      BY <3>2 DEF nb, db
  <2>2. k < m <=> k * d < n
    BY CeilDivUnit
  <2> DEFINE x == k * d
  <2>3. x \in Nat /\ k * (d * b) = x * b
    OBVIOUS
  <2> HIDE DEF x
  <2>4. x * b < n * b <=> x < n
    <3>1. x < n => b * x <= b * (n - 1)
      BY <2>3, TimesMonotone
    <3>2. x >= n => b * n <= b * x
      BY <2>3, TimesMonotone
    <3>3. b * (n - 1) = n * b - b /\ b * x = x * b /\ b * n = n * b
      BY <2>3
    <3>4. QED
      BY <2>3, <3>1, <3>2, <3>3
  <2>5. QED
    BY <2>1, <2>2, <2>3, <2>4 DEF x
<1> HIDE DEF l, m
<1>4. ~ (m < l) /\ ~ (l < m)
  BY <1>2, <1>3
<1>5. l = m
  BY <1>2, <1>4
<1>6. QED
  BY <1>5 DEF l, m

-----------------------------------------------------------------------------
LEMMA CandidatesFinite ==
  ASSUME NEW P, NEW R, NEW parts \in Seq(P), NEW raws \in Seq(R)
  PROVE  IsFiniteSet(Candidates(parts, raws))
<1> DEFINE L == Len(parts)
           T == {<<0, n>> : n \in 1 .. L} \cup {<<1, n>> : n \in 1 .. Len(raws)}
           f == [n \in 1 .. L + Len(raws) |->
                   IF n <= L THEN <<0, n>> ELSE <<1, n - L>>]
<1>1. L \in Nat /\ Len(raws) \in Nat /\ DOMAIN parts = 1 .. L /\ DOMAIN raws = 1 .. Len(raws)
  BY LenProperties
<1>2. f \in Surjection(1 .. L + Len(raws), T)
  <2>1. f \in [1 .. L + Len(raws) -> T]
    BY <1>1
  <2>2. ASSUME NEW t \in T
        PROVE  \E n \in 1 .. L + Len(raws) : f[n] = t
    <3>1. CASE \E n \in 1 .. L : t = <<0, n>>
      <4>1. PICK n \in 1 .. L : t = <<0, n>>
        BY <3>1
      <4>2. n \in 1 .. L + Len(raws) /\ n <= L
        BY <1>1
      <4>3. f[n] = t
        BY <4>1, <4>2
      <4>4. QED
        BY <4>2, <4>3
    <3>2. CASE \E n \in 1 .. Len(raws) : t = <<1, n>>
      <4>1. PICK n \in 1 .. Len(raws) : t = <<1, n>>
        BY <3>2
      <4>2. n + L \in 1 .. L + Len(raws) /\ ~ (n + L <= L) /\ n + L - L = n
        BY <1>1
      <4>3. f[n + L] = t
        BY <4>1, <4>2
      <4>4. QED
        BY <4>2, <4>3
    <3>3. QED
      BY <2>2, <3>1, <3>2
  <2>3. QED
    BY <2>1, <2>2 DEF Surjection
<1>3. IsFiniteSet(T)
  BY <1>1, <1>2, FS_Surjection, FS_Interval
<1>4. Candidates(parts, raws) \in SUBSET T
  BY <1>1 DEF Candidates
<1>5. QED
  BY <1>3, <1>4, FS_Subset

(* Sorting the regions yields a sequence of the entries of the two tables. *)
LEMMA OrdersType ==
  ASSUME NEW P, NEW R, NEW parts \in Seq(P), NEW raws \in Seq(R),
         NEW rs \in Orders(parts, raws)
  PROVE  rs \in Seq(P \cup R)
<1> DEFINE S == Candidates(parts, raws)
           n == Cardinality(S)
<1>1. n \in Nat
  BY CandidatesFinite, FS_CardinalityType
<1>2. PICK p \in [1 .. n -> S] : rs = [m \in DOMAIN p |-> EntryAt(parts, raws, p[m])]
  BY DEF Orders
<1>3. \A c \in S : EntryAt(parts, raws, c) \in P \cup R
  BY LenProperties DEF Candidates, EntryAt
<1>4. rs \in [1 .. n -> P \cup R]
  BY <1>2, <1>3
<1>5. QED
  BY <1>1, <1>4

-----------------------------------------------------------------------------
(* The buffers of a hash group.                                            *)

RegionEntries == PartEntries \cup RawEntries

(* The buffer starts on a group boundary and every block received since    *)
(* fills its slot.                                                         *)
Gapless(ps) ==
  /\ ps.groupStart % GroupBlocks = 0
  /\ ps.groupStart <= ps.blockIndex
  /\ \A b \in ps.groupStart .. ps.blockIndex - 1 : ps.blocks[b % GroupBlocks] # Empty

LEMMA PartTypes ==
  ASSUME NEW ps \in PartStates
  PROVE  /\ ps.on \in BOOLEAN /\ ps.i \in Nat /\ ps.blockIndex \in Nat
         /\ ps.groupStart \in Nat
         /\ ps.blocks \in [Slots -> Sources]
         /\ ps.ex \in [Slots -> SUBSET (Nat \X Nat)]
BY DEF PartStates

(* A fresh partition state has nothing to miss.                            *)
LEMMA PartStartGapless ==
  /\ PartStart \in PartStates /\ NoPart \in PartStates
  /\ PartStart.on /\ ~ NoPart.on /\ PartStart.i = 0
  /\ Gapless(PartStart)
<1>1. /\ PartStart \in PartStates /\ NoPart \in PartStates
      /\ PartStart.on /\ ~ NoPart.on /\ PartStart.i = 0
      /\ PartStart.groupStart = 0 /\ PartStart.blockIndex = 0
  BY DEF PartStart, NoPart, PartStates, NoTree, Sources
<1>2. 0 % GroupBlocks = 0
  BY FormatAssumption
<1>3. QED
  BY <1>1, <1>2 DEF Gapless

LEMMA PayloadType ==
  ASSUME NEW x, NEW g \in Nat, NEW b \in Nat
  PROVE  Payload(x, g, b) \in Sources
BY DEF Payload, Sources

(* An output of a raw chunk has the type of outputs.                       *)
LEMMA RawOutputType ==
  ASSUME NEW e \in RawEntries, NEW k \in Nat, NEW src \in Sources
  PROVE  RawOutput(e, k, src) \in OutputRecords
<1>1. e.offset \in Nat /\ e.size \in Nat
  BY DEF RawEntries
<1>2. Chunk \in Nat \ {0}
  BY FormatAssumption DEF Chunk
<1>3. e.offset % Block \in Nat /\ AlignDown(e.offset) \in Nat
  BY <1>1, FormatAssumption DEF AlignDown
<1>4. LogicalSize(e) \in Nat
  BY <1>1, <1>3 DEF LogicalSize
<1>5. Expected(LogicalSize(e), k, Chunk) \in Nat
  BY <1>2, <1>4, ExpectedRange
<1>6. AlignDown(e.offset) + k * Chunk \in Nat
  BY <1>2, <1>3
<1>7. NoTree \in [Slots -> Sources]
  BY DEF NoTree, Sources
<1>8. <<[src |-> src, ex |-> {}]>> \in Seq([src : Sources, ex : SUBSET (Nat \X Nat)])
  OBVIOUS
<1>9. QED
  BY <1>5, <1>6, <1>7, <1>8 DEF RawOutput, OutputRecords

(* A chunk of a partition fills at most ChunkBlocks further blocks.        *)
LEMMA FilledType ==
  ASSUME NEW ps \in PartStates, NEW x, NEW g \in Nat, NEW n \in Nat
  PROVE  /\ Filled(ps, x, g, n) \in PartStates
         /\ Filled(ps, x, g, n).i = ps.i + 1
         /\ Filled(ps, x, g, n).on = ps.on
<1> DEFINE slot(b) == (ps.blockIndex + b) % GroupBlocks
           last(s) == {b \in 0 .. n - 1 : slot(b) = s /\ b + GroupBlocks >= n}
           marked(s) == {b \in 0 .. n - 1 : slot(b) = s /\ b \in x.ex}
           bs == [s \in Slots |-> IF last(s) = {} THEN ps.blocks[s]
                                   ELSE Payload(x, g, CHOOSE b \in last(s) : TRUE)]
           xs == [s \in Slots |-> ps.ex[s] \cup {<<g, b>> : b \in marked(s)}]
<1>1. Filled(ps, x, g, n) = [on |-> ps.on, i |-> ps.i + 1, blockIndex |-> ps.blockIndex + n,
                          groupStart |-> ps.groupStart, blocks |-> bs, ex |-> xs]
  BY DEF Filled
<1>2. bs \in [Slots -> Sources]
  <2>1. ASSUME NEW s \in Slots, last(s) # {}
        PROVE  Payload(x, g, CHOOSE b \in last(s) : TRUE) \in Sources
    <3>1. (CHOOSE b \in last(s) : TRUE) \in last(s)
      BY <2>1
    <3>2. (CHOOSE b \in last(s) : TRUE) \in Nat
      BY <3>1
    <3>3. QED
      BY <3>2, PayloadType
  <2>2. \A s \in Slots : ps.blocks[s] \in Sources
    BY PartTypes
  <2>3. QED
    BY <2>1, <2>2
<1>3. xs \in [Slots -> SUBSET (Nat \X Nat)]
  <2>1. ASSUME NEW s \in Slots
        PROVE  ps.ex[s] \cup {<<g, b>> : b \in marked(s)} \in SUBSET (Nat \X Nat)
    BY PartTypes
  <2>2. QED
    BY <2>1
<1> HIDE DEF bs, xs
<1>4. QED
  BY <1>1, <1>2, <1>3, PartTypes DEF PartStates

LEMMA ClearedType ==
  ASSUME NEW ps \in PartStates
  PROVE  /\ Cleared(ps) \in PartStates
         /\ Cleared(ps).i = ps.i /\ Cleared(ps).on = ps.on
BY DEF Cleared, PartStates, NoTree, Sources

LEMMA GroupOutputType ==
  ASSUME NEW ps \in PartStates, NEW e \in PartEntries,
         NEW k \in Keys \cup {NoKey}, GroupLength(ps) > 0
  PROVE  GroupOutput(ps, e, k) \in OutputRecords
<1>1. e.fs \in Nat
  BY DEF PartEntries
<1>2. GroupLength(ps) \in 1 .. GroupBlocks
  BY FormatAssumption, PartTypes DEF GroupLength, Lesser
<1>3. \A b \in 1 .. GroupLength(ps) :
        [src |-> ps.blocks[b - 1], ex |-> ps.ex[b - 1]]
          \in [src : Sources, ex : SUBSET (Nat \X Nat)]
  <2>1. \A b \in 1 .. GroupLength(ps) : b - 1 \in Slots
    BY <1>2, FormatAssumption DEF Slots
  <2>2. QED
    BY <2>1, PartTypes
<1>4. [b \in 1 .. GroupLength(ps) |-> [src |-> ps.blocks[b - 1], ex |-> ps.ex[b - 1]]]
        \in Seq([src : Sources, ex : SUBSET (Nat \X Nat)])
  <2> DEFINE R == [src : Sources, ex : SUBSET (Nat \X Nat)]
             cell(b) == [src |-> ps.blocks[b - 1], ex |-> ps.ex[b - 1]]
  <2>1. GroupLength(ps) \in Nat
    BY <1>2
  <2>2. \A b \in 1 .. GroupLength(ps) : cell(b) \in R
    BY <1>3
  <2> HIDE DEF R, cell
  <2>3. [b \in 1 .. GroupLength(ps) |-> cell(b)] \in Seq(R)
    BY <2>1, <2>2
  <2>4. QED
    BY <2>3 DEF R, cell
<1>5. e.fs * Block + ps.groupStart * Block \in Nat /\ GroupLength(ps) * Block \in Nat
  BY <1>1, <1>2, FormatAssumption, PartTypes
<1>6. QED
  BY <1>1, <1>4, <1>5, PartTypes DEF GroupOutput, OutputFrom, OutputRecords

(* Each block of a chunk is the last one put into its slot, or a later     *)
(* block of the chunk is: the slot ends up filled either way.              *)
LEMMA FilledGapless ==
  ASSUME NEW ps \in PartStates, NEW x, NEW g \in Nat, NEW n \in Nat, Gapless(ps)
  PROVE  Gapless(Filled(ps, x, g, n))
<1> DEFINE slot(b) == (ps.blockIndex + b) % GroupBlocks
           last(s) == {b \in 0 .. n - 1 : slot(b) = s /\ b + GroupBlocks >= n}
           bs == Filled(ps, x, g, n).blocks
<1>1. /\ ps.blockIndex \in Nat /\ ps.groupStart \in Nat /\ GroupBlocks \in Nat \ {0}
  BY PartTypes, FormatAssumption
<1>2. /\ Filled(ps, x, g, n).groupStart = ps.groupStart
      /\ Filled(ps, x, g, n).blockIndex = ps.blockIndex + n
      /\ \A s \in Slots : bs[s] = IF last(s) = {} THEN ps.blocks[s]
                                   ELSE Payload(x, g, CHOOSE b \in last(s) : TRUE)
  BY DEF Filled
<1>3. \A b : Payload(x, g, b) # Empty
  BY DEF Payload, Empty, Zeros
<1>4. \A b \in Nat : b % GroupBlocks \in Slots
  BY <1>1, DivMod DEF Slots
<1>5. ASSUME NEW b \in ps.groupStart .. ps.blockIndex - 1
      PROVE  bs[b % GroupBlocks] # Empty
  <2>1. b \in Nat /\ ps.blocks[b % GroupBlocks] # Empty
    BY <1>1 DEF Gapless
  <2>2. QED
    <3> DEFINE s == b % GroupBlocks
    <3>1. s \in Slots /\ ps.blocks[s] # Empty
      BY <1>4, <2>1
    <3> HIDE DEF s
    <3>2. bs[s] # Empty
      BY <1>2, <1>3, <3>1
    <3>3. QED
      BY <3>2 DEF s
<1>6. ASSUME NEW j \in 0 .. n - 1
      PROVE  bs[slot(j)] # Empty
  <2> DEFINE k == (n - 1 - j) \div GroupBlocks
             r == (n - 1 - j) % GroupBlocks
             l == j + k * GroupBlocks
  <2>1. n - 1 - j \in Nat /\ j \in Nat /\ ps.blockIndex + j \in Nat
    BY <1>1
  <2>2. /\ n - 1 - j = GroupBlocks * k + r /\ r \in 0 .. GroupBlocks - 1
        /\ k \in Nat
    BY <1>1, <2>1, DivMod
  <2> HIDE DEF k, r
  <2>3. k * GroupBlocks \in Nat /\ k * GroupBlocks = GroupBlocks * k
    BY <1>1, <2>2
  <2>4. l = n - 1 - r /\ l \in Nat
    BY <2>1, <2>2, <2>3
  <2>5. l \in 0 .. n - 1 /\ l + GroupBlocks >= n
    BY <1>1, <2>2, <2>3, <2>4
  <2>6. slot(l) = slot(j)
    <3>1. ps.blockIndex + l = (ps.blockIndex + j) + k * GroupBlocks
      BY <1>1, <2>1, <2>3
    <3>2. ((ps.blockIndex + j) + k * GroupBlocks) % GroupBlocks
            = (ps.blockIndex + j) % GroupBlocks
      BY <1>1, <2>1, <2>2, ModTurns
    <3> HIDE DEF l
    <3>3. QED
      BY <3>1, <3>2
  <2>7. l \in last(slot(j))
    BY <2>5, <2>6
  <2>8. slot(j) \in Slots
    BY <1>4, <2>1
  <2>9. QED
    BY <1>2, <1>3, <2>7, <2>8
<1>7. ASSUME NEW b \in ps.groupStart .. (ps.blockIndex + n) - 1
      PROVE  bs[b % GroupBlocks] # Empty
  <2>1. CASE b < ps.blockIndex
    BY <1>1, <1>5, <2>1
  <2>2. CASE b >= ps.blockIndex
    <3>1. b - ps.blockIndex \in 0 .. n - 1 /\ ps.blockIndex + (b - ps.blockIndex) = b
      BY <1>1, <2>2
    <3>2. QED
      BY <1>6, <3>1
  <2>3. QED
    BY <1>1, <2>1, <2>2
<1>8. QED
  BY <1>1, <1>2, <1>7 DEF Gapless

(* So finalize_group finds every slot it reads filled.                     *)
LEMMA GaplessFinalizable ==
  ASSUME NEW ps \in PartStates, Gapless(ps)
  PROVE  Finalizable(ps)
<1>1. /\ ps.blockIndex \in Nat /\ ps.groupStart \in Nat /\ GroupBlocks \in Nat \ {0}
  BY PartTypes, FormatAssumption
<1>2. ASSUME NEW s \in 0 .. GroupLength(ps) - 1
      PROVE  ps.blocks[s] # Empty
  <2>1. s \in 0 .. GroupBlocks - 1 /\ s < ps.blockIndex - ps.groupStart
    BY <1>1 DEF GroupLength, Lesser, Gapless
  <2>2. (ps.groupStart + s) % GroupBlocks = s
    BY <1>1, <2>1, ModFromMultiple DEF Gapless
  <2>3. ps.groupStart + s \in ps.groupStart .. ps.blockIndex - 1
    BY <1>1, <2>1
  <2>4. QED
    BY <2>2, <2>3 DEF Gapless
<1>3. QED
  BY <1>2 DEF Finalizable

(* Once cleared on a boundary, the buffer starts on a boundary again.      *)
LEMMA ClearedGapless ==
  ASSUME NEW ps \in PartStates, ps.blockIndex % GroupBlocks = 0
  PROVE  Gapless(Cleared(ps))
<1>1. /\ Cleared(ps).groupStart = ps.blockIndex
      /\ Cleared(ps).blockIndex = ps.blockIndex
      /\ ps.blockIndex \in Nat
  BY PartTypes DEF Cleared, PartStates
<1>2. QED
  BY <1>1 DEF Gapless

-----------------------------------------------------------------------------
(* What the buffers hold of a well-formed region whose hash groups are     *)
(* whole numbers of chunks: the blocks received since the group began,     *)
(* each in its slot and with the exceptions of its own chunk.              *)

ChunksFillGroups == GroupBlocks % ChunkBlocks = 0

\* Slot s of the buffers, filled or not, in the region of the entry e.
SlotExact(ps, e, groups, s) ==
  LET b == ps.groupStart + s
      g == e.gi + b \div ChunkBlocks
  IN  IF b < ps.blockIndex
      THEN /\ ps.blocks[s] = Source(groups, g, b % ChunkBlocks)
           /\ ps.ex[s] = IF b % ChunkBlocks \in groups[g + 1].ex
                             THEN {<<g, b % ChunkBlocks>>} ELSE {}
      ELSE ps.blocks[s] = Empty /\ ps.ex[s] = {}

Exact(ps, e, groups) ==
  /\ ps.blockIndex = Lesser(ps.i * ChunkBlocks, e.ns)
  /\ ps.groupStart % GroupBlocks = 0
  /\ ps.groupStart <= ps.blockIndex
  /\ \A s \in Slots : SlotExact(ps, e, groups, s)

\* The group is still open.
Open(ps) == ps.blockIndex < ps.groupStart + GroupBlocks

LEMMA StartExact ==
  ASSUME NEW e \in PartEntries, NEW groups
  PROVE  Exact(PartStart, e, groups) /\ Open(PartStart)
<1>1. /\ PartStart.i = 0 /\ PartStart.blockIndex = 0 /\ PartStart.groupStart = 0
      /\ \A s \in Slots : PartStart.blocks[s] = Empty /\ PartStart.ex[s] = {}
  BY DEF PartStart, NoTree
<1>2. PICK c, n, m \in Nat : c = ChunkBlocks /\ n = e.ns /\ m = GroupBlocks /\ m > 0
  BY FormatAssumption DEF PartEntries
<1>3. 0 = Lesser(0 * c, n) /\ 0 % m = 0
  BY <1>2 DEF Lesser
<1>4. \A s \in Slots : SlotExact(PartStart, e, groups, s)
  <2>. SUFFICES ASSUME NEW s \in Slots PROVE SlotExact(PartStart, e, groups, s)
    OBVIOUS
  <2>1. ~ (0 + s < 0)
    BY FormatAssumption DEF Slots
  <2>. QED
    BY <1>1, <2>1 DEF SlotExact
<1>. QED
  BY <1>1, <1>2, <1>3, <1>4 DEF Exact, Open

\* A multiple of d below another one is a whole d below it.
LEMMA MultiplesApart ==
  ASSUME NEW d \in Nat \ {0}, NEW a \in Nat, NEW b \in Nat, a * d < b * d
  PROVE  a * d + d <= b * d
<1>1. a < b
  <2>1. ~ (b <= a)
    <3>1. ASSUME b <= a PROVE FALSE
      <4>1. d * b <= d * a
        BY <3>1, TimesMonotone
      <4>. QED
        BY <4>1
    <3>. QED
      BY <3>1
  <2>. QED
    BY <2>1
<1>2. d * (a + 1) <= d * b
  BY <1>1, TimesMonotone
<1>. QED
  BY <1>2

\* Where the next chunk of the region goes: behind what has been received,
\* and inside the open group.
LEMMA ChunkInGroup ==
  ASSUME ChunksFillGroups, NEW ps \in PartStates, NEW e \in PartEntries, NEW groups,
         Exact(ps, e, groups), Open(ps),
         ps.i < e.ng, e.ng = CeilDiv(e.ns, ChunkBlocks)
  PROVE  LET n == Expected(e.ns, ps.i, ChunkBlocks) IN
         /\ ps.blockIndex = ps.i * ChunkBlocks
         /\ ps.blockIndex < e.ns
         /\ n \in 1 .. ChunkBlocks
         /\ ps.blockIndex + n = Lesser((ps.i + 1) * ChunkBlocks, e.ns)
         /\ ps.blockIndex + n <= ps.groupStart + GroupBlocks
<1> DEFINE n == Expected(e.ns, ps.i, ChunkBlocks)
<1>a. PICK i, gs, bi \in Nat : i = ps.i /\ gs = ps.groupStart /\ bi = ps.blockIndex
  BY PartTypes
<1>b. PICK c, m \in Nat : c = ChunkBlocks /\ m = GroupBlocks /\ c > 0 /\ m > 0
  BY FormatAssumption
<1>c. PICK ns \in Nat : ns = e.ns
  BY DEF PartEntries
<1>1. /\ i = ps.i /\ c = ChunkBlocks /\ m = GroupBlocks /\ ns = e.ns
      /\ gs = ps.groupStart /\ bi = ps.blockIndex /\ c > 0 /\ m > 0
  BY <1>a, <1>b, <1>c
<1>2. i * c < ns
  BY <1>1, CeilDivUnit
<1>3. PICK p \in Nat : p = i * c
  BY <1>1
<1>4. bi = p
  BY <1>1, <1>2, <1>3 DEF Exact, Lesser
<1>5. n = Lesser(c, ns - p)
  BY <1>1, <1>2, <1>3 DEF Expected
<1>6. n \in 1 .. c /\ n \in Nat /\ p + n <= ns /\ (n = c \/ p + n = ns)
  BY <1>1, <1>2, <1>3, <1>5 DEF Lesser
<1>7. (i + 1) * c = p + c
  BY <1>1, <1>3
<1>8. p + n = Lesser((i + 1) * c, ns)
  <2> HIDE DEF n
  <2>. QED
    BY <1>1, <1>3, <1>6, <1>7 DEF Lesser
<1>9. p + c <= gs + m
  <2>1. PICK k \in Nat : m = c * k
    <3>1. m % c = 0
      BY <1>1 DEF ChunksFillGroups
    <3>2. m = c * (m \div c) + (m % c) /\ m \div c \in Nat
      <4>1. m \in Nat /\ c \in Nat \ {0}
        BY <1>b
      <4>. QED
        BY <4>1, DivMod
    <3>3. PICK k \in Nat : k = m \div c
      BY <3>2
    <3>4. m = c * k + 0
      BY <3>1, <3>2, <3>3
    <3>. QED
      BY <1>1, <3>4
  <2>2. PICK j \in Nat : gs = m * j
    <3>1. gs % m = 0
      BY <1>1 DEF Exact
    <3>2. gs = m * (gs \div m) + (gs % m) /\ gs \div m \in Nat
      <4>1. gs \in Nat /\ m \in Nat \ {0}
        BY <1>a, <1>b
      <4>. QED
        BY <4>1, DivMod
    <3>3. PICK j \in Nat : j = gs \div m
      BY <3>2
    <3>4. gs = m * j + 0
      BY <3>1, <3>2, <3>3
    <3>. QED
      BY <1>1, <3>4
  <2>3. PICK t \in Nat : t = k * j + k
    BY <2>1, <2>2
  <2>4. t * c = gs + m
    <3>1. (k * j + k) * c = (c * k) * j + c * k
      BY <1>1, <2>1, <2>2
    <3>. QED
      BY <2>1, <2>2, <2>3, <3>1
  <2>5. i * c < t * c
    BY <1>1, <1>3, <1>4, <2>4 DEF Open
  <2>6. i * c + c <= t * c
    BY <1>1, <2>5, MultiplesApart
  <2>. QED
    BY <1>3, <2>4, <2>6
<1>10. p + n <= gs + m
  <2> HIDE DEF n
  <2>. QED
    BY <1>1, <1>3, <1>6, <1>9
<1>11. p < ns
  BY <1>2, <1>3
<1>. QED
  BY <1>1, <1>3, <1>4, <1>6, <1>8, <1>10, <1>11

\* One chunk put into the buffers: they hold its blocks as well.
LEMMA FilledExact ==
  ASSUME ChunksFillGroups, NEW ps \in PartStates, NEW e \in PartEntries, NEW groups,
         Exact(ps, e, groups), Open(ps),
         ps.i < e.ng, e.ng = CeilDiv(e.ns, ChunkBlocks),
         NEW qs, qs = Filled(ps, groups[e.gi + ps.i + 1], e.gi + ps.i,
                             Expected(e.ns, ps.i, ChunkBlocks))
  PROVE  /\ Exact(qs, e, groups)
         /\ qs.groupStart = ps.groupStart
         /\ ps.blockIndex < qs.blockIndex
         /\ qs.blockIndex <= qs.groupStart + GroupBlocks
<1> DEFINE n == Expected(e.ns, ps.i, ChunkBlocks)
           g == e.gi + ps.i
           x == groups[g + 1]
           slot(b) == (ps.blockIndex + b) % GroupBlocks
           last(s) == {b \in 0 .. n - 1 : slot(b) = s /\ b + GroupBlocks >= n}
           marked(s) == {b \in 0 .. n - 1 : slot(b) = s /\ b \in x.ex}
<1>1. /\ qs.i = ps.i + 1 /\ qs.blockIndex = ps.blockIndex + n
      /\ qs.groupStart = ps.groupStart
      /\ \A s \in Slots :
           /\ qs.blocks[s] = IF last(s) = {} THEN ps.blocks[s]
                             ELSE Payload(x, g, CHOOSE b \in last(s) : TRUE)
           /\ qs.ex[s] = ps.ex[s] \cup {<<g, b>> : b \in marked(s)}
  BY DEF Filled
<1>2. /\ ps.blockIndex = ps.i * ChunkBlocks
      /\ n \in 1 .. ChunkBlocks
      /\ ps.blockIndex + n = Lesser((ps.i + 1) * ChunkBlocks, e.ns)
      /\ ps.blockIndex + n <= ps.groupStart + GroupBlocks
  BY ChunkInGroup
<1>3. PICK i, gs, bi \in Nat : i = ps.i /\ gs = ps.groupStart /\ bi = ps.blockIndex
  BY PartTypes
<1>4. PICK c, m \in Nat : c = ChunkBlocks /\ m = GroupBlocks /\ c > 0 /\ m > 0
  BY FormatAssumption
<1>5. PICK gi \in Nat : gi = e.gi
  BY DEF PartEntries
<1>6. PICK k \in Nat : k = n /\ 1 <= k /\ k <= c /\ bi = i * c /\ bi + k <= gs + m
  BY <1>2, <1>3, <1>4
<1>7. gs % m = 0 /\ gs <= bi
  BY <1>3, <1>4 DEF Exact
<1>8. c <= m
  <2>1. m % c = 0
    BY <1>4 DEF ChunksFillGroups
  <2>2. ~ (m < c)
    <3>1. ASSUME m < c PROVE m % c = m
      BY <1>4, <3>1
    <3>. QED
      BY <1>4, <2>1, <3>1
  <2>. QED
    BY <1>4, <2>2
\* where a block of the chunk goes, and that no slot is used twice
<1>9. \A b \in 0 .. k - 1 : slot(b) = bi + b - gs /\ b + m >= k
  <2>. SUFFICES ASSUME NEW b \in 0 .. k - 1 PROVE slot(b) = bi + b - gs /\ b + m >= k
    OBVIOUS
  <2>1. PICK s \in 0 .. m - 1 : s = bi + b - gs
    BY <1>3, <1>4, <1>6, <1>7
  <2>2. (gs + s) % m = s
    BY <1>3, <1>4, <1>7, ModFromMultiple
  <2>3. gs + s = bi + b
    BY <1>3, <2>1
  <2>4. b + m >= k
    BY <1>4, <1>6, <1>8
  <2>. QED
    BY <1>3, <1>4, <2>1, <2>2, <2>3, <2>4
<1> HIDE DEF n, slot
<1>10. ASSUME NEW s \in Slots
       PROVE  SlotExact(qs, e, groups, s)
  <2>1. s \in 0 .. m - 1
    BY <1>4 DEF Slots
  <2>2. SlotExact(ps, e, groups, s)
    BY DEF Exact
  <2>3. \A b \in 0 .. k - 1 : slot(b) = s <=> b = gs + s - bi
    BY <1>3, <1>9, <2>1
  <2>4. CASE gs + s < bi \/ gs + s >= bi + k
    <3>1. last(s) = {} /\ marked(s) = {}
      BY <1>3, <1>6, <2>1, <2>3, <2>4
    <3>2. qs.blocks[s] = ps.blocks[s] /\ qs.ex[s] = ps.ex[s]
      <4>1. {<<g, b>> : b \in marked(s)} = {}
        BY <3>1
      <4>. QED
        BY <1>1, <3>1, <4>1
    <3>3. (ps.groupStart + s < ps.blockIndex) = (qs.groupStart + s < qs.blockIndex)
      <4>1. s \in Nat
        BY <1>3, <2>1
      <4>2. (gs + s < bi) = (gs + s < bi + k)
        BY <1>3, <1>6, <2>4, <4>1
      <4>3. /\ ps.groupStart = gs /\ ps.blockIndex = bi
            /\ qs.groupStart = gs /\ qs.blockIndex = bi + k
        BY <1>1, <1>3, <1>6
      <4>. QED
        BY <4>2, <4>3
    <3>. QED
      BY <1>1, <2>2, <3>2, <3>3 DEF SlotExact
  <2>5. CASE ~ (gs + s < bi \/ gs + s >= bi + k)
    <3>1. PICK j \in 0 .. k - 1 : j = gs + s - bi
      BY <1>3, <1>6, <2>1, <2>5
    <3>2. last(s) = {j}
      BY <1>4, <1>6, <1>9, <2>3, <3>1
    <3>3. marked(s) = IF j \in x.ex THEN {j} ELSE {}
      BY <1>6, <2>3, <3>1
    <3>4. ps.ex[s] = {}
      <4>1. ~ (ps.groupStart + s < ps.blockIndex)
        BY <1>3, <2>1, <2>5
      <4>. QED
        BY <2>2, <4>1 DEF SlotExact
    <3>5. qs.blocks[s] = Payload(x, g, j)
      BY <1>1, <3>2
    <3>6. qs.ex[s] = IF j \in x.ex THEN {<<g, j>>} ELSE {}
      <4>1. qs.ex[s] = {<<g, b>> : b \in marked(s)}
        BY <1>1, <3>4
      <4>2. CASE j \in x.ex
        BY <3>3, <4>1, <4>2
      <4>3. CASE j \notin x.ex
        BY <3>3, <4>1, <4>3
      <4>. QED
        BY <4>2, <4>3
    <3>7. (gs + s) \div c = i /\ (gs + s) % c = j
      <4>1. PICK b \in Nat : b = gs + s
        BY <1>3, <2>1
      <4>2. b = c * i + j /\ j \in 0 .. c - 1
        <5>1. b = bi + j
          BY <1>3, <1>6, <2>1, <3>1, <4>1
        <5>2. bi = c * i
          BY <1>3, <1>4, <1>6
        <5>3. j \in 0 .. c - 1
          BY <1>4, <1>6
        <5>. QED
          BY <1>3, <1>4, <5>1, <5>2, <5>3
      <4>3. b = c * (b \div c) + (b % c) /\ b % c \in 0 .. c - 1 /\ b \div c \in Nat
        <5>1. b \in Nat /\ c \in Nat \ {0}
          BY <1>4, <4>1
        <5>. QED
          BY <5>1, DivMod
      <4>4. c \in Nat \ {0} /\ i \in Int /\ b \div c \in Int
        BY <1>3, <1>4, <4>3
      <4>5. c * (b \div c) + (b % c) = c * i + j
        BY <4>2, <4>3
      <4>6. b \div c = i /\ b % c = j
        BY <4>2, <4>3, <4>4, <4>5, DivModUnique
      <4>. QED
        BY <4>1, <4>6
    <3>8. qs.groupStart + s < qs.blockIndex
      BY <1>1, <1>3, <1>6, <2>1, <2>5
    <3>9. /\ (qs.groupStart + s) \div ChunkBlocks = ps.i
          /\ (qs.groupStart + s) % ChunkBlocks = j
      BY <1>1, <1>3, <1>4, <3>7
    <3>10. qs.blocks[s] = Source(groups, g, j)
      BY <3>5 DEF Payload, Source
    <3>. QED
      BY <3>6, <3>8, <3>9, <3>10 DEF SlotExact
  <2>. QED
    BY <2>4, <2>5
<1>11. qs.blockIndex = Lesser(qs.i * ChunkBlocks, e.ns)
  BY <1>1, <1>2
<1>12. /\ qs.groupStart % GroupBlocks = 0 /\ qs.groupStart <= qs.blockIndex
       /\ ps.blockIndex < qs.blockIndex /\ qs.blockIndex <= qs.groupStart + GroupBlocks
  BY <1>1, <1>3, <1>4, <1>6, <1>7
<1>. QED
  BY <1>1, <1>10, <1>11, <1>12 DEF Exact

\* The buffers once the chunk is in: where the group stands.
LEMMA GroupAfterChunk ==
  ASSUME NEW qs \in PartStates, NEW e \in PartEntries, NEW groups,
         Exact(qs, e, groups), qs.groupStart < qs.blockIndex,
         qs.blockIndex <= qs.groupStart + GroupBlocks,
         qs.i <= e.ng, e.ng = CeilDiv(e.ns, ChunkBlocks)
  PROVE  LET k == qs.groupStart \div GroupBlocks IN
         /\ k \in Nat /\ qs.groupStart = k * GroupBlocks
         /\ GroupLength(qs) = qs.blockIndex - qs.groupStart
         /\ ~ GroupComplete(qs, e) => Open(qs)
         /\ GroupComplete(qs, e) => GroupLength(qs) = Lesser(GroupBlocks, e.ns - qs.groupStart)
         /\ GroupComplete(qs, e) /\ qs.i < e.ng =>
              /\ qs.blockIndex = (k + 1) * GroupBlocks
              /\ k + 1 < CeilDiv(e.ns, GroupBlocks)
         /\ qs.i >= e.ng => ~ (k + 1 < CeilDiv(e.ns, GroupBlocks))
<1> DEFINE k == qs.groupStart \div GroupBlocks
<1>1. PICK i, gs, bi \in Nat : i = qs.i /\ gs = qs.groupStart /\ bi = qs.blockIndex
  BY PartTypes
<1>2. PICK c, m \in Nat : c = ChunkBlocks /\ m = GroupBlocks /\ c > 0 /\ m > 0
  BY FormatAssumption
<1>3. PICK ns, ng \in Nat : ns = e.ns /\ ng = e.ng
  BY DEF PartEntries
<1>4. gs < bi /\ bi <= gs + m /\ gs % m = 0 /\ i <= ng
  BY <1>1, <1>2, <1>3 DEF Exact
<1>5. PICK q \in Nat : q = k /\ gs = q * m
  <2>1. gs \in Nat /\ m \in Nat \ {0}
    BY <1>1, <1>2
  <2>2. gs = m * (gs \div m) + (gs % m) /\ gs \div m \in Nat
    BY <2>1, DivMod
  <2>3. PICK q \in Nat : q = gs \div m
    BY <2>2
  <2>4. gs = m * q + 0
    BY <1>4, <2>2, <2>3
  <2>5. q = k
    BY <1>1, <1>2, <2>3
  <2>. QED
    BY <1>2, <2>4, <2>5
<1> HIDE DEF k
<1>6. bi = Lesser(i * c, ns)
  BY <1>1, <1>2, <1>3 DEF Exact
<1>7. i >= ng => bi = ns
  <2>1. ASSUME i >= ng PROVE bi = ns
    <3>1. i = ng
      BY <1>1, <1>3, <1>4, <2>1
    <3>2. ns \in Nat /\ c \in Nat \ {0} /\ i = CeilDiv(ns, c)
      BY <1>2, <1>3, <3>1
    <3>3. c * i >= ns
      BY <3>2, CeilDivBounds
    <3>4. PICK p \in Nat : p = i * c /\ p >= ns
      BY <1>1, <1>2, <3>3
    <3>. QED
      BY <1>3, <1>6, <3>4 DEF Lesser
  <2>. QED
    BY <2>1
<1>8. i < ng => bi < ns
  <2>1. ASSUME i < ng PROVE bi < ns
    <3>1. i * c < ns
      BY <1>1, <1>2, <1>3, <2>1, CeilDivUnit
    <3>2. PICK p \in Nat : p = i * c
      BY <1>1, <1>2
    <3>. QED
      BY <1>3, <1>6, <3>1, <3>2 DEF Lesser
  <2>. QED
    BY <2>1
<1>9. bi % m = 0 <=> bi = gs + m
  <2>1. PICK s \in 1 .. m : s = bi - gs
    BY <1>1, <1>2, <1>4
  <2>2. CASE s < m
    <3>1. s \in 0 .. m - 1 /\ gs + s = bi
      BY <1>1, <1>2, <2>1, <2>2
    <3>2. (gs + s) % m = s
      BY <1>1, <1>2, <1>4, <3>1, ModFromMultiple
    <3>. QED
      BY <1>1, <1>2, <2>1, <2>2, <3>1, <3>2
  <2>3. CASE s = m
    <3>1. bi = gs + 1 * m
      BY <1>1, <1>2, <2>1, <2>3
    <3>2. (gs + 1 * m) % m = gs % m
      <4>1. gs \in Nat /\ m \in Nat \ {0} /\ 1 \in Nat
        BY <1>1, <1>2
      <4>. QED
        BY <4>1, ModTurns
    <3>. QED
      BY <1>1, <1>2, <1>4, <3>1, <3>2
  <2>. QED
    BY <1>2, <2>1, <2>2, <2>3
<1>10. GroupLength(qs) = bi - gs
  BY <1>1, <1>2, <1>4 DEF GroupLength, Lesser
<1>11. ASSUME ~ GroupComplete(qs, e) PROVE Open(qs)
  <2>1. bi # gs + m
    BY <1>1, <1>2, <1>9, <1>11 DEF GroupComplete
  <2>. QED
    BY <1>1, <1>2, <1>4, <2>1 DEF Open
<1>12. GroupComplete(qs, e) <=> bi = gs + m \/ i = ng
  BY <1>1, <1>2, <1>3, <1>9 DEF GroupComplete
<1>13. ASSUME GroupComplete(qs, e) PROVE bi - gs = Lesser(m, ns - gs)
  <2>1. CASE i < ng
    <3>1. bi = gs + m /\ bi < ns
      BY <1>1, <1>3, <1>8, <1>12, <1>13, <2>1
    <3>. QED
      BY <1>1, <1>2, <1>3, <3>1 DEF Lesser
  <2>2. CASE ~ (i < ng)
    <3>1. bi = ns
      BY <1>1, <1>3, <1>7, <2>2
    <3>2. PICK d \in Nat : d = ns - gs /\ d <= m
      BY <1>1, <1>2, <1>3, <1>4, <3>1
    <3>3. Lesser(m, d) = d
      BY <1>2, <3>2 DEF Lesser
    <3>. QED
      BY <3>1, <3>2, <3>3
  <2>. QED
    BY <2>1, <2>2
<1>14. (q + 1) * m = gs + m
  BY <1>2, <1>5
<1>15. q + 1 < CeilDiv(ns, m) <=> gs + m < ns
  <2>1. q + 1 \in Nat /\ m \in Nat \ {0}
    BY <1>2, <1>5
  <2>2. q + 1 < CeilDiv(ns, m) <=> (q + 1) * m < ns
    BY <1>3, <2>1, CeilDivUnit
  <2>. QED
    BY <1>14, <2>2
<1>16. ASSUME GroupComplete(qs, e), i < ng
       PROVE  bi = (q + 1) * m /\ q + 1 < CeilDiv(ns, m)
  <2>1. bi = gs + m
    BY <1>1, <1>3, <1>12, <1>16
  <2>. QED
    BY <1>8, <1>14, <1>15, <1>16, <2>1
<1>17. ASSUME i >= ng PROVE ~ (q + 1 < CeilDiv(ns, m))
  <2>1. ~ (gs + m < ns)
    BY <1>1, <1>2, <1>3, <1>4, <1>7, <1>17
  <2>. QED
    BY <1>15, <2>1
<1>. QED
  BY <1>1, <1>2, <1>3, <1>5, <1>10, <1>11, <1>13, <1>16, <1>17 DEF k

\* Emptied buffers hold the next group, of which nothing has come.
LEMMA ClearedExact ==
  ASSUME NEW qs \in PartStates, NEW e \in PartEntries, NEW groups,
         Exact(qs, e, groups), NEW k \in Nat, qs.blockIndex = k * GroupBlocks
  PROVE  /\ Exact(Cleared(qs), e, groups) /\ Open(Cleared(qs))
         /\ Cleared(qs).groupStart = qs.blockIndex
         /\ qs.blockIndex \div GroupBlocks = k
<1> DEFINE cs == Cleared(qs)
<1>1. /\ cs.i = qs.i /\ cs.blockIndex = qs.blockIndex /\ cs.groupStart = qs.blockIndex
      /\ \A s \in Slots : cs.blocks[s] = Empty /\ cs.ex[s] = {}
  BY DEF Cleared, NoTree, PartStates
<1> HIDE DEF cs
<1>2. PICK bi, m \in Nat : bi = qs.blockIndex /\ m = GroupBlocks /\ m > 0
  BY FormatAssumption, PartTypes
<1>3. bi = m * k + 0 /\ 0 \in 0 .. m - 1
  BY <1>2
<1>4. bi % m = 0 /\ bi \div m = k
  <2>1. m \in Nat \ {0}
    BY <1>2
  <2>2. bi = m * (bi \div m) + (bi % m) /\ bi % m \in 0 .. m - 1 /\ bi \div m \in Nat
    BY <1>2, <2>1, DivMod
  <2>3. m * (bi \div m) + (bi % m) = m * k + 0 /\ bi \div m \in Int /\ k \in Int
    BY <1>3, <2>2
  <2>. QED
    BY <1>3, <2>1, <2>2, <2>3, DivModUnique
<1>5. \A s \in Slots : SlotExact(cs, e, groups, s)
  <2>. SUFFICES ASSUME NEW s \in Slots PROVE SlotExact(cs, e, groups, s)
    OBVIOUS
  <2>1. ~ (bi + s < bi)
    BY <1>2, FormatAssumption DEF Slots
  <2>2. ~ (cs.groupStart + s < cs.blockIndex)
    BY <1>1, <1>2, <2>1
  <2>. QED
    BY <1>1, <2>2 DEF SlotExact
<1>6. cs.blockIndex = Lesser(cs.i * ChunkBlocks, e.ns)
  BY <1>1 DEF Exact
<1>7. Open(cs)
  BY <1>1, <1>2 DEF Open
<1>8. cs.groupStart % GroupBlocks = 0 /\ cs.groupStart <= cs.blockIndex
  BY <1>1, <1>2, <1>4
<1>. QED
  BY <1>1, <1>2, <1>4, <1>5, <1>6, <1>7, <1>8 DEF Exact, cs

\* The n blocks from block `first' of the region e on, as one output.
RecordFrom(e, first, n, groups, key) ==
  LET group(b) == e.gi + (first + b) \div ChunkBlocks
      chunkBlock(b) == (first + b) % ChunkBlocks
      src(b)   == Source(groups, group(b), chunkBlock(b))
      ex(b)    == IF chunkBlock(b) \in groups[group(b) + 1].ex
                    THEN {<<group(b), chunkBlock(b)>>} ELSE {}
  IN  [offset |-> (e.fs + first) * Block,
       len    |-> n * Block,
       key    |-> key,
       blocks |-> [b \in 1 .. n |-> [src |-> src(b - 1), ex |-> ex(b - 1)]],
       tree   |-> [s \in Slots |-> IF s < n THEN src(s) ELSE Empty]]

\* Hash group k of the region e.
GroupRecord(e, k, groups, key) ==
  RecordFrom(e, k * GroupBlocks, Lesser(GroupBlocks, e.ns - k * GroupBlocks), groups, key)

\* A completed group leaves as the hash group of the region that it is.
LEMMA OutputIsRecord ==
  ASSUME NEW qs \in PartStates, NEW e \in PartEntries, NEW groups, NEW key,
         Exact(qs, e, groups), NEW k \in Nat, qs.groupStart = k * GroupBlocks,
         qs.groupStart < qs.blockIndex,
         GroupLength(qs) = qs.blockIndex - qs.groupStart,
         GroupLength(qs) = Lesser(GroupBlocks, e.ns - qs.groupStart)
  PROVE  GroupOutput(qs, e, key) = GroupRecord(e, k, groups, key)
<1> DEFINE src(s) == Source(groups, e.gi + (qs.groupStart + s) \div ChunkBlocks,
                            (qs.groupStart + s) % ChunkBlocks)
           g(s)  == e.gi + (qs.groupStart + s) \div ChunkBlocks
           b(s)  == (qs.groupStart + s) % ChunkBlocks
           ex(s) == IF b(s) \in groups[g(s) + 1].ex THEN {<<g(s), b(s)>>} ELSE {}
<1>1. PICK gs, bi, n \in Nat : gs = qs.groupStart /\ bi = qs.blockIndex /\ n = bi - gs /\ n > 0
  BY PartTypes
<1>2. n = GroupLength(qs) /\ n <= GroupBlocks
  BY <1>1, FormatAssumption DEF GroupLength, Lesser
<1>3. ASSUME NEW s \in Slots
      PROVE  /\ s < n => qs.blocks[s] = src(s) /\ qs.ex[s] = ex(s)
             /\ ~ (s < n) => qs.blocks[s] = Empty
  <2>1. s < n <=> qs.groupStart + s < qs.blockIndex
    BY <1>1, FormatAssumption DEF Slots
  <2>2. SlotExact(qs, e, groups, s)
    BY DEF Exact
  <2>. QED
    BY <2>1, <2>2 DEF SlotExact
<1>4. qs.blocks = [s \in Slots |-> IF s < n THEN src(s) ELSE Empty]
  <2>1. qs.blocks \in [Slots -> Sources]
    BY PartTypes
  <2>. QED
    BY <1>3, <2>1
<1>5. [x \in 1 .. n |-> [src |-> qs.blocks[x - 1], ex |-> qs.ex[x - 1]]]
        = [x \in 1 .. n |-> [src |-> src(x - 1), ex |-> ex(x - 1)]]
  <2>1. ASSUME NEW x \in 1 .. n PROVE x - 1 \in Slots /\ x - 1 < n
    BY <1>1, <1>2, FormatAssumption DEF Slots
  <2>. QED
    BY <1>3, <2>1
<1>6. e.fs * Block + qs.groupStart * Block = (e.fs + qs.groupStart) * Block
  <2>1. PICK f, d \in Nat : f = e.fs /\ d = Block
    BY FormatAssumption DEF PartEntries
  <2>2. f * d + gs * d = (f + gs) * d
    BY <1>1, <2>1
  <2>. QED
    BY <1>1, <2>1, <2>2
<1>7. GroupRecord(e, k, groups, key) = RecordFrom(e, qs.groupStart, n, groups, key)
  BY <1>2 DEF GroupRecord
<1>8. GroupOutput(qs, e, key) =
        [offset |-> e.fs * Block + qs.groupStart * Block,
         len    |-> n * Block,
         key    |-> key,
         blocks |-> [x \in 1 .. n |-> [src |-> qs.blocks[x - 1], ex |-> qs.ex[x - 1]]],
         tree   |-> qs.blocks]
  BY <1>2 DEF GroupOutput, OutputFrom
<1>9. RecordFrom(e, qs.groupStart, n, groups, key) =
        [offset |-> (e.fs + qs.groupStart) * Block,
         len    |-> n * Block,
         key    |-> key,
         blocks |-> [x \in 1 .. n |-> [src |-> src(x - 1), ex |-> ex(x - 1)]],
         tree   |-> [s \in Slots |-> IF s < n THEN src(s) ELSE Empty]]
  BY DEF RecordFrom
<1> HIDE DEF src, ex
<1>. QED
  BY <1>4, <1>5, <1>6, <1>7, <1>8, <1>9

-----------------------------------------------------------------------------
(* The regions of a well-formed container are entries of its tables.       *)

AllWellFormed(rs, gs) == \A r \in DOMAIN rs : WellFormedEntry(rs[r], gs)

LEMMA OrdersWellFormed ==
  ASSUME NEW f \in Containers, WellFormed(f), NEW rs \in Orders(f.parts, f.raws)
  PROVE  AllWellFormed(rs, f.groups)
<1> DEFINE P == {e \in PartEntries : WellFormedEntry(e, f.groups)}
           R == {e \in RawEntries : WellFormedEntry(e, f.groups)}
<1>1. f.parts \in Seq(PartEntries) /\ f.raws \in Seq(RawEntries)
  BY DEF Containers
<1>2. f.parts \in Seq(P)
  BY <1>1, ElementOfSeq, LenProperties DEF WellFormed
<1>3. f.raws \in Seq(R)
  BY <1>1, ElementOfSeq, LenProperties DEF WellFormed
<1>4. \A e \in P \cup R : WellFormedEntry(e, f.groups)
  OBVIOUS
<1> HIDE DEF P, R
<1>5. rs \in Seq(P \cup R)
  BY <1>2, <1>3, OrdersType
<1>. QED
  BY <1>4, <1>5, ElementOfSeq, LenProperties DEF AllWellFormed

-----------------------------------------------------------------------------
(* The units that a region leaves in, one write each: the chunks of raw    *)
(* data, the hash groups of partition data.  They meet, from the start of  *)
(* the region to its end.                                                  *)

UnitsOf(e) == IF e.kind = "part" THEN CeilDiv(e.ns, GroupBlocks) ELSE e.ng
UnitOutput(e, u, groups) ==
  IF e.kind = "part" THEN GroupRecord(e, u, groups, NoKey)
  ELSE RawOutput(e, u, Source(groups, e.gi + u, 0))
UnitStart(e, u) ==
  IF e.kind = "part" THEN (e.fs + u * GroupBlocks) * Block ELSE AlignDown(e.offset) + u * Chunk
RegionEnd(e) == IF e.kind = "part" THEN (e.fs + e.ns) * Block ELSE e.offset + e.size

LEMMA UnitEnd ==
  ASSUME NEW n \in Nat, NEW u \in Nat \ {0}, NEW c \in Nat, c < CeilDiv(n, u)
  PROVE  /\ c * u \in Nat /\ c * u < n /\ Expected(n, c, u) \in Nat
         /\ c * u + Expected(n, c, u) <= n
         /\ c + 1 < CeilDiv(n, u) => c * u + Expected(n, c, u) = (c + 1) * u
         /\ ~ (c + 1 < CeilDiv(n, u)) => c * u + Expected(n, c, u) = n
<1> DEFINE p == c * u
<1>1. p \in Nat /\ p < n
  BY CeilDivUnit
<1>2. c + 1 < CeilDiv(n, u) <=> (c + 1) * u < n
  BY CeilDivUnit
<1>3. (c + 1) * u = p + u
  OBVIOUS
<1>4. Expected(n, c, u) = Lesser(u, n - p)
  BY <1>1 DEF Expected
<1> HIDE DEF p
<1>5. Lesser(u, n - p) \in Nat /\ p + Lesser(u, n - p) <= n
      /\ (p + u < n => p + Lesser(u, n - p) = p + u)
      /\ (~ (p + u < n) => p + Lesser(u, n - p) = n)
  BY <1>1 DEF Lesser
<1>. QED
  BY <1>1, <1>2, <1>3, <1>4, <1>5 DEF p

LEMMA GroupsMeet ==
  ASSUME NEW e \in PartEntries, NEW groups, NEW u \in Nat, u < UnitsOf(e)
  PROVE  /\ UnitsOf(e) = CeilDiv(e.ns, GroupBlocks) /\ u * GroupBlocks < e.ns
         /\ UnitStart(e, u) \in Nat /\ UnitOutput(e, u, groups).offset = UnitStart(e, u)
         /\ UnitOutput(e, u, groups).len \in Nat
         /\ UnitStart(e, u) + UnitOutput(e, u, groups).len
              = IF u + 1 < UnitsOf(e) THEN UnitStart(e, u + 1) ELSE RegionEnd(e)
<1>1. PICK fs, ns, g, b \in Nat : fs = e.fs /\ ns = e.ns /\ g = GroupBlocks /\ b = Block /\ g > 0
  BY FormatAssumption DEF PartEntries
<1>2. e.kind = "part"
  BY DEF PartEntries
<1>3. UnitsOf(e) = CeilDiv(ns, g) /\ u < CeilDiv(ns, g)
  BY <1>1, <1>2 DEF UnitsOf
<1>4. PICK f, l \in Nat :
        /\ f = u * g /\ f < ns /\ l = Expected(ns, u, g) /\ f + l <= ns
        /\ u + 1 < CeilDiv(ns, g) => f + l = (u + 1) * g
        /\ ~ (u + 1 < CeilDiv(ns, g)) => f + l = ns
  BY <1>1, <1>3, UnitEnd
<1>5. Lesser(g, ns - f) = l
  BY <1>4 DEF Expected
<1>6. UnitOutput(e, u, groups) = RecordFrom(e, f, l, groups, NoKey)
  BY <1>1, <1>2, <1>4, <1>5 DEF UnitOutput, GroupRecord
<1>7. UnitOutput(e, u, groups).offset = (fs + f) * b /\ UnitOutput(e, u, groups).len = l * b
  BY <1>1, <1>6 DEF RecordFrom
<1>8. UnitStart(e, u) = (fs + f) * b /\ UnitStart(e, u + 1) = (fs + (u + 1) * g) * b
      /\ RegionEnd(e) = (fs + ns) * b
  BY <1>1, <1>2, <1>4 DEF UnitStart, RegionEnd
<1>9. (fs + f) * b \in Nat /\ l * b \in Nat
  BY <1>1, <1>4
<1>10. (fs + f) * b + l * b = (fs + (f + l)) * b
  <2>1. PICK x \in Nat : x = fs + f
    BY <1>1, <1>4
  <2>2. x * b + l * b = (x + l) * b
    BY <1>1, <1>4, <2>1
  <2>3. x + l = fs + (f + l)
    BY <1>1, <1>4, <2>1
  <2>. QED
    BY <2>1, <2>2, <2>3
<1>11. (fs + f) * b + l * b = IF u + 1 < UnitsOf(e) THEN UnitStart(e, u + 1) ELSE RegionEnd(e)
  BY <1>3, <1>4, <1>8, <1>10
<1>. QED
  BY <1>1, <1>3, <1>4, <1>7, <1>8, <1>9, <1>11

LEMMA ChunksMeet ==
  ASSUME NEW e \in RawEntries, e.ng = CeilDiv(LogicalSize(e), Chunk), NEW groups,
         NEW u \in Nat, u < UnitsOf(e)
  PROVE  /\ UnitsOf(e) = e.ng
         /\ UnitStart(e, u) \in Nat /\ UnitOutput(e, u, groups).offset = UnitStart(e, u)
         /\ UnitOutput(e, u, groups).len \in Nat
         /\ UnitStart(e, u) + UnitOutput(e, u, groups).len
              = IF u + 1 < UnitsOf(e) THEN UnitStart(e, u + 1) ELSE RegionEnd(e)
<1>1. e.kind # "part"
  BY DEF RawEntries
<1>2. PICK o, s \in Nat, b \in Nat \ {0} : o = e.offset /\ s = e.size /\ b = Block
  BY FormatAssumption DEF RawEntries
<1>3. PICK r \in Nat : r = o % b /\ r <= o
  <2>1. o % b \in 0 .. b - 1 /\ o \div b \in Nat /\ o = b * (o \div b) + (o % b)
    BY <1>2, DivMod
  <2>2. PICK q, m, x \in Nat : q = o \div b /\ m = o % b /\ x = b * q /\ o = x + m
    <3>1. PICK q, m \in Nat : q = o \div b /\ m = o % b /\ o = b * q + m
      BY <2>1
    <3>2. b * q \in Nat
      OBVIOUS
    <3>. QED
      BY <3>1, <3>2
  <2>. QED
    BY <2>2
<1>4. AlignDown(e.offset) = o - r /\ LogicalSize(e) = s + r
  BY <1>2, <1>3 DEF AlignDown, LogicalSize
<1>5. PICK a, n \in Nat, c \in Nat \ {0} : a = o - r /\ n = s + r /\ c = Chunk
  BY <1>2, <1>3, FormatAssumption DEF Chunk
<1>6. UnitsOf(e) = e.ng /\ u < CeilDiv(n, c) /\ e.ng = CeilDiv(n, c)
  BY <1>1, <1>4, <1>5 DEF UnitsOf
<1>7. PICK f, l \in Nat :
        /\ f = u * c /\ l = Expected(n, u, c) /\ f + l <= n
        /\ u + 1 < CeilDiv(n, c) => f + l = (u + 1) * c
        /\ ~ (u + 1 < CeilDiv(n, c)) => f + l = n
  <2>1. u < CeilDiv(n, c)
    BY <1>6
  <2>2. /\ u * c \in Nat /\ Expected(n, u, c) \in Nat /\ u * c + Expected(n, u, c) <= n
        /\ u + 1 < CeilDiv(n, c) => u * c + Expected(n, u, c) = (u + 1) * c
        /\ ~ (u + 1 < CeilDiv(n, c)) => u * c + Expected(n, u, c) = n
    BY <2>1, UnitEnd
  <2>. QED
    BY <2>2
<1>8. UnitOutput(e, u, groups).offset = a + f /\ UnitOutput(e, u, groups).len = l
  BY <1>1, <1>4, <1>5, <1>7 DEF UnitOutput, RawOutput
<1>9. UnitStart(e, u) = a + f /\ UnitStart(e, u + 1) = a + (u + 1) * c /\ RegionEnd(e) = o + s
  BY <1>1, <1>2, <1>4, <1>5, <1>7 DEF UnitStart, RegionEnd
<1>10. a + n = o + s
  BY <1>2, <1>3, <1>5
<1>11. a + (f + l) = IF u + 1 < UnitsOf(e) THEN UnitStart(e, u + 1) ELSE RegionEnd(e)
  BY <1>6, <1>7, <1>9, <1>10
<1>. QED
  BY <1>5, <1>6, <1>7, <1>8, <1>9, <1>11

LEMMA UnitsMeet ==
  ASSUME NEW e \in RegionEntries, NEW groups, WellFormedEntry(e, groups),
         NEW u \in Nat, u < UnitsOf(e)
  PROVE  /\ UnitStart(e, u) \in Nat /\ UnitOutput(e, u, groups).offset = UnitStart(e, u)
         /\ UnitOutput(e, u, groups).len \in Nat
         /\ UnitStart(e, u) + UnitOutput(e, u, groups).len
              = IF u + 1 < UnitsOf(e) THEN UnitStart(e, u + 1) ELSE RegionEnd(e)
<1>1. CASE e \in PartEntries
  BY <1>1, GroupsMeet
<1>2. CASE e \in RawEntries
  <2>1. e.kind # "part"
    BY <1>2 DEF RawEntries
  <2>2. e.ng = CeilDiv(LogicalSize(e), Chunk)
    BY <2>1 DEF WellFormedEntry
  <2>. QED
    BY <1>2, <2>2, ChunksMeet
<1>. QED
  BY <1>1, <1>2 DEF RegionEntries

LEMMA FirstUnit ==
  ASSUME NEW e \in RegionEntries
  PROVE  UnitStart(e, 0) = StartKey(e) /\ StartKey(e) \in Nat
<1>1. Block \in Nat /\ GroupBlocks \in Nat /\ Chunk \in Nat /\ 0 * GroupBlocks = 0 /\ 0 * Chunk = 0
  BY FormatAssumption DEF Chunk
<1>2. CASE e \in PartEntries
  <2>1. e.kind = "part" /\ e.fs \in Nat
    BY <1>2 DEF PartEntries
  <2>2. e.fs * Block \in Nat /\ e.fs + 0 = e.fs
    BY <1>1, <2>1
  <2>. QED
    BY <1>1, <2>1, <2>2 DEF UnitStart, StartKey
<1>3. CASE e \in RawEntries
  <2>1. e.kind # "part" /\ e.offset \in Nat
    BY <1>3 DEF RawEntries
  <2>2. AlignDown(e.offset) \in Nat
    <3>1. PICK o \in Nat, b \in Nat \ {0} : o = e.offset /\ b = Block
      BY <2>1, FormatAssumption
    <3>2. o % b \in 0 .. b - 1 /\ o \div b \in Nat /\ o = b * (o \div b) + (o % b)
      BY <3>1, DivMod
    <3>3. PICK q, m \in Nat : q = o \div b /\ m = o % b /\ o = b * q + m
      BY <3>2
    <3>4. o - (o % b) \in Nat
      <4>1. b * q \in Nat
        OBVIOUS
      <4>. QED
        BY <3>3, <4>1
    <3>. QED
      BY <3>1, <3>4 DEF AlignDown
  <2>3. AlignDown(e.offset) + 0 = AlignDown(e.offset)
    BY <2>2
  <2>. QED
    BY <1>1, <2>1, <2>2, <2>3 DEF UnitStart, StartKey
<1>. QED
  BY <1>2, <1>3 DEF RegionEntries

\* Regions that follow each other from the start of the disc without a gap.
Seamless(rs) == \A r \in DOMAIN rs :
  UnitsOf(rs[r]) > 0 /\ StartKey(rs[r]) = IF r = 1 THEN 0 ELSE RegionEnd(rs[r - 1])
-----------------------------------------------------------------------------
(* The units of a region leave nothing of it out.                          *)

LEMMA UnitsNumber ==
  ASSUME NEW e \in RegionEntries, NEW groups, WellFormedEntry(e, groups)
  PROVE  /\ UnitsOf(e) \in Nat /\ StartKey(e) \in Nat /\ RegionEnd(e) \in Nat
         /\ StartKey(e) < RegionEnd(e) => UnitsOf(e) > 0
<1>0. StartKey(e) \in Nat /\ GroupBlocks \in Nat \ {0} /\ Chunk \in Nat \ {0} /\ Block \in Nat \ {0}
  BY FirstUnit, FormatAssumption DEF Chunk
<1>1. CASE e \in PartEntries
  <2>1. PICK f, n \in Nat : f = e.fs /\ n = e.ns /\ e.kind = "part"
    BY <1>1 DEF PartEntries
  <2>2. UnitsOf(e) = CeilDiv(n, GroupBlocks) /\ StartKey(e) = f * Block /\ RegionEnd(e) = (f + n) * Block
    BY <2>1 DEF UnitsOf, StartKey, RegionEnd
  <2>3. CeilDiv(n, GroupBlocks) \in Nat /\ (0 < CeilDiv(n, GroupBlocks) <=> 0 * GroupBlocks < n)
    BY <1>0, CeilDivBounds, CeilDivUnit
  <2>4. n = 0 => (f + n) * Block = f * Block
    BY <2>1
  <2>5. 0 * GroupBlocks = 0 /\ (f + n) * Block \in Nat
    BY <1>0, <2>1
  <2>. QED
    BY <1>0, <2>2, <2>3, <2>4, <2>5
<1>2. CASE e \in RawEntries
  <2>1. PICK o, s \in Nat : o = e.offset /\ s = e.size /\ e.kind # "part" /\ e.ng \in Nat
    BY <1>2 DEF RawEntries
  <2>2. UnitsOf(e) = e.ng /\ e.ng = CeilDiv(LogicalSize(e), Chunk)
    BY <2>1 DEF UnitsOf, WellFormedEntry
  <2>3. PICK r \in Nat : r = o % Block
    BY <1>0, <2>1, DivMod
  <2>4. StartKey(e) = o - r /\ RegionEnd(e) = o + s /\ LogicalSize(e) = s + r
    BY <2>1, <2>3 DEF StartKey, AlignDown, RegionEnd, LogicalSize
  <2>5. 0 < CeilDiv(s + r, Chunk) <=> 0 * Chunk < s + r
    BY <1>0, CeilDivUnit
  <2>6. 0 * Chunk = 0
    BY <1>0
  <2>. QED
    BY <1>0, <2>1, <2>2, <2>3, <2>4, <2>5, <2>6
<1>. QED
  BY <1>1, <1>2 DEF RegionEntries

LEMMA UnitCovers ==
  ASSUME NEW e \in RegionEntries, NEW groups, WellFormedEntry(e, groups),
         NEW x \in Nat, StartKey(e) <= x, x < RegionEnd(e)
  PROVE  \E u \in 0 .. UnitsOf(e) - 1 :
           /\ UnitOutput(e, u, groups).offset <= x
           /\ x < UnitOutput(e, u, groups).offset + UnitOutput(e, u, groups).len
<1>1. PICK n \in Nat : n = UnitsOf(e) /\ n > 0
  BY UnitsNumber
<1>2. ASSUME NEW u \in 0 .. n - 1
      PROVE  /\ UnitStart(e, u) \in Nat /\ UnitOutput(e, u, groups).offset = UnitStart(e, u)
             /\ UnitOutput(e, u, groups).len \in Nat
             /\ UnitStart(e, u) + UnitOutput(e, u, groups).len
                  = IF u + 1 < n THEN UnitStart(e, u + 1) ELSE RegionEnd(e)
  <2>1. u \in Nat /\ u < UnitsOf(e)
    BY <1>1
  <2>. QED
    BY <1>1, <2>1, UnitsMeet
<1> DEFINE C == {m \in Nat : m > 0 /\ (m >= n \/ UnitStart(e, m) > x)}
<1>3. PICK m \in C : \A c \in C : m <= c
  <2>1. n \in C
    BY <1>1
  <2>. HIDE DEF C
  <2>2. C \subseteq Nat
    BY DEF C
  <2>. QED
    BY <2>1, <2>2, LeastNumber
<1>4. m - 1 \in 0 .. n - 1 /\ (m >= n <=> m = n)
  <2>1. m <= n
    BY <1>1, <1>3
  <2>. QED
    BY <1>1, <1>3, <2>1
<1>5. UnitStart(e, m - 1) <= x
  <2>1. CASE m = 1
    BY <2>1, FirstUnit
  <2>2. CASE m # 1
    <3>1. m - 1 \in Nat /\ m - 1 > 0 /\ ~ (m <= m - 1) /\ ~ (m - 1 >= n)
      BY <1>3, <1>4, <2>2
    <3>2. ~ (m - 1 \in C)
      BY <1>3, <3>1
    <3>3. ~ (UnitStart(e, m - 1) > x)
      BY <3>1, <3>2
    <3>. QED
      BY <1>2, <1>4, <3>3
  <2>. QED
    BY <2>1, <2>2
<1>6. x < IF m < n THEN UnitStart(e, m) ELSE RegionEnd(e)
  BY <1>3, <1>4
<1>7. PICK u \in 0 .. n - 1 : u = m - 1 /\ u + 1 = m
  BY <1>3, <1>4
<1>. QED
  BY <1>1, <1>2, <1>5, <1>6, <1>7

-----------------------------------------------------------------------------
(* The regions are the entries that have something to decode, in the order *)
(* of their places on the disc, and none is missing.                       *)
Sorted(parts, raws, rs, q) ==
  /\ q \in [DOMAIN rs -> Candidates(parts, raws)]
  /\ \A r \in DOMAIN rs : rs[r] = EntryAt(parts, raws, q[r])
  /\ \A m, n \in DOMAIN rs : m < n => Before(parts, raws, q[m], q[n])
  /\ \A c \in Candidates(parts, raws) : \E r \in DOMAIN rs : q[r] = c

LEMMA CandidateTypes ==
  ASSUME NEW parts \in Seq(PartEntries), NEW raws \in Seq(RawEntries),
         NEW c \in Candidates(parts, raws)
  PROVE  /\ c[1] \in {0, 1} /\ c[2] \in Nat
         /\ EntryAt(parts, raws, c) \in RegionEntries
         /\ StartKey(EntryAt(parts, raws, c)) \in Nat
<1>1. DOMAIN parts = 1 .. Len(parts) /\ DOMAIN raws = 1 .. Len(raws)
      /\ Len(parts) \in Nat /\ Len(raws) \in Nat
  BY LenProperties
<1>2. c[1] \in {0, 1} /\ c[2] \in Nat
  BY <1>1 DEF Candidates
<1>3. EntryAt(parts, raws, c) \in RegionEntries
  BY <1>1, ElementOfSeq DEF Candidates, EntryAt, RegionEntries
<1>. QED
  BY <1>2, <1>3, FirstUnit

LEMMA OrdersComplete ==
  ASSUME NEW parts \in Seq(PartEntries), NEW raws \in Seq(RawEntries),
         NEW rs \in Orders(parts, raws)
  PROVE  \E q : Sorted(parts, raws, rs, q)
<1> DEFINE S == Candidates(parts, raws)
<1>1. IsFiniteSet(S) /\ Cardinality(S) \in Nat
  BY CandidatesFinite, FS_CardinalityType
<1>2. PICK n \in Nat : n = Cardinality(S)
  BY <1>1
<1>3. PICK q \in [1 .. n -> S] :
        IsOrder(parts, raws, q) /\ rs = [m \in DOMAIN q |-> EntryAt(parts, raws, q[m])]
  BY <1>2 DEF Orders
<1>4. ASSUME NEW l \in 1 .. n, NEW m \in 1 .. n, l < m
      PROVE  q[l] # q[m]
  <2>1. Before(parts, raws, q[l], q[m])
    BY <1>3, <1>4 DEF IsOrder
  <2>2. ~ Before(parts, raws, q[l], q[l])
    BY CandidateTypes DEF Before
  <2>. QED
    BY <2>1, <2>2
<1>5. q \in Injection(1 .. n, S)
  BY <1>4 DEF Injection, IsInjective
<1>6. IsFiniteSet(1 .. n) /\ Cardinality(1 .. n) = n
  BY FS_Interval
<1>7. q \in Surjection(1 .. n, S)
  BY <1>1, <1>2, <1>5, <1>6, FS_Injection
<1>8. \A c \in S : \E r \in 1 .. n : q[r] = c
  BY <1>7 DEF Surjection
<1>9. DOMAIN rs = 1 .. n /\ \A r \in 1 .. n : rs[r] = EntryAt(parts, raws, q[r])
  BY <1>3
<1>10. \A l, m \in 1 .. n : l < m => Before(parts, raws, q[l], q[m])
  BY <1>3 DEF IsOrder
<1>. QED
  BY <1>8, <1>9, <1>10 DEF Sorted

\* The same of the entries: each is a region, each region is one, and regions
\* come in the order of where they start.
LEMMA RegionsAreEntries ==
  ASSUME NEW parts \in Seq(PartEntries), NEW raws \in Seq(RawEntries),
         NEW rs \in Orders(parts, raws)
  PROVE  /\ \A n \in DOMAIN parts : parts[n].ns # 0 => \E r \in DOMAIN rs : rs[r] = parts[n]
         /\ \A n \in DOMAIN raws : \E r \in DOMAIN rs : rs[r] = raws[n]
         /\ \A r \in DOMAIN rs : \/ \E n \in DOMAIN parts : parts[n].ns # 0 /\ rs[r] = parts[n]
                                 \/ \E n \in DOMAIN raws : rs[r] = raws[n]
         /\ \A l, m \in DOMAIN rs : l < m => StartKey(rs[l]) <= StartKey(rs[m])
<1>1. PICK q : Sorted(parts, raws, rs, q)
  BY OrdersComplete
<1>2. ASSUME NEW n \in DOMAIN parts, parts[n].ns # 0
      PROVE  \E r \in DOMAIN rs : rs[r] = parts[n]
  <2>1. <<0, n>> \in Candidates(parts, raws) /\ EntryAt(parts, raws, <<0, n>>) = parts[n]
    BY <1>2 DEF Candidates, EntryAt
  <2>. QED
    BY <1>1, <2>1, Zenon DEF Sorted
<1>3. ASSUME NEW n \in DOMAIN raws
      PROVE  \E r \in DOMAIN rs : rs[r] = raws[n]
  <2>1. <<1, n>> \in Candidates(parts, raws) /\ EntryAt(parts, raws, <<1, n>>) = raws[n]
    BY DEF Candidates, EntryAt
  <2>. QED
    BY <1>1, <2>1, Zenon DEF Sorted
<1>4. ASSUME NEW r \in DOMAIN rs
      PROVE  \/ \E n \in DOMAIN parts : parts[n].ns # 0 /\ rs[r] = parts[n]
             \/ \E n \in DOMAIN raws : rs[r] = raws[n]
  <2>1. q[r] \in Candidates(parts, raws) /\ rs[r] = EntryAt(parts, raws, q[r])
    BY <1>1 DEF Sorted
  <2>. QED
    BY <2>1 DEF Candidates, EntryAt
<1>5. ASSUME NEW l \in DOMAIN rs, NEW m \in DOMAIN rs, l < m
      PROVE  StartKey(rs[l]) <= StartKey(rs[m])
  <2>1. /\ q[l] \in Candidates(parts, raws) /\ rs[l] = EntryAt(parts, raws, q[l])
        /\ q[m] \in Candidates(parts, raws) /\ rs[m] = EntryAt(parts, raws, q[m])
        /\ Before(parts, raws, q[l], q[m])
    BY <1>1, <1>5 DEF Sorted
  <2>2. StartKey(rs[l]) \in Nat /\ StartKey(rs[m]) \in Nat
    BY <2>1, CandidateTypes
  <2>. QED
    BY <2>1, <2>2 DEF Before
<1>. QED
  BY <1>2, <1>3, <1>4, <1>5
=============================================================================
