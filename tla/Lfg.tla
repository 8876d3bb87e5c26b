-------------------------------- MODULE Lfg --------------------------------
(***************************************************************************)
(* The lagged Fibonacci generator that fills the padding of Wii discs      *)
(* (crates/rvz/src/lfg.rs): its reader side (Lfg) produces the stream of a *)
(* seed, its writer side (LaggedFibonacciGenerator) finds the seed of a    *)
(* stream by running the generator backward.  A byte is one bit here; the  *)
(* buffer of Cells bytes is the set of those that are 1.  The lags count   *)
(* in words of Word bytes.                                                 *)
(***************************************************************************)
EXTENDS Integers

CONSTANTS LfgK,      \* LFG_K: words of the buffer
          LfgJ,      \* LFG_J: the lag of forward and backward
          SeedWords, \* LFG_SEED_SIZE
          Word,      \* bytes of a word
          Block      \* BLOCK_TOTAL_SIZE: the stream starts over in each

ASSUME LfgAssumption ==
  /\ LfgJ \in Nat \ {0} /\ LfgK \in Nat /\ 2 * LfgJ <= LfgK
  /\ SeedWords \in Nat \ {0, 1} /\ SeedWords < LfgK
  /\ Word \in Nat \ {0} /\ Block \in Nat \ {0}

Cells == LfgK * Word
Lag == LfgJ * Word
SeedBytes == SeedWords * Word

Bit == {0, 1}
Buffers == SUBSET (0 .. Cells - 1)
Seeds == SUBSET (0 .. SeedBytes - 1)

-----------------------------------------------------------------------------
(* The generator.                                                          *)

\* The words behind the seed, each from three before it.
Expand ==
  [seed \in Seeds |->
     LET b[x \in 0 .. Cells - 1] ==
           IF x < SeedBytes THEN x \in seed
           ELSE b[x - SeedBytes] # (b[x - SeedBytes + Word] # b[x - Word])
     IN  {x \in 0 .. Cells - 1 : b[x]}]

\* One generation on: each byte xored with the byte a lag before it, which
\* below the lag is one of the earlier generation.
Follows(next, buf) ==
  \A x \in 0 .. Cells - 1 :
    (x \in next) = ((x \in buf) # (IF x < Lag THEN x + Cells - Lag \in buf ELSE x - Lag \in next))
Forward == [buf \in Buffers |-> CHOOSE next \in Buffers : Follows(next, buf)]

\* The bytes below end but not below the lag, and those below it.
TakenBack(buf, end) ==
  {x \in 0 .. Cells - 1 : (x \in buf) # (x >= Lag /\ x < end /\ x - Lag \in buf)}
TakenBackLow(buf, end) ==
  {x \in 0 .. Cells - 1 : (x \in buf) # (x < Lag /\ x < end /\ x + Cells - Lag \in buf)}

\* Seeded bug: the words below the lag are taken back first.
BackwardLowFirst ==
  [buf \in Buffers |-> [end \in 0 .. Cells |-> TakenBack(TakenBackLow(buf, end), end)]]

\* backward(0, end): from the top down, so that a byte is taken back with one
\* that is still of the later generation, the lowest with ones that are of
\* the earlier one again.
Backward ==
  [buf \in Buffers |-> [end \in 0 .. Cells |-> TakenBackLow(TakenBack(buf, end), end)]]

\* Lfg::new runs four generations ahead of the expanded seed.
Warmup == 4

\* Generations that are looked at: those of a block, and two behind it.
Stages == (Block \div Cells) + 2

Generations ==
  [seed \in Seeds |->
     LET f[n \in 0 .. Warmup + Stages] ==
           IF n = 0 THEN Expand[seed] ELSE Forward[f[n - 1]]
     IN  f]

\* The bytes of the streams that are 1.  forward_bytes and bytes step from
\* one generation of the buffer to the next.
Ones ==
  {o \in Seeds \X (0 .. (Stages + 1) * Cells - 1) :
    o[2] % Cells \in Generations[o[1]][Warmup + (o[2] \div Cells)]}

\* Byte p of the stream of a seed.
Stream(seed, p) == IF <<seed, p>> \in Ones THEN 1 ELSE 0

-----------------------------------------------------------------------------
(* Finding the seed of n bytes of data that begin at byte p of a block.    *)

\* bytes_to_skip: only whole words of the stream are looked at.
Skip(p) == (((p + Word - 1) \div Word) * Word) - p

\* The generation at which get_seed_u32 finds the first whole word.
Turn(p) == (p + Skip(p)) \div Cells

\* The buffer of that generation: a buffer's worth of data put in its place
\* in the buffer, the words that belong to the next generation taken back.
BufferAt(d, p) ==
  LET m == (p + Skip(p)) % Cells
  IN  Backward[{x \in 0 .. Cells - 1 : d[Skip(p) + ((x + Cells - m) % Cells)] = 1}][m]

Rewound(b, turns) ==
  LET f[n \in 0 .. turns] == IF n = 0 THEN b ELSE Backward[f[n - 1]][Cells] IN f[turns]

\* Seeded bug: the generations before the data are not taken back.
OriginOfTurn(d, p) == Rewound(BufferAt(d, p), Warmup)

\* reinitialize: back to the expanded seed.
Origin(d, p) == Rewound(BufferAt(d, p), Turn(p) + Warmup)

\* initialize(true) checks the words behind the seed, with the filter of
\* get_seed_u32 every bit of them.  The set is empty, or the seed.
Expansions == {Expand[seed] : seed \in Seeds}
Found(d, p) == {buf \cap (0 .. SeedBytes - 1) : buf \in {Origin(d, p)} \cap Expansions}

\* The byte of the stream that data[0] is compared with: the place in the
\* buffer is that of p, the generation that of the first whole word.
ComparedFrom(p) == Turn(p) * Cells + (p % Cells)

\* Seeded bug: the bytes before the first whole word are not compared.
MatchesFromWord(d, p, seed, j) == j < Skip(p) \/ d[j] = Stream(seed, ComparedFrom(p) + j)
Matches(d, p, seed, j) == d[j] = Stream(seed, ComparedFrom(p) + j)

IsCount(d, n, p, seed, c) ==
  /\ c < n => ~Matches(d, p, seed, c)
  /\ \A j \in 0 .. c - 1 : Matches(d, p, seed, j)

\* get_seed: the seed and how many bytes it explains, {} when there are none.
GetSeed(d, n, p) ==
  IF n < Skip(p) + Cells THEN {}
  ELSE {f \in [seed : Found(d, p), count : 0 .. n] : IsCount(d, n, p, f.seed, f.count)}
=============================================================================
