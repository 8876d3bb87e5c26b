------------------------- MODULE Descrambler_proofs -------------------------
(* A block is decoded with the seed of its disc, and refused for a cause,  *)
(* for any number of processes, discs, phases, seeds and inodes, in any    *)
(* order of calls and whoever writes the cache file at once.               *)
EXTENDS DescramblerProps, TLAPS

-----------------------------------------------------------------------------
(* The invariant.                                                          *)

\* As long as all processes read one disc, every seed in memory and in a
\* file is of it.
SeedsOfDisc ==
  trusted =>
    /\ \A p, q \in Procs : disc[p] = disc[q]
    /\ \A p \in Procs : \A ph \in Phases : seeds[p][ph] \subseteq {Right(p, ph)}
    /\ \A p \in Procs : \A ph \in Phases : \A i \in Inodes :
         content[i].map[ph] \subseteq {Right(p, ph)}

\* A cached cipher is of the seed that is registered.
CipherOfSeed(p) == \A ph \in Phases : cipher[p][ph] # {} => cipher[p][ph] = seeds[p][ph]

\* A call that is going to decode has a seed, and one that has not returned
\* no outcome.
CallInOrder(p) ==
  /\ pc[p] = "decode" => seeds[p][call[p].phase] # {}
  /\ pc[p] \in {"open", "write", "rename"} /\ call[p].name = "unscramble" =>
       seeds[p][call[p].phase] # {}
  /\ pc[p] # "done" => outcome[p] \in {"none", "found"}

Decoded(p) ==
  pc[p] = "done" /\ outcome[p] = "data" =>
    /\ call[p].verify => call[p].damaged = {}
    /\ call[p].verify \/ trusted => cipher[p][call[p].phase] = {Right(p, call[p].phase)}

Refused(p) ==
  pc[p] = "done" /\ outcome[p] \in {"EdcMismatch", "SeedNotFound"} /\ call[p].damaged = {} =>
    \/ ~trusted
    \/ outcome[p] = "SeedNotFound" /\ Right(p, call[p].phase) >= limit[p]

Sane(p) == CipherOfSeed(p) /\ CallInOrder(p) /\ Decoded(p) /\ Refused(p)

IInv == TypeOK /\ SeedsOfDisc /\ \A p \in Procs : Sane(p)

-----------------------------------------------------------------------------
(* Types.                                                                  *)

LEMMA PhaseTypes ==
  /\ Mask \in Nat /\ Period \in Nat \ {0} /\ 0 \in Phases
  /\ \A n \in Nat : n % Period \in Phases /\ n % (Mask + 1) \in 0 .. Mask
  /\ \A s \in 0 .. Mask : s % (Mask + 1) = s
  /\ NoSeeds \in Maps
  /\ Empty \in Contents /\ Torn \in Contents /\ NoCall \in Calls
<1>1. PICK m, n \in Nat : m = Mask /\ n = Period /\ n > 0
  BY DescramblerAssumption
<1>2. /\ \A x \in Nat : x % n \in 0 .. n - 1 /\ x % (m + 1) \in 0 .. m
      /\ \A s \in 0 .. m : s % (m + 1) = s
  BY <1>1
<1>3. NoSeeds \in Maps
  BY DEF NoSeeds, Maps, Optional
<1>4. 0 \in Phases
  BY <1>1 DEF Phases
<1>. QED
  BY <1>1, <1>2, <1>3, <1>4 DEF Phases, Empty, Torn, Contents, NoCall, Calls

LEMMA Registers ==
  ASSUME TypeOK, NEW p \in Procs, NEW ph \in Phases, NEW word \in Nat, RegisterSeed(p, ph, word)
  PROVE  /\ seeds' \in [Procs -> Maps] /\ cipher' \in [Procs -> Maps]
         /\ \A q \in Procs \ {p} : seeds'[q] = seeds[q] /\ cipher'[q] = cipher[q]
         /\ seeds'[p][ph] = {word % (Mask + 1)} /\ cipher'[p][ph] = {}
         /\ \A x \in Phases \ {ph} : seeds'[p][x] = seeds[p][x] /\ cipher'[p][x] = cipher[p][x]
<1>1. PICK s \in 0 .. Mask : s = word % (Mask + 1)
  BY PhaseTypes
<1>2. {s} \in Optional(0 .. Mask) /\ {} \in Optional(0 .. Mask)
  BY DEF Optional
<1>3. /\ seeds \in [Procs -> Maps] /\ cipher \in [Procs -> Maps]
      /\ seeds' = [seeds EXCEPT ![p] = [@ EXCEPT ![ph] = {s}]]
      /\ cipher' = [cipher EXCEPT ![p] = [@ EXCEPT ![ph] = {}]]
  BY <1>1 DEF TypeOK, RegisterSeed
<1>4. seeds[p] \in Maps /\ cipher[p] \in Maps
  BY <1>3
<1>5. [seeds[p] EXCEPT ![ph] = {s}] \in Maps /\ [cipher[p] EXCEPT ![ph] = {}] \in Maps
  BY <1>2, <1>4 DEF Maps
<1>6. seeds' \in [Procs -> Maps] /\ cipher' \in [Procs -> Maps]
  BY <1>3, <1>5
<1>7. seeds'[p] = [seeds[p] EXCEPT ![ph] = {s}] /\ cipher'[p] = [cipher[p] EXCEPT ![ph] = {}]
  BY <1>3
<1>8. \A q \in Procs \ {p} : seeds'[q] = seeds[q] /\ cipher'[q] = cipher[q]
  BY <1>3
<1>. QED
  BY <1>1, <1>4, <1>6, <1>7, <1>8 DEF Maps

\* A seed of a process is one of 16 bits at most, and its cipher that seed.
LEMMA SeedOrNone ==
  ASSUME TypeOK, NEW p \in Procs, NEW ph \in Phases
  PROVE  /\ Right(p, ph) \in 0 .. Mask
         /\ \/ seeds[p][ph] = {}
            \/ \E s \in 0 .. Mask : seeds[p][ph] = {s}
<1>1. seeds[p] \in Maps /\ disc[p] \in Discs
  BY DEF TypeOK
<1>. QED
  BY <1>1, DescramblerAssumption DEF Maps, Optional, Right

LEMMA CipherIsSeed ==
  ASSUME TypeOK, NEW p \in Procs, CipherOfSeed(p), NEW ph \in Phases
  PROVE  Cipher(p, ph) = seeds[p][ph]
<1>1. CASE cipher[p][ph] # {}
  BY <1>1 DEF CipherOfSeed, Cipher
<1>2. CASE cipher[p][ph] = {} /\ seeds[p][ph] = {}
  BY <1>2 DEF Cipher
<1>3. CASE cipher[p][ph] = {} /\ seeds[p][ph] # {}
  <2>1. PICK s \in 0 .. Mask : seeds[p][ph] = {s}
    BY <1>3, SeedOrNone
  <2>2. {t % (Mask + 1) : t \in {s}} = {s}
    BY PhaseTypes
  <2>. QED
    BY <1>3, <2>1, <2>2 DEF Cipher
<1>. QED
  BY <1>1, <1>2, <1>3

\* The search finds the seed of the disc if it gets there: no other passes.
LEMMA SearchFinds ==
  ASSUME TypeOK, NEW p \in Procs, NEW ph \in Phases, NEW d
  PROVE  /\ Candidates(p, ph, d) \subseteq {Right(p, ph)}
         /\ d = {} /\ Candidates(p, ph, d) = {} => Right(p, ph) >= limit[p]
<1>1. Candidates(p, ph, d) \subseteq {Right(p, ph)}
  BY DEF Candidates, Passes
<1>2. PICK r \in Nat : r = Right(p, ph)
  BY SeedOrNone, PhaseTypes
<1>3. PICK n \in Int : n = limit[p]
  <2>1. limit[p] \in Limits
    BY DEF TypeOK
  <2>2. Limits \subseteq Int
    BY DescramblerAssumption
  <2>. QED
    BY <2>1, <2>2
<1>4. ASSUME d = {}, r < n PROVE r \in Candidates(p, ph, d)
  BY <1>2, <1>3, <1>4 DEF Candidates, Passes
<1>. QED
  BY <1>1, <1>2, <1>3, <1>4

-----------------------------------------------------------------------------
(* The steps.                                                              *)

\* The other processes are not touched by what one does in its memory.
LEMMA OthersSane ==
  ASSUME IInv, NEW p \in Procs, Sane(p)', trusted' => trusted,
         \A q \in Procs \ {p} :
           /\ pc'[q] = pc[q] /\ call'[q] = call[q] /\ outcome'[q] = outcome[q]
           /\ seeds'[q] = seeds[q] /\ cipher'[q] = cipher[q]
           /\ limit'[q] = limit[q] /\ disc'[q] = disc[q]
  PROVE  \A q \in Procs : Sane(q)'
<1>. SUFFICES ASSUME NEW q \in Procs \ {p} PROVE Sane(q)'
  OBVIOUS
<1>1. /\ pc'[q] = pc[q] /\ call'[q] = call[q] /\ outcome'[q] = outcome[q]
      /\ seeds'[q] = seeds[q] /\ cipher'[q] = cipher[q]
      /\ limit'[q] = limit[q] /\ disc'[q] = disc[q]
  OBVIOUS
<1>2. Sane(q)
  BY DEF IInv
<1>3. CipherOfSeed(q)'
  BY <1>1, <1>2 DEF Sane, CipherOfSeed
<1>4. CallInOrder(q)'
  BY <1>1, <1>2 DEF Sane, CallInOrder
<1>5. Right(q, call[q].phase)' = Right(q, call[q].phase)
  BY <1>1 DEF Right
<1>6. Decoded(q)'
  BY <1>1, <1>2, <1>5 DEF Sane, Decoded
<1>7. Refused(q)'
  BY <1>1, <1>2, <1>5 DEF Sane, Refused
<1>. QED
  BY <1>3, <1>4, <1>6, <1>7 DEF Sane

\* A step that leaves the seeds and discs as they are.
LEMMA SeedsKept ==
  ASSUME SeedsOfDisc, UNCHANGED <<disc, seeds, content, trusted>>
  PROVE  SeedsOfDisc'
BY DEF SeedsOfDisc, Right

LEMMA InitInvariant == Init => IInv
<1>. SUFFICES ASSUME Init PROVE IInv
  OBVIOUS
<1>1. TypeOK
  BY PhaseTypes, DescramblerAssumption DEF Init, TypeOK, Optional, Outcomes
<1>2. SeedsOfDisc
  BY DEF Init, SeedsOfDisc, NoSeeds, Empty
<1>3. \A p \in Procs : Sane(p)
  BY DEF Init, Sane, CipherOfSeed, CallInOrder, Decoded, Refused, NoSeeds
<1>. QED
  BY <1>1, <1>2, <1>3 DEF IInv

LEMMA NewStep == ASSUME IInv, NEW p \in Procs, New(p) PROVE IInv'
<1>1. PICK d \in Discs, c \in BOOLEAN :
        /\ disc' = [disc EXCEPT ![p] = d]
        /\ cached' = [cached EXCEPT ![p] = c]
        /\ trusted' = (trusted /\ d = disc[p])
        /\ \/ \E m \in Loaded : seeds' = [seeds EXCEPT ![p] = m]
           \/ seeds' = [seeds EXCEPT ![p] = NoSeeds]
  BY DEF New
<1>2. /\ pc[p] = "off"
      /\ cipher' = [cipher EXCEPT ![p] = NoSeeds]
      /\ limit' = [limit EXCEPT ![p] = Mask]
      /\ pc' = [pc EXCEPT ![p] = "idle"]
      /\ UNCHANGED <<calls, files, overlapped>>
  BY DEF New
<1>3. TypeOK /\ SeedsOfDisc
  BY DEF IInv
<1>4. PICK m : /\ seeds' = [seeds EXCEPT ![p] = m]
               /\ m = NoSeeds \/ \E i \in Inodes : m = content[i].map
  <2>1. CASE seeds' = [seeds EXCEPT ![p] = NoSeeds]
    BY <2>1
  <2>2. CASE \E n \in Loaded : seeds' = [seeds EXCEPT ![p] = n]
    <3>1. PICK n \in Loaded : seeds' = [seeds EXCEPT ![p] = n]
      BY <2>2
    <3>2. PICK i \in path : n = content[i].map
      BY DEF Loaded
    <3>3. i \in Inodes
      BY <1>3 DEF TypeOK, Optional
    <3>. QED
      BY <3>1, <3>2, <3>3
  <2>. QED
    BY <1>1, <2>1, <2>2
<1>5. m \in Maps
  <2>1. \A i \in Inodes : content[i] \in Contents
    BY <1>3 DEF TypeOK
  <2>. QED
    BY <1>4, <2>1, PhaseTypes DEF Contents
<1>6. TypeOK'
  <2>1. Mask \in Limits
    BY DescramblerAssumption
  <2>2. NoSeeds \in Maps
    BY PhaseTypes
  <2>3. UNCHANGED <<call, outcome, path, tmp, content, fd, overlapped>>
    BY <1>2 DEF calls, files
  <2>. QED
    BY <1>1, <1>2, <1>3, <1>4, <1>5, <2>1, <2>2, <2>3 DEF TypeOK
<1>7. SeedsOfDisc'
  <2>. SUFFICES ASSUME trusted' PROVE SeedsOfDisc'
    BY DEF SeedsOfDisc
  <2>1. trusted /\ disc' = disc /\ content' = content
    BY <1>1, <1>2, <1>3 DEF files, TypeOK
  <2>2. \A ph \in Phases : m[ph] \subseteq {Right(p, ph)}
    BY <1>3, <1>4, <2>1 DEF SeedsOfDisc, NoSeeds
  <2>3. \A q \in Procs : seeds'[q] = IF q = p THEN m ELSE seeds[q]
    BY <1>3, <1>4 DEF TypeOK
  <2>. QED
    BY <1>3, <2>1, <2>2, <2>3 DEF SeedsOfDisc, Right
<1>8. Sane(p)'
  <2>1. cipher'[p] = NoSeeds /\ pc'[p] = "idle" /\ outcome'[p] = outcome[p]
    BY <1>2, <1>3 DEF TypeOK, calls
  <2>2. outcome[p] \in {"none", "found"}
    BY <1>2 DEF IInv, Sane, CallInOrder
  <2>. QED
    BY <2>1, <2>2 DEF Sane, CipherOfSeed, CallInOrder, Decoded, Refused, NoSeeds
<1>9. \A q \in Procs : Sane(q)'
  BY <1>1, <1>2, <1>3, <1>4, <1>8, OthersSane DEF TypeOK, calls
<1>. QED
  BY <1>6, <1>7, <1>9 DEF IInv

LEMMA ExitStep == ASSUME IInv, NEW p \in Procs, Exit(p) PROVE IInv'
<1>1. TypeOK /\ SeedsOfDisc
  BY DEF IInv
<1>2. TypeOK'
  <2>1. Mask \in Limits /\ NoSeeds \in Maps /\ NoCall \in Calls
    BY DescramblerAssumption, PhaseTypes
  <2>2. {} \in Optional(Inodes) /\ "none" \in Outcomes
    BY DEF Optional, Outcomes
  <2>. QED
    BY <1>1, <2>1, <2>2 DEF TypeOK, Exit, history
<1>3. \A q \in Procs : seeds'[q] = IF q = p THEN NoSeeds ELSE seeds[q]
  BY <1>1 DEF TypeOK, Exit
<1>4. SeedsOfDisc'
  BY <1>1, <1>3 DEF SeedsOfDisc, Exit, history, NoSeeds, Right
<1>5. Sane(p)'
  <2>1. cipher'[p] = NoSeeds /\ pc'[p] = "off" /\ outcome'[p] = "none"
    BY <1>1 DEF TypeOK, Exit
  <2>. QED
    BY <2>1 DEF Sane, CipherOfSeed, CallInOrder, Decoded, Refused, NoSeeds
<1>6. \A q \in Procs : Sane(q)'
  BY <1>1, <1>5, OthersSane DEF TypeOK, Exit, history
<1>. QED
  BY <1>2, <1>4, <1>6 DEF IInv

LEMMA SetSeedStep == ASSUME IInv, NEW p \in Procs, SetSeed(p) PROVE IInv'
<1>1. PICK x \in 0 .. 2 * Period - 1, word \in Words :
        /\ RegisterSeed(p, x % Period, word)
        /\ trusted' = (trusted /\ word % (Mask + 1) = Right(p, x % Period))
  BY DEF SetSeed
<1>2. PICK ph \in Phases : ph = x % Period
  <2>1. x \in Nat
    BY PhaseTypes
  <2>. QED
    BY <2>1, PhaseTypes
<1>3. word \in Nat
  BY DescramblerAssumption
<1>4. TypeOK /\ SeedsOfDisc
  BY DEF IInv
<1>5. /\ seeds' \in [Procs -> Maps] /\ cipher' \in [Procs -> Maps]
      /\ \A q \in Procs \ {p} : seeds'[q] = seeds[q] /\ cipher'[q] = cipher[q]
      /\ seeds'[p][ph] = {word % (Mask + 1)} /\ cipher'[p][ph] = {}
      /\ \A y \in Phases \ {ph} : seeds'[p][y] = seeds[p][y] /\ cipher'[p][y] = cipher[p][y]
  BY <1>1, <1>2, <1>3, <1>4, Registers
<1>6. pc[p] = "idle" /\ UNCHANGED <<disc, limit, cached, pc, call, outcome, path, tmp, content, fd,
                                  overlapped>>
  BY DEF SetSeed, drive, calls, files
<1>7. TypeOK'
  BY <1>1, <1>4, <1>5, <1>6 DEF TypeOK
<1>8. SeedsOfDisc'
  <2>. SUFFICES ASSUME trusted' PROVE SeedsOfDisc'
    BY DEF SeedsOfDisc
  <2>1. trusted /\ word % (Mask + 1) = Right(p, ph)
    BY <1>1, <1>2
  <2>2. \A q \in Procs : \A y \in Phases : Right(q, y)' = Right(q, y)
    BY <1>6 DEF Right
  <2>3. \A q \in Procs : \A y \in Phases : seeds'[q][y] \subseteq {Right(q, y)}
    BY <1>4, <1>5, <2>1 DEF SeedsOfDisc
  <2>. QED
    BY <1>4, <1>6, <2>1, <2>2, <2>3 DEF SeedsOfDisc
<1>9. Sane(p)'
  <2>1. Sane(p) /\ pc'[p] = "idle" /\ outcome'[p] = outcome[p]
    BY <1>6 DEF IInv
  <2>2. CipherOfSeed(p)'
    BY <1>5, <2>1 DEF Sane, CipherOfSeed
  <2>. QED
    BY <1>6, <2>1, <2>2 DEF Sane, CallInOrder, Decoded, Refused
<1>10. trusted' => trusted
  BY <1>1
<1>11. \A q \in Procs : Sane(q)'
  BY <1>5, <1>6, <1>9, <1>10, OthersSane
<1>. QED
  BY <1>7, <1>8, <1>11 DEF IInv

LEMMA SetMaxSeedSearchStep == ASSUME IInv, NEW p \in Procs, SetMaxSeedSearch(p) PROVE IInv'
<1>1. PICK n \in Limits : limit' = [limit EXCEPT ![p] = n]
  BY DEF SetMaxSeedSearch
<1>2. pc[p] = "idle" /\ UNCHANGED <<disc, cached, seeds, cipher, pc, call, outcome, path, tmp,
                                  content, fd, trusted, overlapped>>
  BY DEF SetMaxSeedSearch, cipherVars, calls, files, history
<1>3. TypeOK /\ SeedsOfDisc /\ Sane(p)
  BY DEF IInv
<1>4. TypeOK'
  BY <1>1, <1>2, <1>3 DEF TypeOK
<1>5. SeedsOfDisc'
  BY <1>2, <1>3, SeedsKept
<1>6. Sane(p)'
  BY <1>2, <1>3 DEF Sane, CipherOfSeed, CallInOrder, Decoded, Refused
<1>7. \A q \in Procs : Sane(q)'
  BY <1>1, <1>2, <1>3, <1>6, OthersSane DEF TypeOK
<1>. QED
  BY <1>4, <1>5, <1>7 DEF IInv

LEMMA BlockTypes ==
  ASSUME NEW name \in {"find", "unscramble"}, NEW c \in Blocks(name)
  PROVE  c \in Calls /\ c.name = name
<1>1. PICK s \in Sectors, d \in Damages, v \in Verifies(name) :
        c = [name |-> name, phase |-> (s \div Period) % Period, damaged |-> d, verify |-> v]
  BY DEF Blocks
<1>2. s \div Period \in Nat
  BY DescramblerAssumption
<1>3. (s \div Period) % Period \in Phases
  BY <1>2, PhaseTypes
<1>4. d \subseteq Phases /\ v \in BOOLEAN
  BY DescramblerAssumption DEF Verifies
<1>. QED
  BY <1>1, <1>3, <1>4 DEF Calls

LEMMA SearchStep ==
  ASSUME IInv, NEW p \in Procs, pc[p] = "idle", NEW c \in Calls, NEW after \in {"done", "decode"},
         Search(p, c, after), UNCHANGED <<drive, files, history>>
  PROVE  IInv'
<1>1. TypeOK /\ SeedsOfDisc /\ Sane(p)
  BY DEF IInv
<1>2. c.phase \in Phases
  BY DEF Calls
<1>3. UNCHANGED <<disc, limit, cached, path, tmp, content, fd, trusted, overlapped>>
  BY DEF drive, files, history
<1>4. PICK next \in {"open", "done", "decode"}, o \in {"found", "none", "SeedNotFound"} :
        /\ Begin(p, c, next) /\ Returns(p, o)
        /\ \/ \E s \in Candidates(p, c.phase, c.damaged) :
                RegisterSeed(p, c.phase, s) /\ o # "SeedNotFound"
           \/ /\ Candidates(p, c.phase, c.damaged) = {} /\ next = "done" /\ o = "SeedNotFound"
              /\ UNCHANGED cipherVars
  BY DEF Search
<1>5. /\ call'[p] = c /\ pc'[p] = next /\ outcome'[p] = o
      /\ call' \in [Procs -> Calls] /\ outcome' \in [Procs -> Outcomes]
      /\ pc' \in [Procs -> {"off", "idle", "open", "write", "rename", "decode", "done"}]
      /\ \A q \in Procs \ {p} : call'[q] = call[q] /\ pc'[q] = pc[q] /\ outcome'[q] = outcome[q]
  BY <1>1, <1>4 DEF TypeOK, Begin, Returns, Outcomes
<1>6. CASE \E s \in Candidates(p, c.phase, c.damaged) :
             RegisterSeed(p, c.phase, s) /\ o # "SeedNotFound"
  <2>1. PICK s \in Candidates(p, c.phase, c.damaged) : RegisterSeed(p, c.phase, s)
    BY <1>6
  <2>2. s = Right(p, c.phase) /\ s \in 0 .. Mask
    BY <1>1, <1>2, SearchFinds, SeedOrNone
  <2>3. s \in Nat /\ s % (Mask + 1) = s
    BY <2>2, PhaseTypes
  <2>4. /\ seeds' \in [Procs -> Maps] /\ cipher' \in [Procs -> Maps]
        /\ \A q \in Procs \ {p} : seeds'[q] = seeds[q] /\ cipher'[q] = cipher[q]
        /\ seeds'[p][c.phase] = {s} /\ cipher'[p][c.phase] = {}
        /\ \A y \in Phases \ {c.phase} : seeds'[p][y] = seeds[p][y] /\ cipher'[p][y] = cipher[p][y]
    BY <1>1, <1>2, <2>1, <2>3, Registers
  <2>5. TypeOK'
    BY <1>1, <1>3, <1>5, <2>4 DEF TypeOK
  <2>6. SeedsOfDisc'
    <3>1. trusted => \A q \in Procs : \A y \in Phases : seeds'[q][y] \subseteq {Right(q, y)}
      BY <1>1, <2>2, <2>4 DEF SeedsOfDisc
    <3>2. \A q \in Procs : \A y \in Phases : Right(q, y)' = Right(q, y)
      BY <1>3 DEF Right
    <3>. QED
      BY <1>1, <1>3, <3>1, <3>2 DEF SeedsOfDisc
  <2>7. Sane(p)'
    <3>1. CipherOfSeed(p)'
      BY <1>1, <2>4 DEF Sane, CipherOfSeed
    <3>2. seeds'[p][call'[p].phase] # {} /\ outcome'[p] \in {"found", "none"}
      BY <1>4, <1>5, <1>6, <2>4
    <3>. QED
      BY <3>1, <3>2 DEF Sane, CallInOrder, Decoded, Refused
  <2>8. \A q \in Procs : Sane(q)'
    BY <1>3, <1>5, <2>4, <2>7, OthersSane
  <2>. QED
    BY <2>5, <2>6, <2>8 DEF IInv
<1>7. CASE /\ Candidates(p, c.phase, c.damaged) = {} /\ next = "done" /\ o = "SeedNotFound"
           /\ UNCHANGED cipherVars
  <2>1. seeds' = seeds /\ cipher' = cipher
    BY <1>7 DEF cipherVars
  <2>2. TypeOK'
    BY <1>1, <1>3, <1>5, <2>1 DEF TypeOK
  <2>3. SeedsOfDisc'
    BY <1>1, <1>3, <2>1, SeedsKept
  <2>4. c.damaged = {} => Right(p, c.phase) >= limit[p]
    BY <1>1, <1>2, <1>7, SearchFinds
  <2>5. Refused(p)'
    BY <1>3, <1>5, <1>7, <2>4 DEF Refused, Right
  <2>6. CipherOfSeed(p)' /\ CallInOrder(p)' /\ Decoded(p)'
    BY <1>1, <1>5, <1>7, <2>1 DEF Sane, CipherOfSeed, CallInOrder, Decoded
  <2>7. Sane(p)'
    BY <2>5, <2>6 DEF Sane
  <2>8. \A q \in Procs : Sane(q)'
    BY <1>3, <1>5, <2>1, <2>7, OthersSane
  <2>. QED
    BY <2>2, <2>3, <2>8 DEF IInv
<1>. QED
  BY <1>4, <1>6, <1>7

LEMMA FindSeedStep == ASSUME IInv, NEW p \in Procs, FindSeed(p) PROVE IInv'
<1>1. PICK c \in Blocks("find") : Search(p, c, "done")
  BY DEF FindSeed
<1>. QED
  BY <1>1, BlockTypes, SearchStep DEF FindSeed

LEMMA UnscrambleStep == ASSUME IInv, NEW p \in Procs, Unscramble(p) PROVE IInv'
<1>1. PICK c \in Blocks("unscramble") :
        \/ seeds[p][c.phase] = {} /\ Search(p, c, "decode")
        \/ /\ seeds[p][c.phase] # {} /\ Begin(p, c, "decode")
           /\ UNCHANGED <<cipherVars, outcome>>
  BY DEF Unscramble
<1>2. c \in Calls
  BY BlockTypes
<1>3. CASE Search(p, c, "decode")
  BY <1>2, <1>3, SearchStep DEF Unscramble
<1>4. CASE /\ seeds[p][c.phase] # {} /\ Begin(p, c, "decode")
           /\ UNCHANGED <<cipherVars, outcome>>
  <2>1. TypeOK /\ SeedsOfDisc /\ Sane(p)
    BY DEF IInv
  <2>2. pc[p] = "idle" /\ UNCHANGED <<disc, limit, cached, seeds, cipher, outcome, path, tmp,
                                    content, fd, trusted, overlapped>>
    BY <1>4 DEF Unscramble, drive, files, history, cipherVars
  <2>3. /\ call'[p] = c /\ pc'[p] = "decode" /\ call' \in [Procs -> Calls]
        /\ pc' \in [Procs -> {"off", "idle", "open", "write", "rename", "decode", "done"}]
        /\ \A q \in Procs \ {p} : call'[q] = call[q] /\ pc'[q] = pc[q]
    BY <1>2, <1>4, <2>1 DEF TypeOK, Begin
  <2>4. TypeOK'
    BY <2>1, <2>2, <2>3 DEF TypeOK
  <2>5. SeedsOfDisc'
    BY <2>1, <2>2, SeedsKept
  <2>6. Sane(p)'
    BY <1>4, <2>1, <2>2, <2>3 DEF Sane, CipherOfSeed, CallInOrder, Decoded, Refused
  <2>7. \A q \in Procs : Sane(q)'
    BY <2>2, <2>3, <2>6, OthersSane
  <2>. QED
    BY <2>4, <2>5, <2>7 DEF IInv
<1>. QED
  BY <1>1, <1>3, <1>4

LEMMA UnscrambleTooShortStep == ASSUME IInv, NEW p \in Procs, UnscrambleTooShort(p) PROVE IInv'
<1>1. TypeOK /\ SeedsOfDisc /\ Sane(p)
  BY DEF IInv
<1>2. UNCHANGED <<disc, limit, cached, seeds, cipher, path, tmp, content, fd, trusted, overlapped>>
  BY DEF UnscrambleTooShort, drive, files, history, cipherVars
<1>3. NoCall \in Calls
  BY PhaseTypes
<1>4. /\ pc'[p] = "done" /\ outcome'[p] = "RawTooShort" /\ call' \in [Procs -> Calls]
      /\ outcome' \in [Procs -> Outcomes]
      /\ pc' \in [Procs -> {"off", "idle", "open", "write", "rename", "decode", "done"}]
      /\ \A q \in Procs \ {p} : call'[q] = call[q] /\ pc'[q] = pc[q] /\ outcome'[q] = outcome[q]
  BY <1>1, <1>3 DEF TypeOK, UnscrambleTooShort, Begin, Returns, Outcomes
<1>5. TypeOK'
  BY <1>1, <1>2, <1>4 DEF TypeOK
<1>6. SeedsOfDisc'
  BY <1>1, <1>2, SeedsKept
<1>7. Sane(p)'
  BY <1>1, <1>2, <1>4 DEF Sane, CipherOfSeed, CallInOrder, Decoded, Refused
<1>8. \A q \in Procs : Sane(q)'
  BY <1>2, <1>4, <1>7, OthersSane
<1>. QED
  BY <1>5, <1>6, <1>8 DEF IInv

LEMMA DecodeStep == ASSUME IInv, NEW p \in Procs, Decode(p) PROVE IInv'
<1>1. TypeOK /\ SeedsOfDisc /\ Sane(p)
  BY DEF IInv
<1>2. PICK ph \in Phases : ph = call[p].phase
  BY <1>1 DEF TypeOK, Calls
<1>3. Cipher(p, ph) = seeds[p][ph]
  BY <1>1, CipherIsSeed DEF Sane
<1>4. PICK s \in 0 .. Mask : seeds[p][ph] = {s}
  BY <1>1, <1>2, SeedOrNone DEF Sane, CallInOrder, Decode
<1>5. /\ UNCHANGED <<disc, limit, cached, seeds, call, path, tmp, content, fd, trusted, overlapped>>
      /\ cipher' = [cipher EXCEPT ![p] = [@ EXCEPT ![ph] = {s}]]
      /\ pc' = [pc EXCEPT ![p] = "done"]
  BY <1>2, <1>3, <1>4 DEF Decode, drive, files, history
<1>6. PICK o \in {"data", "EdcMismatch"} :
        /\ Returns(p, o)
        /\ o = "data" /\ call[p].verify => Verified(p)
        /\ o = "EdcMismatch" => ~Verified(p)
  BY DEF Decode
<1>7. /\ cipher' \in [Procs -> Maps] /\ cipher'[p][ph] = {s}
      /\ \A q \in Procs \ {p} : cipher'[q] = cipher[q]
      /\ \A y \in Phases \ {ph} : cipher'[p][y] = cipher[p][y]
  <2>1. cipher \in [Procs -> Maps] /\ cipher[p] \in Maps
    BY <1>1 DEF TypeOK
  <2>2. {s} \in Optional(0 .. Mask)
    BY DEF Optional
  <2>3. [cipher[p] EXCEPT ![ph] = {s}] \in Maps
    BY <2>1, <2>2 DEF Maps
  <2>4. cipher'[p] = [cipher[p] EXCEPT ![ph] = {s}]
    BY <1>5, <2>1
  <2>. QED
    BY <1>5, <2>1, <2>3, <2>4 DEF Maps
<1>8. /\ pc'[p] = "done" /\ outcome'[p] = o /\ outcome' \in [Procs -> Outcomes]
      /\ pc' \in [Procs -> {"off", "idle", "open", "write", "rename", "decode", "done"}]
      /\ \A q \in Procs \ {p} : pc'[q] = pc[q] /\ outcome'[q] = outcome[q]
  BY <1>1, <1>5, <1>6 DEF TypeOK, Returns, Outcomes
<1>9. Verified(p) <=> \A k \in Phases : k \notin call[p].damaged /\ s = Right(p, ph)
  BY <1>2, <1>3, <1>4 DEF Verified, Passes
<1>10. Decoded(p)'
  <2>. SUFFICES ASSUME o = "data"
                PROVE  /\ call[p].verify => call[p].damaged = {}
                       /\ call[p].verify \/ trusted => s = Right(p, ph)
    BY <1>2, <1>5, <1>7, <1>8 DEF Decoded, Right
  <2>1. call[p].verify => Verified(p)
    BY <1>6
  <2>2. call[p].damaged \subseteq Phases
    BY <1>1 DEF TypeOK, Calls
  <2>3. trusted => s = Right(p, ph)
    BY <1>1, <1>4 DEF SeedsOfDisc
  <2>. QED
    BY <1>2, <1>9, <2>1, <2>2, <2>3
<1>11. Refused(p)'
  <2>. SUFFICES ASSUME o = "EdcMismatch", call[p].damaged = {} PROVE ~trusted
    BY <1>5, <1>8 DEF Refused
  <2>1. s # Right(p, ph)
    BY <1>6, <1>9
  <2>2. trusted => s = Right(p, ph)
    BY <1>1, <1>4 DEF SeedsOfDisc
  <2>. QED
    BY <2>1, <2>2
<1>12. CipherOfSeed(p)' /\ CallInOrder(p)'
  <2>1. CipherOfSeed(p)'
    BY <1>1, <1>4, <1>5, <1>7 DEF Sane, CipherOfSeed
  <2>2. CallInOrder(p)'
    BY <1>8 DEF CallInOrder
  <2>. QED
    BY <2>1, <2>2
<1>13. TypeOK'
  BY <1>1, <1>5, <1>7, <1>8 DEF TypeOK
<1>14. SeedsOfDisc'
  BY <1>1, <1>5, SeedsKept
<1>15. \A q \in Procs : Sane(q)'
  BY <1>5, <1>7, <1>8, <1>10, <1>11, <1>12, OthersSane DEF Sane
<1>. QED
  BY <1>13, <1>14, <1>15 DEF IInv

LEMMA ReturnStep == ASSUME IInv, NEW p \in Procs, Return(p) PROVE IInv'
<1>1. TypeOK /\ SeedsOfDisc /\ Sane(p)
  BY DEF IInv
<1>2. UNCHANGED <<disc, limit, cached, seeds, cipher, path, tmp, content, fd, trusted, overlapped>>
  BY DEF Return, drive, files, history, cipherVars
<1>3. NoCall \in Calls
  BY PhaseTypes
<1>4. /\ pc'[p] = "idle" /\ outcome'[p] = "none" /\ call' \in [Procs -> Calls]
      /\ outcome' \in [Procs -> Outcomes]
      /\ pc' \in [Procs -> {"off", "idle", "open", "write", "rename", "decode", "done"}]
      /\ \A q \in Procs \ {p} : call'[q] = call[q] /\ pc'[q] = pc[q] /\ outcome'[q] = outcome[q]
  BY <1>1, <1>3 DEF TypeOK, Return, Outcomes
<1>5. TypeOK'
  BY <1>1, <1>2, <1>4 DEF TypeOK
<1>6. SeedsOfDisc'
  BY <1>1, <1>2, SeedsKept
<1>7. Sane(p)'
  BY <1>1, <1>2, <1>4 DEF Sane, CipherOfSeed, CallInOrder, Decoded, Refused
<1>8. \A q \in Procs : Sane(q)'
  BY <1>2, <1>4, <1>7, OthersSane
<1>. QED
  BY <1>5, <1>6, <1>8 DEF IInv

\* A step on the files that moves a call on.
LEMMA FileStep ==
  ASSUME IInv, NEW p \in Procs, NEW next \in {"open", "write", "rename", "decode", "done"},
         pc[p] \in {"open", "write", "rename"}, pc' = [pc EXCEPT ![p] = next],
         next = "decode" => call[p].name = "unscramble",
         UNCHANGED <<drive, cipherVars, calls, trusted>>,
         content' \in [Inodes -> Contents], path' \in Optional(Inodes), tmp' \in Optional(Inodes),
         fd' \in [Procs -> Optional(Inodes)], overlapped' \in BOOLEAN,
         \A i \in Inodes : \/ content'[i] = content[i] \/ content'[i] = Whole(seeds[p])
                           \/ content'[i] \in {Empty, Torn}
  PROVE  IInv'
<1>1. TypeOK /\ SeedsOfDisc /\ Sane(p)
  BY DEF IInv
<1>2. UNCHANGED <<disc, limit, cached, seeds, cipher, call, outcome, trusted>>
  BY DEF drive, cipherVars, calls
<1>3. /\ pc'[p] = next
      /\ pc' \in [Procs -> {"off", "idle", "open", "write", "rename", "decode", "done"}]
      /\ \A q \in Procs \ {p} : pc'[q] = pc[q]
  BY <1>1 DEF TypeOK
<1>4. TypeOK'
  BY <1>1, <1>2, <1>3 DEF TypeOK
<1>5. SeedsOfDisc'
  <2>. SUFFICES ASSUME trusted PROVE SeedsOfDisc'
    BY <1>2 DEF SeedsOfDisc
  <2>1. \A q \in Procs : \A ph \in Phases : Right(q, ph)' = Right(q, ph) /\ Right(q, ph) = Right(p, ph)
    BY <1>1, <1>2 DEF SeedsOfDisc, Right
  <2>2. \A ph \in Phases, i \in Inodes : content'[i].map[ph] \subseteq {Right(p, ph)}
    BY <1>1, <2>1 DEF SeedsOfDisc, Whole, Empty, Torn, NoSeeds
  <2>. QED
    BY <1>1, <1>2, <2>1, <2>2 DEF SeedsOfDisc
<1>6. Sane(p)'
  <2>1. outcome[p] \in {"none", "found"}
    BY <1>1 DEF Sane, CallInOrder
  <2>2. CipherOfSeed(p)' /\ Decoded(p)' /\ Refused(p)'
    BY <1>1, <1>2, <2>1 DEF Sane, CipherOfSeed, Decoded, Refused
  <2>3. CallInOrder(p)'
    BY <1>1, <1>2, <1>3 DEF Sane, CallInOrder
  <2>. QED
    BY <2>2, <2>3 DEF Sane
<1>7. \A q \in Procs : Sane(q)'
  BY <1>2, <1>3, <1>6, OthersSane
<1>. QED
  BY <1>4, <1>5, <1>7 DEF IInv

LEMMA SaveStep == ASSUME IInv, NEW p \in Procs, Save(p) PROVE IInv'
<1>1. TypeOK /\ SeedsOfDisc /\ Sane(p)
  BY DEF IInv
<1>2. /\ pc[p] = "idle"
      /\ UNCHANGED <<disc, limit, cached, seeds, cipher, outcome, path, tmp, content, fd, trusted,
                     overlapped>>
  BY DEF Save, drive, files, history, cipherVars
<1>3. NoCall \in Calls /\ NoCall.name # "unscramble"
  BY PhaseTypes DEF NoCall
<1>4. /\ pc'[p] = "open" /\ call'[p] = NoCall /\ call' \in [Procs -> Calls]
      /\ pc' \in [Procs -> {"off", "idle", "open", "write", "rename", "decode", "done"}]
      /\ \A q \in Procs \ {p} : call'[q] = call[q] /\ pc'[q] = pc[q]
  BY <1>1, <1>3 DEF TypeOK, Save, Begin
<1>5. TypeOK'
  BY <1>1, <1>2, <1>4 DEF TypeOK
<1>6. SeedsOfDisc'
  BY <1>1, <1>2, SeedsKept
<1>7. Sane(p)'
  BY <1>1, <1>2, <1>3, <1>4 DEF Sane, CipherOfSeed, CallInOrder, Decoded, Refused
<1>8. \A q \in Procs : Sane(q)'
  BY <1>2, <1>4, <1>7, OthersSane
<1>. QED
  BY <1>5, <1>6, <1>8 DEF IInv

LEMMA OpenStep == ASSUME IInv, NEW p \in Procs, Open(p) PROVE IInv'
<1>1. TypeOK
  BY DEF IInv
<1>2. PICK next \in {"write", "decode", "done"} :
        /\ pc' = [pc EXCEPT ![p] = next]
        /\ next = "decode" => call[p].name = "unscramble"
  BY DEF Open, AfterSave
<1>3. /\ content' \in [Inodes -> Contents] /\ path' \in Optional(Inodes)
      /\ tmp' \in Optional(Inodes) /\ fd' \in [Procs -> Optional(Inodes)]
      /\ overlapped' \in BOOLEAN
      /\ \A j \in Inodes : content'[j] = content[j] \/ content'[j] = Empty
  <2>1. CASE UNCHANGED <<tmp, content, fd, overlapped>>
    BY <1>1, <2>1 DEF TypeOK, Open
  <2>2. CASE \E i \in IF tmp # {} THEN tmp ELSE Inodes \ InUse :
               /\ tmp' = {i} /\ content' = [content EXCEPT ![i] = Empty]
               /\ fd' = [fd EXCEPT ![p] = {i}]
    <3>1. PICK i \in IF tmp # {} THEN tmp ELSE Inodes \ InUse :
            /\ tmp' = {i} /\ content' = [content EXCEPT ![i] = Empty]
            /\ fd' = [fd EXCEPT ![p] = {i}]
      BY <2>2
    <3>2. i \in Inodes
      BY <1>1, <3>1 DEF TypeOK, Optional
    <3>3. {i} \in Optional(Inodes) /\ Empty \in Contents
      BY <3>2, PhaseTypes DEF Optional
    <3>4. overlapped' \in BOOLEAN
      BY <1>1 DEF TypeOK, Open
    <3>. QED
      BY <1>1, <3>1, <3>2, <3>3, <3>4 DEF TypeOK, Open
  <2>. QED
    BY <2>1, <2>2 DEF Open
<1>. QED
  BY <1>2, <1>3, FileStep DEF Open

LEMMA WriteStep == ASSUME IInv, NEW p \in Procs, Write(p) PROVE IInv'
<1>1. TypeOK
  BY DEF IInv
<1>2. PICK i \in Inodes, c \in {Whole(seeds[p]), Torn}, next \in {"rename", "decode", "done"} :
        /\ content' = [content EXCEPT ![i] = c] /\ pc' = [pc EXCEPT ![p] = next]
        /\ next = "decode" => call[p].name = "unscramble"
  <2>1. PICK i \in fd[p] :
          \/ /\ \E c \in Overwritten(content[i], seeds[p]) : content' = [content EXCEPT ![i] = c]
             /\ pc' = [pc EXCEPT ![p] = "rename"]
          \/ /\ content' = [content EXCEPT ![i] = Torn]
             /\ pc' = [pc EXCEPT ![p] = AfterSave(p)]
    BY DEF Write, AfterWrite
  <2>2. i \in Inodes
    BY <1>1 DEF TypeOK, Optional
  <2>3. Overwritten(content[i], seeds[p]) \subseteq {Whole(seeds[p]), Torn}
    BY DEF Overwritten
  <2>4. /\ AfterSave(p) \in {"rename", "decode", "done"}
        /\ AfterSave(p) = "decode" => call[p].name = "unscramble"
    BY DEF AfterSave
  <2>. QED
    BY <2>1, <2>2, <2>3, <2>4
<1>3. Whole(seeds[p]) \in Contents /\ Torn \in Contents /\ {} \in Optional(Inodes)
  BY <1>1, PhaseTypes DEF TypeOK, Whole, Contents, Optional
<1>4. /\ content' \in [Inodes -> Contents] /\ path' \in Optional(Inodes)
      /\ tmp' \in Optional(Inodes) /\ fd' \in [Procs -> Optional(Inodes)]
      /\ overlapped' \in BOOLEAN
      /\ \A j \in Inodes : content'[j] = content[j] \/ content'[j] = c
  BY <1>1, <1>2, <1>3 DEF TypeOK, Write, history
<1>. QED
  BY <1>2, <1>4, FileStep DEF Write, history

LEMMA RenameStep == ASSUME IInv, NEW p \in Procs, Rename(p) PROVE IInv'
<1>1. TypeOK
  BY DEF IInv
<1>2. PICK next \in {"decode", "done"} :
        /\ next = AfterSave(p)
        /\ next = "decode" => call[p].name = "unscramble"
  BY DEF AfterSave
<1>3. /\ content' \in [Inodes -> Contents] /\ path' \in Optional(Inodes)
      /\ tmp' \in Optional(Inodes) /\ fd' \in [Procs -> Optional(Inodes)]
      /\ overlapped' \in BOOLEAN /\ content' = content
  BY <1>1 DEF TypeOK, Rename, history, Optional
<1>. QED
  BY <1>2, <1>3, FileStep DEF Rename, history

LEMMA Stutters == IInv /\ UNCHANGED vars => IInv'
<1>. SUFFICES ASSUME IInv, UNCHANGED vars PROVE IInv'
  OBVIOUS
<1>1. UNCHANGED <<disc, limit, cached, seeds, cipher, pc, call, outcome, path, tmp, content, fd,
                  trusted, overlapped>>
  BY DEF vars, drive, cipherVars, calls, files, history
<1>2. TypeOK'
  BY <1>1 DEF IInv, TypeOK
<1>3. SeedsOfDisc'
  BY <1>1, SeedsKept DEF IInv
<1>4. \A p \in Procs : Sane(p)'
  BY <1>1 DEF IInv, Sane, CipherOfSeed, CallInOrder, Decoded, Refused, Right
<1>. QED
  BY <1>2, <1>3, <1>4 DEF IInv

LEMMA StepKeepsInvariant == IInv /\ [Next]_vars => IInv'
<1>1. ASSUME IInv, NEW p \in Procs, Step(p) PROVE IInv'
  BY <1>1, NewStep, ExitStep, SetSeedStep, SetMaxSeedSearchStep, FindSeedStep, UnscrambleStep,
     UnscrambleTooShortStep, DecodeStep, ReturnStep, SaveStep, OpenStep, WriteStep, RenameStep
    DEF Step
<1>. QED
  BY <1>1, Stutters DEF Next

\* The inductive invariant of the processes: their seeds, ciphers and calls.
THEOREM DescramblerInvariant == Spec => []IInv
<1>. QED
  BY InitInvariant, StepKeepsInvariant, PTL DEF Spec

\* Every state of the processes and their files is well typed: a seed taken
\* from a call, a search or a file fits in 15 bits (lib.rs:133).
THEOREM DescramblerType == Spec => []TypeOK
<1>1. IInv => TypeOK
  BY DEF IInv
<1>. QED
  BY <1>1, DescramblerInvariant, PTL

\* A verified block is decoded with the seed of its disc, and any block as
\* long as all processes read one disc (lib.rs:180, lib.rs:198).
THEOREM DecodesRightly == Spec => []OutputIsRight
<1>1. IInv => OutputIsRight
  BY DEF IInv, Sane, Decoded, OutputIsRight
<1>. QED
  BY <1>1, DescramblerInvariant, PTL

\* An undamaged block is refused only for the seed of another disc or for one
\* beyond the search (lib.rs:180, lib.rs:199).
THEOREM RefusesWithCause == Spec => []RefusedWithCause
<1>1. IInv => RefusedWithCause
  BY DEF IInv, Sane, Refused, RefusedWithCause
<1>. QED
  BY <1>1, DescramblerInvariant, PTL

\* With the seed of the disc an undamaged block is decoded, however the seed
\* came about (lib.rs:142, lib.rs:198).
THEOREM SearchesHeal == Spec => SearchHeals
<1> DEFINE Heals(p) == (/\ pc[p] = "decode" /\ pc'[p] = "done" /\ call[p].damaged = {}
                        /\ seeds[p][call[p].phase] = {Right(p, call[p].phase)})
                       => outcome'[p] = "data"
<1>1. ASSUME IInv, NEW p \in Procs, NEW q \in Procs, Step(q) PROVE Heals(p)
  <2>. SUFFICES ASSUME pc[p] = "decode", pc'[p] = "done", call[p].damaged = {},
                       seeds[p][call[p].phase] = {Right(p, call[p].phase)}
                PROVE  outcome'[p] = "data"
    OBVIOUS
  <2>1. TypeOK /\ CipherOfSeed(p)
    BY <1>1 DEF IInv, Sane
  <2>2. pc \in [Procs -> {"off", "idle", "open", "write", "rename", "decode", "done"}]
    BY <2>1 DEF TypeOK
  <2>3. p = q /\ pc[q] = "decode"
    <3>. SUFFICES ASSUME p # q PROVE FALSE
      OBVIOUS
    <3>1. \E x : pc' = [pc EXCEPT ![q] = x] \/ pc' = pc
      BY <1>1 DEF Step, New, Exit, SetSeed, SetMaxSeedSearch, FindSeed, Unscramble, Search, Begin,
                  UnscrambleTooShort, Decode, Return, Save, Open, Write, Rename
    <3>. QED
      BY <2>2, <3>1
  <2>4. Decode(p)
    <3>1. pc'[p] # "off"
      OBVIOUS
    <3>2. ~Exit(p)
      BY <2>2 DEF Exit
    <3>. QED
      BY <1>1, <2>3, <3>2 DEF Step, New, SetSeed, SetMaxSeedSearch, FindSeed, Unscramble,
                              UnscrambleTooShort, Return, Save, Open, Write, Rename
  <2>5. Cipher(p, call[p].phase) = {Right(p, call[p].phase)}
    <3>1. call[p].phase \in Phases
      BY <2>1 DEF TypeOK, Calls
    <3>. QED
      BY <2>1, <3>1, CipherIsSeed
  <2>6. Verified(p)
    BY <2>5 DEF Verified, Passes
  <2>7. Returns(p, "data")
    BY <2>4, <2>6 DEF Decode
  <2>. QED
    BY <2>1, <2>7 DEF Returns, TypeOK
<1>2. IInv /\ [Next]_vars =>
        [\A p \in Procs :
           (pc[p] = "decode" /\ pc'[p] = "done" /\ call[p].damaged = {}
            /\ seeds[p][call[p].phase] = {Right(p, call[p].phase)}) => outcome'[p] = "data"]_vars
  BY <1>1 DEF Next
<1>. QED
  BY <1>2, DescramblerInvariant, PTL DEF SearchHeals, Spec

-----------------------------------------------------------------------------
(* The cache file.                                                         *)

\* A process that is writing alone has the file that the next rename takes.
FileInvariant ==
  /\ path \cap tmp = {}
  /\ \A p \in Procs : pc[p] # "write" => fd[p] = {}
  /\ ~overlapped =>
       /\ \A p, q \in Procs : pc[p] \in {"write", "rename"} /\ pc[q] \in {"write", "rename"} => p = q
       /\ \A p \in Procs : pc[p] = "write" => fd[p] = tmp /\ \A i \in tmp : content[i] = Empty
       /\ \A p \in Procs : pc[p] = "rename" => \A i \in tmp : content[i].state = "whole"
       /\ \A i \in path : content[i].state = "whole"

FInv == IInv /\ FileInvariant

LEMMA FileInit == Init => FileInvariant
BY DEF Init, FileInvariant

\* What leaves the files, and who is writing, as they are.
LEMMA FilesKept ==
  ASSUME FInv, UNCHANGED <<path, tmp, content, fd, overlapped>>,
         NEW p \in Procs, NEW next \in {"off", "idle", "open", "decode", "done"},
         pc[p] # "write" , pc' = [pc EXCEPT ![p] = next] \/ pc' = pc
  PROVE  FileInvariant'
<1>1. pc \in [Procs -> {"off", "idle", "open", "write", "rename", "decode", "done"}]
  BY DEF FInv, IInv, TypeOK
<1>. QED
  BY <1>1 DEF FInv, FileInvariant

LEMMA ExitKeepsFiles == ASSUME FInv, NEW p \in Procs, Exit(p) PROVE FileInvariant'
<1>1. /\ pc \in [Procs -> {"off", "idle", "open", "write", "rename", "decode", "done"}]
      /\ fd \in [Procs -> Optional(Inodes)]
  BY DEF FInv, IInv, TypeOK
<1>2. pc'[p] = "off" /\ fd'[p] = {} /\ \A q \in Procs \ {p} : pc'[q] = pc[q] /\ fd'[q] = fd[q]
  BY <1>1 DEF Exit
<1>3. UNCHANGED <<path, tmp, content, overlapped>>
  BY DEF Exit, history
<1>. QED
  BY <1>2, <1>3 DEF FInv, FileInvariant

LEMMA OpenKeepsFiles ==
  ASSUME FInv, NEW p \in Procs, Open(p), pc' = [pc EXCEPT ![p] = "write"]
  PROVE  FileInvariant'
<1>1. /\ pc \in [Procs -> {"off", "idle", "open", "write", "rename", "decode", "done"}]
      /\ fd \in [Procs -> Optional(Inodes)] /\ content \in [Inodes -> Contents]
      /\ path \in Optional(Inodes) /\ tmp \in Optional(Inodes) /\ FileInvariant
  BY DEF FInv, IInv, TypeOK
<1>0. /\ \E i \in IF tmp # {} THEN tmp ELSE Inodes \ InUse :
           /\ tmp' = {i} /\ content' = [content EXCEPT ![i] = Empty] /\ fd' = [fd EXCEPT ![p] = {i}]
      /\ overlapped' = (overlapped \/ \E q \in Procs \ {p} : pc[q] \in {"write", "rename"})
  <2>1. "write" # AfterSave(p) /\ pc'[p] = "write"
    BY <1>1 DEF AfterSave
  <2>2. pc' # [pc EXCEPT ![p] = AfterSave(p)]
    BY <1>1, <2>1
  <2>. QED
    BY <2>2 DEF Open
<1>2. PICK i \in IF tmp # {} THEN tmp ELSE Inodes \ InUse :
        /\ tmp' = {i} /\ content' = [content EXCEPT ![i] = Empty] /\ fd' = [fd EXCEPT ![p] = {i}]
  BY <1>0 DEF Open
<1>3. i \in Inodes /\ i \notin path
  BY <1>1, <1>2 DEF Optional, InUse, FileInvariant
<1>4. /\ pc'[p] = "write" /\ \A q \in Procs \ {p} : pc'[q] = pc[q]
      /\ fd'[p] = {i} /\ \A q \in Procs \ {p} : fd'[q] = fd[q]
      /\ content'[i] = Empty /\ \A j \in Inodes \ {i} : content'[j] = content[j]
      /\ path' = path
  BY <1>1, <1>2, <1>3 DEF Open
<1>5. ~overlapped' => ~overlapped /\ \A q \in Procs \ {p} : pc[q] \notin {"write", "rename"}
  BY <1>0 DEF Open
<1>6. path \subseteq Inodes
  BY <1>1 DEF Optional
<1>. QED
  BY <1>1, <1>2, <1>3, <1>4, <1>5, <1>6 DEF FileInvariant

LEMMA WriteKeepsFiles == ASSUME FInv, NEW p \in Procs, Write(p) PROVE FileInvariant'
<1>1. /\ pc \in [Procs -> {"off", "idle", "open", "write", "rename", "decode", "done"}]
      /\ fd \in [Procs -> Optional(Inodes)] /\ content \in [Inodes -> Contents]
      /\ path \in Optional(Inodes) /\ tmp \in Optional(Inodes) /\ FileInvariant
  BY DEF FInv, IInv, TypeOK
<1>2. PICK i \in fd[p] :
        \/ /\ \E c \in Overwritten(content[i], seeds[p]) : content' = [content EXCEPT ![i] = c]
           /\ pc' = [pc EXCEPT ![p] = "rename"]
        \/ \E c : content' = [content EXCEPT ![i] = c] /\ pc' = [pc EXCEPT ![p] = AfterSave(p)]
  BY DEF Write, AfterWrite
<1>3. i \in Inodes /\ fd[p] = {i}
  BY <1>1, <1>2 DEF Optional
<1>4. /\ pc[p] = "write" /\ UNCHANGED <<path, tmp, overlapped>>
      /\ fd'[p] = {} /\ \A q \in Procs \ {p} : fd'[q] = fd[q]
  BY <1>1 DEF Write, history
<1>5. /\ pc'[p] # "write" /\ \A q \in Procs \ {p} : pc'[q] = pc[q]
      /\ \A j \in Inodes \ {i} : content'[j] = content[j]
  BY <1>1, <1>2, <1>3 DEF AfterSave
<1>6. ~overlapped => tmp = {i} /\ i \notin path /\ content[i] = Empty
  BY <1>1, <1>3, <1>4 DEF FileInvariant
<1>7. ~overlapped /\ pc'[p] = "rename" => content'[i].state = "whole"
  <2>. SUFFICES ASSUME ~overlapped, pc'[p] = "rename" PROVE content'[i].state = "whole"
    OBVIOUS
  <2>1. AfterSave(p) # "rename"
    BY DEF AfterSave
  <2>2. \E c \in Overwritten(content[i], seeds[p]) : content' = [content EXCEPT ![i] = c]
    BY <1>1, <1>2, <2>1
  <2>3. Overwritten(content[i], seeds[p]) = {Whole(seeds[p])}
    BY <1>6 DEF Overwritten, Empty
  <2>. QED
    BY <1>1, <1>3, <2>2, <2>3 DEF Whole
<1>8. path \subseteq Inodes
  BY <1>1 DEF Optional
<1>. QED
  BY <1>1, <1>3, <1>4, <1>5, <1>6, <1>7, <1>8 DEF FileInvariant

LEMMA RenameKeepsFiles == ASSUME FInv, NEW p \in Procs, Rename(p) PROVE FileInvariant'
<1>1. /\ pc \in [Procs -> {"off", "idle", "open", "write", "rename", "decode", "done"}]
      /\ FileInvariant
  BY DEF FInv, IInv, TypeOK
<1>2. /\ pc'[p] \notin {"write", "rename"} /\ \A q \in Procs \ {p} : pc'[q] = pc[q]
      /\ pc[p] = "rename"
      /\ (tmp' = {} /\ path' = tmp) \/ UNCHANGED <<path, tmp>>
      /\ UNCHANGED <<content, fd, overlapped>>
  BY <1>1 DEF Rename, AfterSave, history
<1>. QED
  BY <1>1, <1>2 DEF FileInvariant

LEMMA FileStepKeepsInvariant == FInv /\ [Next]_vars => FileInvariant'
<1>1. ASSUME FInv, NEW p \in Procs, Step(p) PROVE FileInvariant'
  <2>1. CASE Exit(p) \/ Write(p) \/ Rename(p)
    BY <1>1, <2>1, ExitKeepsFiles, WriteKeepsFiles, RenameKeepsFiles
  <2>5. CASE Open(p)
    <3>1. CASE pc' = [pc EXCEPT ![p] = "write"]
      BY <1>1, <2>5, <3>1, OpenKeepsFiles
    <3>2. CASE pc' = [pc EXCEPT ![p] = AfterSave(p)] /\ UNCHANGED <<tmp, content, fd, overlapped>>
      <4>1. pc[p] # "write" /\ AfterSave(p) \in {"decode", "done"} /\ path' = path
        BY <2>5 DEF Open, AfterSave
      <4>. QED
        BY <1>1, <3>2, <4>1, FilesKept
    <3>. QED
      BY <2>5, <3>1, <3>2 DEF Open
  <2>2. CASE New(p) \/ SetSeed(p) \/ SetMaxSeedSearch(p)
    <3>1. pc[p] # "write" /\ (pc' = [pc EXCEPT ![p] = "idle"] \/ pc' = pc)
      BY <2>2 DEF New, SetSeed, SetMaxSeedSearch
    <3>2. UNCHANGED <<path, tmp, content, fd, overlapped>>
      BY <2>2 DEF New, SetSeed, SetMaxSeedSearch, files, history
    <3>. QED
      BY <1>1, <3>1, <3>2, FilesKept
  <2>3. CASE FindSeed(p) \/ Unscramble(p)
    <3>1. pc[p] # "write"
      BY <2>3 DEF FindSeed, Unscramble
    <3>2. UNCHANGED <<path, tmp, content, fd, overlapped>>
      BY <2>3 DEF FindSeed, Unscramble, files, history
    <3>3. \E next \in {"open", "decode", "done"} : pc' = [pc EXCEPT ![p] = next]
      BY <2>3 DEF FindSeed, Unscramble, Search, Begin
    <3>. QED
      BY <1>1, <3>1, <3>2, <3>3, FilesKept
  <2>4. CASE UnscrambleTooShort(p) \/ Decode(p) \/ Return(p) \/ Save(p)
    <3>1. pc[p] # "write" /\ \E next \in {"idle", "open", "done"} : pc' = [pc EXCEPT ![p] = next]
      BY <2>4 DEF UnscrambleTooShort, Decode, Return, Save, Begin
    <3>2. UNCHANGED <<path, tmp, content, fd, overlapped>>
      BY <2>4 DEF UnscrambleTooShort, Decode, Return, Save, files, history
    <3>. QED
      BY <1>1, <3>1, <3>2, FilesKept
  <2>. QED
    BY <1>1, <2>1, <2>2, <2>3, <2>4, <2>5 DEF Step
<1>2. ASSUME FInv, UNCHANGED vars PROVE FileInvariant'
  BY <1>2 DEF FInv, FileInvariant, vars, files, history
<1>. QED
  BY <1>1, <1>2 DEF Next

\* The cache file is whole at any moment unless two processes have written at
\* once, whatever was interrupted or failed (lib.rs:242).
THEOREM CacheStaysWhole == Spec => []CacheIsWhole
<1>1. Init => FInv
  BY InitInvariant, FileInit DEF FInv
<1>2. FInv /\ [Next]_vars => FInv'
  BY StepKeepsInvariant, FileStepKeepsInvariant DEF FInv
<1>3. FInv => CacheIsWhole
  BY DEF FInv, FileInvariant, CacheIsWhole
<1>. QED
  BY <1>1, <1>2, <1>3, PTL DEF Spec
=============================================================================
