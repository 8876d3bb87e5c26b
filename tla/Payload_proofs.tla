--------------------------- MODULE Payload_proofs ---------------------------
(* Unpacking restores a packed chunk but for the bytes of runs that        *)
(* straddle two generations, for every generator, chunk and constant, and  *)
(* the generator's backward step undoes its forward step.  The reader      *)
(* takes the data of a chunk from where the encoder put them, and restores *)
(* them, for every exception list, outcome of the compression and size in  *)
(* the tables; and the exceptions restore the headers of the chunk.  The   *)
(* tables are accepted exactly when they agree with the chunk, and padding *)
(* is found wherever it lies in a window.                                  *)
EXTENDS PayloadProps, Sums_proofs

-----------------------------------------------------------------------------
(* The generator.                                                          *)

\* backward up to a byte takes the bytes below it back to the generation of
\* the others.
LEMMA BackwardInPart ==
  ASSUME NEW buf \in Buffers, NEW next \in Buffers, Follows(next, buf), NEW m \in 0 .. Cells,
         NEW mix \in Buffers,
         \A x \in 0 .. Cells - 1 : (x \in mix) = (IF x < m THEN x \in next ELSE x \in buf)
  PROVE  Backward[mix][m] = buf
<1> DEFINE high == TakenBack(mix, m)
<1>0. Cells \in Nat /\ Lag \in Nat \ {0} /\ 2 * Lag <= Cells
  <2>1. PICK k, j, w \in Nat : k = LfgK /\ j = LfgJ /\ w = Word /\ j > 0 /\ w > 0 /\ 2 * j <= k
    BY LfgAssumption
  <2>2. Cells = k * w /\ Lag = j * w
    BY <2>1 DEF Cells, Lag
  <2>3. k * w \in Nat /\ j * w \in Nat /\ j * w > 0 /\ 2 * (j * w) <= k * w
    BY <2>1
  <2>. QED
    BY <2>2, <2>3
<1>1. \A x \in 0 .. Cells - 1 : x >= Lag => ((x \in high) = (x \in buf))
  <2>. SUFFICES ASSUME NEW x \in 0 .. Cells - 1, x >= Lag
                PROVE  (x \in high) = (x \in buf)
    OBVIOUS
  <2>1. CASE x < m
    <3>1. x - Lag \in 0 .. Cells - 1 /\ x - Lag < m
      BY <1>0, <2>1
    <3>2. (x \in high) = ((x \in mix) # (x - Lag \in mix))
      BY <1>0, <2>1 DEF TakenBack
    <3>3. (x \in mix) = (x \in next) /\ (x - Lag \in mix) = (x - Lag \in next)
      BY <2>1, <3>1
    <3>4. (x \in next) = ((x \in buf) # (x - Lag \in next))
      BY <1>0 DEF Follows
    <3>. QED
      BY <3>2, <3>3, <3>4
  <2>2. CASE ~(x < m)
    <3>1. (x \in high) = (x \in mix)
      BY <1>0, <2>2 DEF TakenBack
    <3>. QED
      BY <2>2, <3>1
  <2>. QED
    BY <2>1, <2>2
<1>2. \A x \in 0 .. Cells - 1 : x < Lag => ((x \in high) = (x \in mix))
  BY <1>0 DEF TakenBack
<1>3. \A x \in 0 .. Cells - 1 : (x \in TakenBackLow(high, m)) = (x \in buf)
  <2>. SUFFICES ASSUME NEW x \in 0 .. Cells - 1
                PROVE  (x \in TakenBackLow(high, m)) = (x \in buf)
    OBVIOUS
  <2>1. CASE x >= Lag
    <3>1. (x \in TakenBackLow(high, m)) = (x \in high)
      BY <1>0, <2>1 DEF TakenBackLow
    <3>. QED
      BY <3>1, <1>1, <2>1
  <2>2. CASE x < Lag /\ x < m
    <3>1. x + Cells - Lag \in 0 .. Cells - 1 /\ x + Cells - Lag >= Lag
      BY <1>0, <2>2
    <3>2. (x \in TakenBackLow(high, m)) = ((x \in high) # (x + Cells - Lag \in high))
      BY <1>0, <2>2 DEF TakenBackLow
    <3>3. (x + Cells - Lag \in high) = (x + Cells - Lag \in buf)
      BY <3>1, <1>1
    <3>4. (x \in high) = (x \in next)
      BY <1>2, <2>2
    <3>5. (x \in next) = ((x \in buf) # (x + Cells - Lag \in buf))
      BY <1>0, <2>2 DEF Follows
    <3>. QED
      BY <3>2, <3>3, <3>4, <3>5
  <2>3. CASE x < Lag /\ ~(x < m)
    <3>1. (x \in TakenBackLow(high, m)) = (x \in high)
      BY <1>0, <2>3 DEF TakenBackLow
    <3>. QED
      BY <3>1, <1>2, <2>3
  <2>. QED
    BY <2>1, <2>2, <2>3, <1>0
<1>4. TakenBackLow(high, m) \subseteq 0 .. Cells - 1 /\ buf \subseteq 0 .. Cells - 1
  BY DEF TakenBackLow, Buffers
<1>5. TakenBackLow(high, m) = buf
  BY <1>3, <1>4
<1>6. Backward[mix][m] = TakenBackLow(TakenBack(mix, m), m)
  BY DEF Backward
<1>. QED
  BY <1>5, <1>6

\* backward undoes forward: of a buffer that follows another the other is
\* restored (lfg.rs:125, lfg.rs:116).
THEOREM BackwardUndoesForward ==
  ASSUME NEW buf \in Buffers, NEW next \in Buffers, Follows(next, buf)
  PROVE  Backward[next][Cells] = buf
<1>1. Cells \in Nat
  BY LfgAssumption DEF Cells
<1>2. Cells \in 0 .. Cells /\ \A x \in 0 .. Cells - 1 : x < Cells
  BY <1>1
<1>. QED
  BY <1>2, BackwardInPart

-----------------------------------------------------------------------------
(* The invariant.                                                          *)

Records == [junk : BOOLEAN, size : Nat, bytes : UNION {[0 .. n - 1 -> Bit] : n \in Nat}, seed : Seeds]

Typed ==
  /\ \E c \in Chunks : size = c.size /\ data = c.bytes
  /\ offset \in Nat
  /\ pc \in {"scan", "emit", "unpack", "done"}
  /\ position \in 0 .. size /\ junk \in Seq(Runs)
  /\ current \in 0 .. size /\ packed \in Nat
  /\ parts \in Seq(Records) /\ starts \in Seq(Nat)
  /\ claimed \in Nat /\ expected \in Nat
  /\ read \in Nat /\ written \in Nat /\ written <= expected
  /\ output \in [0 .. expected - 1 -> Bit]
  /\ verdict \in Verdicts

\* A run is the stream it was compared with, and ends by `end', where the
\* search has got to.
RunRight(r, end) ==
  /\ r.from < r.to /\ r.to <= end
  /\ \A x \in r.from .. r.to - 1 :
       data[x] = Stream(r.seed, ComparedFrom(Phase(r.from)) + (x - r.from))
RunsRight == \A i \in 1 .. Len(junk) : RunRight(junk[i], position)

\* Runs follow one another, and no record has cut one.
RunsApart ==
  /\ \A i, m \in 1 .. Len(junk) : i < m => junk[i].to <= junk[m].from
  /\ \A i \in 1 .. Len(junk) : junk[i].to <= current \/ junk[i].from >= current

\* Record r stands for the bytes of the chunk from `at' on.
RecordRight(r, at) ==
  /\ r.size > 0 /\ at + r.size <= size
  /\ ~r.junk => \A y \in 0 .. r.size - 1 : r.bytes[y] = data[at + y]
  /\ r.junk => \E i \in 1 .. Len(junk) :
       junk[i].from = at /\ at + r.size <= junk[i].to /\ junk[i].seed = r.seed

\* The records ps, which begin at ss, cover the chunk up to end without a gap.
Covers(ps, ss, end) ==
  /\ Len(ss) = Len(ps)
  /\ \A n \in 1 .. Len(ps) : RecordRight(ps[n], ss[n])
  /\ \A n \in 1 .. Len(ps) :
       ss[n] + ps[n].size = IF n = Len(ps) THEN end ELSE ss[n + 1]
  /\ Len(ps) > 0 => ss[1] = 0
Chain ==
  /\ Covers(parts, starts, current)
  /\ Len(parts) = 0 => packed = 0 /\ current \in {0, size}
  /\ Len(parts) > 0 => packed > 0 /\ current > 0

Excused(x) ==
  \E i \in 1 .. Len(junk) : Straddles(junk[i]) /\ x \in junk[i].from .. junk[i].to - 1
ByteRight(x) == x < expected => output[x] = data[x] \/ Excused(x)

Course ==
  /\ pc = "scan" => current = 0
  /\ pc \in {"scan", "emit"} => read = 0 /\ written = 0 /\ verdict = "none"
  /\ pc = "unpack" => verdict = "none"
  /\ pc \in {"unpack", "done"} =>
       /\ current = size /\ read <= Len(parts)
       /\ Len(parts) > 0 =>
            written = IF read = Len(parts) THEN current ELSE starts[read + 1]
       /\ Len(parts) = 0 => written = 0
       /\ (packed = 0) = (claimed = 0)
       /\ \A x \in 0 .. written - 1 : ByteRight(x)
  /\ verdict = "ok" /\ expected = size => \A x \in 0 .. size - 1 : ByteRight(x)

IInv == Typed /\ RunsRight /\ RunsApart /\ Chain /\ Course

-----------------------------------------------------------------------------
(* The steps of the packer.                                                *)

LEMMA SizeTypes ==
  ASSUME Typed
  PROVE  /\ size \in Nat \ {0} /\ data \in [0 .. size - 1 -> Bit]
         /\ \A w \in Skews : size + w \in Nat
BY PackingAssumption DEF Typed

LEMMA WindowFits ==
  ASSUME Typed, NEW p \in position .. size
  PROVE  /\ Phase(p) \in Nat /\ WindowLength(p) \in Nat
         /\ p + WindowLength(p) \in p .. size
<1>1. offset \in Nat /\ position \in Nat /\ size \in Nat /\ p \in Nat /\ p <= size
  BY SizeTypes DEF Typed
<1>2. Block \in Nat \ {0}
  BY LfgAssumption
<1>3. Phase(p) \in Nat /\ Phase(p) < Block
  BY <1>1, <1>2 DEF Phase
<1>. QED
  BY <1>1, <1>2, <1>3 DEF WindowLength

LEMMA RunFound ==
  ASSUME Typed, NEW p \in position .. size, NEW r \in RunsAt(p)
  PROVE  /\ r \in Runs /\ r.from = p /\ r.from < r.to /\ r.to <= p + WindowLength(p)
         /\ \A x \in r.from .. r.to - 1 :
              data[x] = Stream(r.seed, ComparedFrom(Phase(r.from)) + (x - r.from))
<1> DEFINE n == WindowLength(p)
           d == Bytes(p, p + n)
<1>1. p \in Nat /\ n \in Nat /\ p + n <= size /\ Phase(p) \in Nat
  BY WindowFits DEF Typed
<1>2. PICK f \in GetSeed(d, n, Phase(p)) :
             f.count > 0 /\ r = [from |-> p, to |-> p + f.count, seed |-> f.seed]
  BY DEF RunsAt
<1>3. /\ f \in [seed : Found(d, Phase(p)), count : 0 .. n]
      /\ IsCount(d, n, Phase(p), f.seed, f.count)
  BY <1>2 DEF GetSeed
<1>4. f.seed \in Seeds
  BY <1>3 DEF Found, Seeds
<1>5. f.count \in Nat /\ f.count <= n
  BY <1>1, <1>3
<1>6. \A j \in 0 .. f.count - 1 : d[j] = Stream(f.seed, ComparedFrom(Phase(p)) + j)
  BY <1>3 DEF IsCount, Matches
<1>7. \A j \in 0 .. f.count - 1 : d[j] = data[p + j]
  BY <1>1, <1>5 DEF Bytes
<1>8. \A x \in p .. p + f.count - 1 : data[x] = Stream(f.seed, ComparedFrom(Phase(p)) + (x - p))
  <2>. SUFFICES ASSUME NEW x \in p .. p + f.count - 1
                PROVE  data[x] = Stream(f.seed, ComparedFrom(Phase(p)) + (x - p))
    OBVIOUS
  <2>1. x - p \in 0 .. f.count - 1 /\ p + (x - p) = x
    BY <1>1, <1>5
  <2>. QED
    BY <2>1, <1>6, <1>7
<1>9. r \in Runs
  BY <1>1, <1>2, <1>4, <1>5 DEF Runs
<1>. QED
  BY <1>1, <1>2, <1>5, <1>8, <1>9

LEMMA ScanWindowStep == IInv /\ ScanWindow => IInv'
<1>. SUFFICES ASSUME IInv, ScanWindow PROVE IInv'
  OBVIOUS
<1>1. Typed /\ RunsRight /\ RunsApart /\ Chain /\ Course
  BY DEF IInv
<1>2. /\ pc = "scan" /\ current = 0 /\ Len(parts) = 0
      /\ read = 0 /\ written = 0 /\ verdict = "none"
  <2>1. pc = "scan"
    BY DEF ScanWindow
  <2>2. current = 0 /\ read = 0 /\ written = 0 /\ verdict = "none"
    BY <2>1, <1>1 DEF Course
  <2>3. Len(parts) \in Nat
    BY <1>1 DEF Typed
  <2>4. ~(Len(parts) > 0)
    <3>1. Len(parts) > 0 => current > 0
      BY <1>1 DEF Chain
    <3>2. ~(current > 0)
      BY <2>2
    <3>. QED
      BY <3>1, <3>2
  <2>5. Len(parts) = 0
    BY <2>3, <2>4
  <2>. QED
    BY <2>1, <2>2, <2>5
<1>3. PICK p \in position .. size :
        /\ position' = p + WindowLength(p)
        /\ junk' = junk \/ \E r \in RunsAt(p) : junk' = Append(junk, r)
  BY DEF ScanWindow
<1>4. /\ position' \in p .. size /\ p >= position /\ p \in Nat
      /\ position \in Nat /\ position' \in 0 .. size /\ size \in Nat
  <2>1. position \in Nat /\ size \in Nat
    BY <1>1, SizeTypes DEF Typed
  <2>2. p + WindowLength(p) \in p .. size
    BY <1>1, WindowFits
  <2>. QED
    BY <1>3, <2>1, <2>2
<1>5. /\ UNCHANGED <<input, pc, emitted, given, unpacked>>
      /\ size' = size /\ data' = data /\ offset' = offset /\ current' = current
  BY DEF ScanWindow, input, emitted
<1>7. /\ junk' \in Seq(Runs)
      /\ \A i \in 1 .. Len(junk') :
           \/ i \in 1 .. Len(junk) /\ junk'[i] = junk[i]
           \/ /\ i = Len(junk') /\ junk'[i].from = p
              /\ RunRight(junk'[i], position')
  <2>1. CASE junk' = junk
    BY <2>1, <1>1 DEF Typed
  <2>2. ASSUME NEW r \in RunsAt(p), junk' = Append(junk, r) PROVE <1>7
    <3>1. /\ r \in Runs /\ r.from = p /\ r.from < r.to /\ r.to <= position'
          /\ \A x \in r.from .. r.to - 1 :
               data[x] = Stream(r.seed, ComparedFrom(Phase(r.from)) + (x - r.from))
      BY RunFound, <1>1, <1>3
    <3>2. RunRight(r, position')
      BY <3>1 DEF RunRight
    <3>3. junk \in Seq(Runs)
      BY <1>1 DEF Typed
    <3>4. /\ junk' \in Seq(Runs) /\ Len(junk') = Len(junk) + 1 /\ junk'[Len(junk')] = r
          /\ \A i \in 1 .. Len(junk) : junk'[i] = junk[i]
      BY <2>2, <3>1, <3>3
    <3>5. Len(junk) \in Nat
      BY <3>3
    <3>6. \A i \in 1 .. Len(junk') : i \in 1 .. Len(junk) \/ i = Len(junk')
      BY <3>4, <3>5
    <3>7. RunRight(junk'[Len(junk')], position') /\ junk'[Len(junk')].from = p
      BY <3>1, <3>2, <3>4
    <3>. QED
      BY <3>4, <3>6, <3>7
  <2>. QED
    BY <1>3, <2>1, <2>2
<1>8. Typed'
  <2>1. /\ pc' = pc /\ packed' = packed /\ parts' = parts /\ starts' = starts
        /\ claimed' = claimed /\ expected' = expected /\ read' = read
        /\ written' = written /\ output' = output /\ verdict' = verdict
    BY <1>5 DEF emitted, given, unpacked
  <2>. QED
    BY <1>1, <1>4, <1>5, <1>7, <2>1 DEF Typed
<1>9. RunsRight'
  <2>1. ASSUME NEW i \in 1 .. Len(junk') PROVE RunRight(junk'[i], position')
    <3>1. CASE i \in 1 .. Len(junk) /\ junk'[i] = junk[i]
      <4>1. RunRight(junk[i], position)
        BY <3>1, <1>1 DEF RunsRight
      <4>2. junk[i] \in Runs
        BY <3>1, <1>1 DEF Typed
      <4>3. junk[i].to \in Nat /\ junk[i].from \in Nat
        BY <4>2 DEF Runs
      <4>4. junk[i].to <= position'
        BY <4>1, <4>3, <1>4 DEF RunRight
      <4>. QED
        BY <4>1, <4>4, <3>1 DEF RunRight
    <3>. QED
      BY <3>1, <1>7
  <2>. QED
    BY <2>1, <1>5 DEF RunsRight, RunRight, Phase
<1>10. RunsApart'
  <2>1. \A i \in 1 .. Len(junk') : junk'[i] \in Runs
    BY <1>7
  <2>2. \A i \in 1 .. Len(junk') : junk'[i].from \in Nat /\ junk'[i].to \in Nat
    BY <2>1 DEF Runs
  <2>3. Len(junk') \in Nat /\ Len(junk) \in Nat
    BY <1>1, <1>7 DEF Typed
  <2>4. ASSUME NEW i \in 1 .. Len(junk'), NEW m \in 1 .. Len(junk'), i < m
        PROVE  junk'[i].to <= junk'[m].from
    <3>1. i \in 1 .. Len(junk) /\ junk'[i] = junk[i]
      BY <1>7, <2>3, <2>4
    <3>2. junk[i].to <= position
      BY <3>1, <1>1 DEF RunsRight, RunRight
    <3>3. CASE m \in 1 .. Len(junk) /\ junk'[m] = junk[m]
      BY <3>1, <3>3, <2>4, <1>1 DEF RunsApart
    <3>4. CASE junk'[m].from = p
      BY <3>1, <3>2, <3>4, <1>4, <2>2
    <3>. QED
      BY <3>3, <3>4, <1>7
  <2>5. current' = 0
    BY <1>2, <1>5
  <2>6. \A i \in 1 .. Len(junk') : junk'[i].from >= current'
    BY <2>2, <2>5
  <2>. QED
    BY <2>4, <2>6 DEF RunsApart
<1>11. Chain'
  <2>1. parts' = parts /\ starts' = starts /\ packed' = packed
    BY <1>5 DEF emitted
  <2>2. Len(starts) = 0 /\ packed = 0
    BY <1>1, <1>2 DEF Chain, Covers
  <2>3. Len(parts') = 0 /\ Len(starts') = 0 /\ \A n \in 1 .. Len(parts') : FALSE
    BY <2>1, <2>2, <1>2
  <2>4. Covers(parts, starts, current)'
    BY <2>3 DEF Covers
  <2>. QED
    BY <2>1, <2>2, <2>3, <2>4, <1>2, <1>5 DEF Chain
<1>12. Course'
  BY <1>2, <1>5 DEF Course, unpacked
<1>. QED
  BY <1>8, <1>9, <1>10, <1>11, <1>12 DEF IInv

LEMMA ScanEndsStep == IInv /\ ScanEnds => IInv'
<1>. SUFFICES ASSUME IInv, ScanEnds PROVE IInv'
  OBVIOUS
<1>1. /\ pc = "scan" /\ pc' = "emit"
      /\ UNCHANGED <<input, scanned, emitted, given, unpacked>>
  BY DEF ScanEnds
<1>2. /\ size' = size /\ data' = data /\ offset' = offset /\ position' = position
      /\ junk' = junk /\ current' = current /\ parts' = parts /\ starts' = starts
      /\ packed' = packed /\ claimed' = claimed /\ expected' = expected /\ read' = read
      /\ written' = written /\ output' = output /\ verdict' = verdict
  BY <1>1 DEF input, scanned, emitted, given, unpacked
<1>3. Typed'
  BY <1>1, <1>2 DEF IInv, Typed
<1>4. RunsRight' /\ RunsApart' /\ Chain'
  BY <1>2 DEF IInv, RunsRight, RunRight, Phase, RunsApart, Chain, Covers, RecordRight
<1>5. Course'
  BY <1>1, <1>2 DEF IInv, Course
<1>. QED
  BY <1>3, <1>4, <1>5 DEF IInv

LEMMA CoversOneMore ==
  ASSUME NEW ps \in Seq(Records), NEW ss \in Seq(Nat), NEW end \in Nat,
         NEW r \in Records, Covers(ps, ss, end), RecordRight(r, end),
         Len(ps) = 0 => end = 0
  PROVE  /\ Append(ps, r) \in Seq(Records) /\ Append(ss, end) \in Seq(Nat)
         /\ Covers(Append(ps, r), Append(ss, end), end + r.size)
         /\ Len(Append(ps, r)) > 0
<1> DEFINE qs == Append(ps, r)
           ts == Append(ss, end)
<1>1. /\ qs \in Seq(Records) /\ ts \in Seq(Nat) /\ Len(ps) \in Nat
      /\ Len(qs) = Len(ps) + 1 /\ Len(ts) = Len(ss) + 1 /\ Len(ss) = Len(ps)
  BY DEF Covers
<1>2. \A n \in 1 .. Len(ps) : qs[n] = ps[n] /\ ts[n] = ss[n]
  BY <1>1
<1>3. qs[Len(qs)] = r /\ ts[Len(qs)] = end
  BY <1>1
<1>4. \A n \in 1 .. Len(qs) : n \in 1 .. Len(ps) \/ n = Len(qs)
  BY <1>1
<1>5. \A n \in 1 .. Len(qs) : RecordRight(qs[n], ts[n])
  BY <1>2, <1>3, <1>4 DEF Covers
<1>6. ASSUME NEW n \in 1 .. Len(qs)
      PROVE  ts[n] + qs[n].size = IF n = Len(qs) THEN end + r.size ELSE ts[n + 1]
  <2>1. CASE n = Len(qs)
    BY <2>1, <1>3
  <2>2. CASE n # Len(qs)
    <3>1. n \in 1 .. Len(ps)
      BY <2>2, <1>4
    <3>2. ss[n] + ps[n].size = IF n = Len(ps) THEN end ELSE ss[n + 1]
      BY <3>1 DEF Covers
    <3>3. CASE n = Len(ps)
      BY <3>1, <3>2, <3>3, <1>1, <1>2, <1>3, <2>2
    <3>4. CASE n # Len(ps)
      <4>1. n + 1 \in 1 .. Len(ps)
        BY <3>1, <3>4, <1>1
      <4>. QED
        BY <4>1, <3>1, <3>2, <3>4, <1>2, <2>2
    <3>. QED
      BY <3>3, <3>4
  <2>. QED
    BY <2>1, <2>2
<1>7. ts[1] = 0
  <2>1. CASE Len(ps) = 0
    BY <2>1, <1>1, <1>3
  <2>2. CASE Len(ps) > 0
    <3>1. 1 \in 1 .. Len(ps)
      BY <2>2, <1>1
    <3>. QED
      BY <2>2, <3>1, <1>2 DEF Covers
  <2>. QED
    BY <2>1, <2>2, <1>1
<1>8. Covers(qs, ts, end + r.size)
  <2>. HIDE DEF qs, ts
  <2>. QED
    BY <1>1, <1>5, <1>6, <1>7 DEF Covers
<1>. QED
  BY <1>1, <1>8

LEMMA LiteralRight ==
  ASSUME Typed, NEW from \in Nat, NEW to \in Nat, from < to, to <= size
  PROVE  /\ Literal(from, to) \in Records
         /\ Literal(from, to).size = to - from
         /\ RecordRight(Literal(from, to), from)
<1>1. size \in Nat /\ data \in [0 .. size - 1 -> Bit]
  BY SizeTypes
<1>2. Bytes(from, to) \in [0 .. (to - from) - 1 -> Bit]
  BY <1>1 DEF Bytes
<1>3. to - from \in Nat /\ to - from > 0 /\ from + (to - from) = to
  OBVIOUS
<1>4. Bytes(from, to) \in UNION {[0 .. n - 1 -> Bit] : n \in Nat}
  BY <1>2, <1>3
<1>5. {} \in Seeds
  BY DEF Seeds
<1>6. Literal(from, to) \in Records
  BY <1>3, <1>4, <1>5 DEF Literal, Records
<1>7. \A y \in 0 .. (to - from) - 1 : Bytes(from, to)[y] = data[from + y]
  BY DEF Bytes
<1>. QED
  BY <1>3, <1>6, <1>7 DEF Literal, RecordRight

LEMMA PaddingRight ==
  ASSUME Typed, NEW i \in 1 .. Len(junk), junk[i].from < junk[i].to, junk[i].to <= size
  PROVE  LET r == Padding(junk[i].from, junk[i].to, junk[i].seed)
         IN  /\ r \in Records
             /\ r.size = junk[i].to - junk[i].from
             /\ RecordRight(r, junk[i].from)
<1> DEFINE f == junk[i].from
           t == junk[i].to
<1>1. junk[i] \in Runs
  BY DEF Typed
<1>2. f \in Nat /\ t \in Nat /\ junk[i].seed \in Seeds
  BY <1>1 DEF Runs
<1>3. t - f \in Nat /\ t - f > 0 /\ f + (t - f) = t
  BY <1>2
<1>4. <<>> \in [0 .. 0 - 1 -> Bit]
  OBVIOUS
<1>5. <<>> \in UNION {[0 .. n - 1 -> Bit] : n \in Nat}
  BY <1>4
<1>6. Padding(f, t, junk[i].seed) \in Records
  BY <1>2, <1>3, <1>5 DEF Padding, Records
<1>7. /\ Padding(f, t, junk[i].seed).size = t - f
      /\ Padding(f, t, junk[i].seed).junk = TRUE
      /\ Padding(f, t, junk[i].seed).seed = junk[i].seed
  BY DEF Padding
<1>8. \E m \in 1 .. Len(junk) :
        junk[m].from = f /\ f + (t - f) <= junk[m].to /\ junk[m].seed = junk[i].seed
  BY <1>2, <1>3
<1>9. size \in Nat
  BY SizeTypes
<1>10. RecordRight(Padding(f, t, junk[i].seed), f)
  <2>. DEFINE r == Padding(f, t, junk[i].seed)
  <2>. HIDE DEF r
  <2>1. r.size = t - f /\ r.junk = TRUE /\ r.seed = junk[i].seed
    BY <1>7 DEF r
  <2>2. r.size > 0 /\ f + r.size <= size
    BY <2>1, <1>2, <1>3, <1>9
  <2>. QED
    BY <2>1, <2>2, <1>8 DEF RecordRight, r
<1>. QED
  BY <1>6, <1>7, <1>10

LEMMA EmitPaddingStep == IInv /\ EmitPadding => IInv'
<1>. SUFFICES ASSUME IInv, EmitPadding PROVE IInv'
  OBVIOUS
<1>1. Typed /\ RunsRight /\ RunsApart /\ Chain /\ Course
  BY DEF IInv
<1>2. PICK i \in DOMAIN junk :
        /\ Chosen(i) /\ junk[i].to > PaddingStart(junk[i])
        /\ LET r == junk[i]
               from == PaddingStart(r)
           IN  \/ /\ from = current
                  /\ parts' = Append(parts, Padding(from, r.to, r.seed))
                  /\ starts' = Append(starts, from)
                  /\ packed' = packed + 4 + SeedBytes
               \/ /\ from > current
                  /\ parts' = Append(Append(parts, Literal(current, from)),
                                     Padding(from, r.to, r.seed))
                  /\ starts' = Append(Append(starts, current), from)
                  /\ packed' = packed + 4 + (from - current) + 4 + SeedBytes
        /\ current' = junk[i].to
  BY DEF EmitPadding
<1>3. /\ pc = "emit" /\ pc' = "emit" /\ current < size
      /\ UNCHANGED <<input, scanned, given, unpacked>>
      /\ size' = size /\ data' = data /\ offset' = offset /\ position' = position
      /\ junk' = junk /\ claimed' = claimed /\ expected' = expected /\ read' = read
      /\ written' = written /\ output' = output /\ verdict' = verdict
  BY DEF EmitPadding, input, scanned, given, unpacked
<1>4. /\ i \in 1 .. Len(junk) /\ junk[i] \in Runs
      /\ current \in Nat /\ size \in Nat /\ position <= size /\ position \in Nat
      /\ packed \in Nat /\ parts \in Seq(Records) /\ starts \in Seq(Nat)
  <2>1. junk \in Seq(Runs) /\ size \in Nat
    BY <1>1, SizeTypes DEF Typed
  <2>2. /\ current \in 0 .. size /\ position \in 0 .. size /\ packed \in Nat
        /\ parts \in Seq(Records) /\ starts \in Seq(Nat)
    BY <1>1 DEF Typed
  <2>3. i \in 1 .. Len(junk) /\ junk[i] \in Runs
    BY <2>1, <1>2
  <2>. QED
    BY <2>1, <2>2, <2>3
<1>5. PICK r \in Runs : r = junk[i]
  BY <1>4
<1>6. r.from \in Nat /\ r.to \in Nat
  BY <1>5 DEF Runs
<1>7. SeedBytes \in Nat
  BY LfgAssumption DEF SeedBytes
<1>8. r.from < r.to /\ r.to <= size
  BY <1>1, <1>4, <1>5, <1>6 DEF RunsRight, RunRight
<1>9. r.from >= current
  <2>1. r.to > current + SeedBytes
    BY <1>2, <1>5 DEF Chosen, Reaches
  <2>2. r.to <= current \/ r.from >= current
    BY <1>1, <1>4, <1>5 DEF RunsApart
  <2>. QED
    BY <2>1, <2>2, <1>4, <1>6, <1>7
<1>10. PaddingStart(r) = r.from
  BY <1>4, <1>6, <1>9 DEF PaddingStart
<1>11. PICK pad \in Records :
         /\ pad = Padding(r.from, r.to, r.seed)
         /\ pad.size = r.to - r.from /\ RecordRight(pad, r.from)
  BY PaddingRight, <1>1, <1>4, <1>5, <1>8
<1>12. Covers(parts, starts, current) /\ (Len(parts) = 0 => current = 0)
  <2>1. Len(parts) = 0 => current \in {0, size}
    BY <1>1 DEF Chain
  <2>. QED
    BY <2>1, <1>1, <1>3, <1>4 DEF Chain
<1>13. /\ parts' \in Seq(Records) /\ starts' \in Seq(Nat) /\ packed' \in Nat
       /\ Covers(parts', starts', r.to) /\ Len(parts') > 0 /\ packed' > 0
  <2>0. r.from + pad.size = r.to
    BY <1>6, <1>11
  <2>1. CASE /\ r.from = current
             /\ parts' = Append(parts, pad)
             /\ starts' = Append(starts, r.from)
             /\ packed' = packed + 4 + SeedBytes
    <3>1. /\ Append(parts, pad) \in Seq(Records) /\ Append(starts, current) \in Seq(Nat)
          /\ Covers(Append(parts, pad), Append(starts, current), current + pad.size)
          /\ Len(Append(parts, pad)) > 0
      BY CoversOneMore, <1>4, <1>11, <1>12, <2>1
    <3>. QED
      BY <3>1, <2>0, <2>1, <1>4, <1>7
  <2>2. CASE /\ r.from > current
             /\ parts' = Append(Append(parts, Literal(current, r.from)), pad)
             /\ starts' = Append(Append(starts, current), r.from)
             /\ packed' = packed + 4 + (r.from - current) + 4 + SeedBytes
    <3>1. PICK lit \in Records :
            /\ lit = Literal(current, r.from)
            /\ lit.size = r.from - current /\ RecordRight(lit, current)
      <4>1. PICK c, f \in Nat : c = current /\ f = r.from /\ c < f /\ f <= size
        <5>1. current \in Nat /\ r.from > current
          BY <1>4, <2>2
        <5>2. r.from <= size
          BY <1>4, <1>6, <1>8
        <5>. QED
          BY <5>1, <5>2, <1>6
      <4>2. /\ Literal(c, f) \in Records /\ Literal(c, f).size = f - c
            /\ RecordRight(Literal(c, f), c)
        BY LiteralRight, <4>1, <1>1
      <4>. QED
        BY <4>1, <4>2
    <3>2. current + lit.size = r.from
      BY <3>1, <1>4, <1>6
    <3>3. PICK ps \in Seq(Records), ss \in Seq(Nat) :
            /\ ps = Append(parts, lit) /\ ss = Append(starts, current)
            /\ Covers(ps, ss, r.from) /\ Len(ps) > 0
      BY CoversOneMore, <1>4, <1>12, <3>1, <3>2
    <3>4. /\ Append(ps, pad) \in Seq(Records) /\ Append(ss, r.from) \in Seq(Nat)
          /\ Covers(Append(ps, pad), Append(ss, r.from), r.from + pad.size)
          /\ Len(Append(ps, pad)) > 0
      <4>1. /\ r.from \in Nat /\ Covers(ps, ss, r.from) /\ (Len(ps) = 0 => r.from = 0)
            /\ RecordRight(pad, r.from)
        BY <3>3, <1>6, <1>11
      <4>. QED
        BY CoversOneMore, <4>1
    <3>5. packed' \in Nat /\ packed' > 0
      <4>0. PICK c, f \in Nat : c = current /\ f = r.from /\ f > c
        BY <2>2, <1>4, <1>6
      <4>1. PICK d \in Nat : d = r.from - current
        <5>1. f - c \in Nat
          BY <4>0
        <5>. QED
          BY <4>0, <5>1
      <4>2. PICK b \in Nat : b = SeedBytes
        BY <1>7
      <4>3. packed' = packed + 4 + d + 4 + b
        BY <4>1, <4>2, <2>2
      <4>. QED
        BY <4>3, <1>4
    <3>. QED
      BY <3>1, <3>3, <3>4, <3>5, <2>0, <2>2
  <2>. QED
    BY <2>1, <2>2, <1>2, <1>5, <1>10, <1>11
<1>14. current' = r.to
  BY <1>2, <1>5
<1>15. Typed'
  BY <1>1, <1>3, <1>6, <1>8, <1>13, <1>14, <1>4 DEF Typed
<1>16. RunsRight'
  BY <1>1, <1>3 DEF RunsRight, RunRight, Phase
<1>17. RunsApart'
  <2>1. ASSUME NEW m \in 1 .. Len(junk) PROVE junk[m].to <= r.to \/ junk[m].from >= r.to
    <3>1. junk[m] \in Runs
      BY <1>1 DEF Typed
    <3>2. junk[m].from \in Nat /\ junk[m].to \in Nat
      BY <3>1 DEF Runs
    <3>3. m < i => junk[m].to <= r.from
      BY <1>1, <1>4, <1>5 DEF RunsApart
    <3>4. i < m => r.to <= junk[m].from
      BY <1>1, <1>4, <1>5 DEF RunsApart
    <3>5. m < i \/ m = i \/ i < m
      BY <1>4
    <3>. QED
      BY <3>2, <3>3, <3>4, <3>5, <1>5, <1>6, <1>8
  <2>. QED
    BY <2>1, <1>1, <1>3, <1>14 DEF RunsApart
<1>18. Chain'
  <2>1. Covers(parts, starts, current)'
    BY <1>13, <1>14, <1>3 DEF Covers, RecordRight
  <2>2. ~(Len(parts') = 0)
    BY <1>13
  <2>3. current' > 0
    BY <1>14, <1>6, <1>8
  <2>. QED
    BY <2>1, <2>2, <2>3, <1>13 DEF Chain
<1>19. Course'
  BY <1>1, <1>3 DEF Course
<1>. QED
  BY <1>15, <1>16, <1>17, <1>18, <1>19 DEF IInv

LEMMA EmitRestStep == IInv /\ EmitRest => IInv'
<1>. SUFFICES ASSUME IInv, EmitRest PROVE IInv'
  OBVIOUS
<1>1. Typed /\ RunsRight /\ RunsApart /\ Chain /\ Course
  BY DEF IInv
<1>2. /\ pc = "emit" /\ pc' = "emit" /\ current < size /\ current' = size
      /\ UNCHANGED <<input, scanned, given, unpacked>>
      /\ size' = size /\ data' = data /\ offset' = offset /\ position' = position
      /\ junk' = junk /\ claimed' = claimed /\ expected' = expected /\ read' = read
      /\ written' = written /\ output' = output /\ verdict' = verdict
  BY DEF EmitRest, input, scanned, given, unpacked
<1>3. /\ size \in Nat /\ current \in Nat /\ packed \in Nat /\ junk \in Seq(Runs)
      /\ position \in 0 .. size
      /\ parts \in Seq(Records) /\ starts \in Seq(Nat) /\ Len(parts) \in Nat
  <2>1. size \in Nat
    BY <1>1, SizeTypes
  <2>. QED
    BY <2>1, <1>1 DEF Typed
<1>4. /\ parts' \in Seq(Records) /\ starts' \in Seq(Nat) /\ packed' \in Nat
      /\ Covers(parts', starts', size)
      /\ Len(parts') = 0 => packed' = 0
      /\ Len(parts') > 0 => packed' > 0
  <2>1. CASE current = 0 /\ UNCHANGED <<parts, starts, packed>>
    <3>1. Len(parts) = 0 /\ Len(starts) = 0 /\ packed = 0
      BY <2>1, <1>1, <1>3 DEF Chain, Covers
    <3>2. Covers(parts, starts, size)
      BY <3>1 DEF Covers
    <3>. QED
      BY <2>1, <3>1, <3>2, <1>3
  <2>2. CASE /\ current > 0
             /\ parts' = Append(parts, Literal(current, size))
             /\ starts' = Append(starts, current)
             /\ packed' = packed + 4 + (size - current)
    <3>1. PICK lit \in Records :
            /\ lit = Literal(current, size)
            /\ lit.size = size - current /\ RecordRight(lit, current)
      BY LiteralRight, <1>1, <1>2, <1>3
    <3>2. current + lit.size = size
      BY <3>1, <1>3
    <3>3. Covers(parts, starts, current) /\ (Len(parts) = 0 => current = 0)
      <4>1. Len(parts) = 0 => current \in {0, size}
        BY <1>1 DEF Chain
      <4>. QED
        BY <4>1, <1>1, <1>2, <1>3 DEF Chain
    <3>4. /\ Append(parts, lit) \in Seq(Records) /\ Append(starts, current) \in Seq(Nat)
          /\ Covers(Append(parts, lit), Append(starts, current), size)
          /\ Len(Append(parts, lit)) > 0
      BY CoversOneMore, <3>1, <3>2, <3>3, <1>3
    <3>5. packed' \in Nat /\ packed' > 0
      BY <2>2, <1>2, <1>3
    <3>. QED
      BY <3>1, <3>4, <3>5, <2>2
  <2>. QED
    BY <2>1, <2>2 DEF EmitRest
<1>5. Typed'
  BY <1>1, <1>2, <1>3, <1>4 DEF Typed
<1>6. RunsRight'
  BY <1>1, <1>2 DEF RunsRight, RunRight, Phase
<1>7. RunsApart'
  <2>1. ASSUME NEW m \in 1 .. Len(junk) PROVE junk[m].to <= size
    <3>1. junk[m] \in Runs /\ junk[m].to <= position
      BY <1>1, <1>3 DEF RunsRight, RunRight
    <3>2. junk[m].to \in Nat
      BY <3>1 DEF Runs
    <3>. QED
      BY <3>1, <3>2, <1>3
  <2>. QED
    BY <2>1, <1>1, <1>2 DEF RunsApart
<1>8. Chain'
  <2>1. Covers(parts, starts, current)'
    BY <1>2, <1>4 DEF Covers, RecordRight
  <2>2. current' \in {0, size'} /\ current' > 0
    BY <1>2, <1>3
  <2>. QED
    BY <2>1, <2>2, <1>4 DEF Chain
<1>9. Course'
  BY <1>1, <1>2 DEF Course
<1>. QED
  BY <1>5, <1>6, <1>7, <1>8, <1>9 DEF IInv

LEMMA EmitEndsStep == IInv /\ EmitEnds => IInv'
<1>. SUFFICES ASSUME IInv, EmitEnds PROVE IInv'
  OBVIOUS
<1>1. Typed /\ RunsRight /\ RunsApart /\ Chain /\ Course
  BY DEF IInv
<1>2. /\ pc = "emit" /\ pc' = "unpack" /\ current = size
      /\ \E w \in PackedSkews : claimed' = IF packed = 0 THEN 0 ELSE packed + w
      /\ \E w \in Skews : expected' = size + w
      /\ output' = [x \in 0 .. expected' - 1 |-> 0]
      /\ size' = size /\ data' = data /\ offset' = offset /\ position' = position
      /\ junk' = junk /\ current' = current /\ parts' = parts /\ starts' = starts
      /\ packed' = packed /\ read' = read /\ written' = written /\ verdict' = verdict
  BY DEF EmitEnds, input, scanned, emitted
<1>3. /\ size \in Nat /\ packed \in Nat /\ Len(parts) \in Nat
      /\ read = 0 /\ written = 0 /\ verdict = "none"
  <2>1. size \in Nat
    BY <1>1, SizeTypes
  <2>2. read = 0 /\ written = 0 /\ verdict = "none"
    BY <1>1, <1>2 DEF Course
  <2>. QED
    BY <2>1, <2>2, <1>1 DEF Typed
<1>4. claimed' \in Nat /\ (packed = 0) = (claimed' = 0)
  BY <1>2, <1>3, PackingAssumption
<1>5. expected' \in Nat
  BY <1>1, <1>2, SizeTypes
<1>6. output' \in [0 .. expected' - 1 -> Bit]
  <2>1. PICK n : n = expected'
    OBVIOUS
  <2>2. [x \in 0 .. n - 1 |-> 0] \in [0 .. n - 1 -> Bit]
    BY DEF Bit
  <2>. QED
    BY <2>1, <2>2, <1>2
<1>. written' \in Nat /\ written' <= expected'
  BY <1>2, <1>3, <1>5
<1>7. Typed'
  BY <1>1, <1>2, <1>4, <1>5, <1>6 DEF Typed
<1>8. RunsRight' /\ RunsApart' /\ Chain'
  <2>1. RunsRight'
    BY <1>1, <1>2 DEF RunsRight, RunRight, Phase
  <2>2. RunsApart'
    BY <1>1, <1>2 DEF RunsApart
  <2>3. Chain'
    BY <1>1, <1>2 DEF Chain, Covers, RecordRight
  <2>. QED
    BY <2>1, <2>2, <2>3
<1>9. Course'
  <2>1. Len(parts) > 0 => starts[1] = 0
    BY <1>1 DEF Chain, Covers
  <2>2. /\ read' = 0 /\ written' = 0 /\ verdict' = "none" /\ pc' = "unpack"
        /\ parts' = parts /\ starts' = starts /\ current' = size' /\ packed' = packed
    BY <1>2, <1>3
  <2>3. read' <= Len(parts')
    BY <2>2, <1>3
  <2>4. Len(parts') > 0 => written' = IF read' = Len(parts') THEN current' ELSE starts'[read' + 1]
    BY <2>1, <2>2, <1>3
  <2>5. \A x \in 0 .. written' - 1 : FALSE
    BY <2>2
  <2>. QED
    BY <2>2, <2>3, <2>4, <2>5, <1>4 DEF Course
<1>. QED
  BY <1>7, <1>8, <1>9 DEF IInv

-----------------------------------------------------------------------------
(* The steps of the reader.                                                *)

\* What a step of the reader leaves as it is.
LEMMA KeptByReader ==
  ASSUME IInv, UNCHANGED <<input, scanned, emitted, given>>
  PROVE  /\ RunsRight' /\ RunsApart' /\ Chain'
         /\ size' = size /\ data' = data /\ offset' = offset /\ position' = position
         /\ junk' = junk /\ current' = current /\ parts' = parts /\ starts' = starts
         /\ packed' = packed /\ claimed' = claimed /\ expected' = expected
         /\ \A x : Excused(x)' = Excused(x)
<1>1. /\ size' = size /\ data' = data /\ offset' = offset /\ position' = position
      /\ junk' = junk /\ current' = current /\ parts' = parts /\ starts' = starts
      /\ packed' = packed /\ claimed' = claimed /\ expected' = expected
  BY DEF input, scanned, emitted, given
<1>2. RunsRight' /\ RunsApart' /\ Chain'
  BY <1>1 DEF IInv, RunsRight, RunRight, Phase, RunsApart, Chain, Covers, RecordRight
<1>3. \A x : Excused(x)' = Excused(x)
  BY <1>1 DEF Excused, Straddles, Phase
<1>. QED
  BY <1>1, <1>2, <1>3

LEMMA TakePlainStep == IInv /\ TakePlain => IInv'
<1>. SUFFICES ASSUME IInv, TakePlain PROVE IInv'
  OBVIOUS
<1>1. Typed /\ Chain /\ Course
  BY DEF IInv
<1>2. /\ pc = "unpack" /\ pc' = "done" /\ claimed = 0
      /\ \/ size = expected /\ output' = data /\ verdict' = "ok"
         \/ size # expected /\ output' = output /\ verdict' = "SizeMismatch"
      /\ read' = read /\ written' = written
      /\ UNCHANGED <<input, scanned, emitted, given>>
  BY DEF TakePlain
<1>3. /\ RunsRight' /\ RunsApart' /\ Chain'
      /\ size' = size /\ data' = data /\ offset' = offset /\ position' = position
      /\ junk' = junk /\ current' = current /\ parts' = parts /\ starts' = starts
      /\ packed' = packed /\ claimed' = claimed /\ expected' = expected
  BY KeptByReader, <1>2
<1>4. output' \in [0 .. expected - 1 -> Bit] /\ verdict' \in Verdicts
  BY <1>1, <1>2, SizeTypes DEF Typed, Verdicts
<1>5. Typed'
  BY <1>1, <1>2, <1>3, <1>4 DEF Typed
<1>6. Len(parts) = 0 /\ written = 0
  <2>1. packed = 0 /\ (Len(parts) = 0 => written = 0)
    BY <1>1, <1>2 DEF Course
  <2>2. Len(parts) \in Nat
    BY <1>1 DEF Typed
  <2>. QED
    BY <1>1, <2>1, <2>2 DEF Chain
<1>7. verdict' = "ok" => \A x \in 0 .. size' - 1 : ByteRight(x)'
  BY <1>2, <1>3 DEF ByteRight
<1>8. \A x \in 0 .. written' - 1 : FALSE
  BY <1>2, <1>6
<1>9. Course'
  BY <1>1, <1>2, <1>3, <1>6, <1>7, <1>8 DEF Course
<1>. QED
  BY <1>3, <1>5, <1>9 DEF IInv

\* The reader gives up: nothing but the verdict changes.
LEMMA GivesUp ==
  ASSUME IInv, pc = "unpack", pc' = "done", verdict' \in Verdicts, verdict' # "ok",
         UNCHANGED <<input, scanned, emitted, given, read, written, output>>
  PROVE  IInv'
<1>1. Typed /\ Chain /\ Course
  BY DEF IInv
<1>2. /\ RunsRight' /\ RunsApart' /\ Chain'
      /\ size' = size /\ data' = data /\ offset' = offset /\ position' = position
      /\ junk' = junk /\ current' = current /\ parts' = parts /\ starts' = starts
      /\ packed' = packed /\ claimed' = claimed /\ expected' = expected
      /\ \A x : Excused(x)' = Excused(x)
  BY KeptByReader
<1>3. Typed'
  BY <1>1, <1>2 DEF Typed
<1>4. \A x \in 0 .. written - 1 : ByteRight(x)'
  BY <1>1, <1>2 DEF Course, ByteRight
<1>5. Course'
  BY <1>1, <1>2, <1>4 DEF Course
<1>. QED
  BY <1>2, <1>3, <1>5 DEF IInv

LEMMA UnpackRefusesStep == IInv /\ UnpackRefuses => IInv'
BY GivesUp DEF UnpackRefuses, Verdicts

LEMMA UnpackEndsStep == IInv /\ UnpackEnds => IInv'
<1>. SUFFICES ASSUME IInv, UnpackEnds PROVE IInv'
  OBVIOUS
<1>1. Typed /\ Chain /\ Course
  BY DEF IInv
<1>2. /\ pc = "unpack" /\ pc' = "done" /\ claimed # 0
      /\ verdict' = IF read # Len(parts) THEN "UnconsumedInput"
                    ELSE IF written # expected THEN "SizeMismatch" ELSE "ok"
      /\ UNCHANGED <<input, scanned, emitted, given, read, written, output>>
  BY DEF UnpackEnds, Unpacking
<1>3. CASE verdict' # "ok"
  BY GivesUp, <1>2, <1>3 DEF Verdicts
<1>4. CASE verdict' = "ok"
  <2>1. /\ RunsRight' /\ RunsApart' /\ Chain'
        /\ size' = size /\ data' = data /\ offset' = offset /\ position' = position
        /\ junk' = junk /\ current' = current /\ parts' = parts /\ starts' = starts
        /\ packed' = packed /\ claimed' = claimed /\ expected' = expected
        /\ \A x : Excused(x)' = Excused(x)
    BY KeptByReader, <1>2
  <2>2. Typed'
    BY <1>1, <1>2, <1>4, <2>1 DEF Typed, Verdicts
  <2>3. read = Len(parts) /\ written = expected
    BY <1>2, <1>4
  <2>4. Len(parts) > 0
    <3>1. packed # 0
      BY <1>1, <1>2 DEF Course
    <3>2. Len(parts) \in Nat
      BY <1>1 DEF Typed
    <3>. QED
      BY <1>1, <3>1, <3>2 DEF Chain
  <2>5. written = size
    BY <1>1, <1>2, <2>3, <2>4 DEF Course
  <2>6. \A x \in 0 .. written - 1 : ByteRight(x)'
    BY <1>1, <1>2, <2>1 DEF Course, ByteRight
  <2>7. Course'
    BY <1>1, <1>2, <2>1, <2>5, <2>6 DEF Course
  <2>. QED
    BY <2>1, <2>2, <2>7 DEF IInv
<1>. QED
  BY <1>3, <1>4

\* A record that fits writes bytes of the chunk, or bytes of a run that
\* straddles two generations.
LEMMA RecordRestores ==
  ASSUME IInv, NEW n \in 1 .. Len(parts), written = starts[n],
         NEW x \in written .. written + parts[n].size - 1
  PROVE  /\ RecordByte(parts[n], x - written) \in Bit
         /\ RecordByte(parts[n], x - written) = data[x] \/ Excused(x)
<1>1. Typed /\ RunsRight /\ Chain
  BY DEF IInv
<1>2. parts[n] \in Records /\ RecordRight(parts[n], starts[n])
  BY <1>1 DEF Typed, Chain, Covers
<1>3. PICK r \in Records : r = parts[n] /\ RecordRight(r, written)
  BY <1>2
<1>4. r.size \in Nat /\ written \in Nat /\ size \in Nat /\ data \in [0 .. size - 1 -> Bit]
  <2>1. r.size \in Nat
    BY DEF Records
  <2>. QED
    BY <2>1, <1>1, SizeTypes DEF Typed
<1>5. x - written \in 0 .. r.size - 1 /\ written + (x - written) = x /\ x \in 0 .. size - 1
  <2>1. PICK w, u, z \in Nat : w = written /\ u = r.size /\ z = size
    BY <1>4
  <2>2. x \in w .. w + u - 1
    BY <1>3, <2>1
  <2>3. w + u <= z
    BY <1>3, <2>1 DEF RecordRight
  <2>4. x \in Int /\ w <= x /\ x <= w + u - 1
    BY <2>1, <2>2
  <2>5. x - w \in 0 .. u - 1 /\ w + (x - w) = x
    BY <2>1, <2>4
  <2>6. x \in 0 .. z - 1
    BY <2>1, <2>3, <2>4
  <2>. QED
    BY <2>1, <2>5, <2>6
<1>6. CASE ~r.junk
  <2>1. RecordByte(r, x - written) = data[x]
    BY <1>3, <1>5, <1>6 DEF RecordByte, RecordRight
  <2>2. data[x] \in Bit
    BY <1>4, <1>5
  <2>. QED
    BY <2>1, <2>2, <1>3
<1>7. CASE r.junk
  <2>1. PICK i \in 1 .. Len(junk) :
          junk[i].from = written /\ written + r.size <= junk[i].to /\ junk[i].seed = r.seed
    BY <1>3, <1>7 DEF RecordRight
  <2>2. junk[i] \in Runs
    BY <1>1 DEF Typed
  <2>3. junk[i].to \in Nat
    BY <2>2 DEF Runs
  <2>4. x \in junk[i].from .. junk[i].to - 1
    <3>1. PICK w, u, t \in Nat : w = written /\ u = r.size /\ t = junk[i].to
      BY <1>4, <2>3
    <3>2. w + u <= t /\ junk[i].from = w
      BY <2>1, <3>1
    <3>3. x \in w .. w + u - 1
      BY <1>3, <3>1
    <3>4. x \in w .. t - 1
      BY <3>2, <3>3
    <3>. QED
      BY <3>1, <3>2, <3>4
  <2>5. data[x] = Stream(r.seed, ComparedFrom(Phase(written)) + (x - written))
    <3>1. RunRight(junk[i], position)
      BY <1>1, <2>1 DEF RunsRight
    <3>2. \A y \in junk[i].from .. junk[i].to - 1 :
            data[y] = Stream(junk[i].seed, ComparedFrom(Phase(junk[i].from)) + (y - junk[i].from))
      BY <3>1 DEF RunRight
    <3>3. data[x] = Stream(junk[i].seed, ComparedFrom(Phase(junk[i].from)) + (x - junk[i].from))
      BY <2>4, <3>2
    <3>. QED
      BY <2>1, <3>3
  <2>6. RecordByte(r, x - written) = Stream(r.seed, Phase(written) + (x - written))
    BY <1>7 DEF RecordByte, PaddingByte
  <2>7. RecordByte(r, x - written) \in Bit
    BY <2>6 DEF Stream, Bit
  <2>8. CASE Straddles(junk[i])
    BY <2>4, <2>7, <2>8, <1>3 DEF Excused
  <2>9. CASE ~Straddles(junk[i])
    BY <2>1, <2>5, <2>6, <2>7, <2>9, <1>3 DEF Straddles
  <2>. QED
    BY <2>8, <2>9
<1>. QED
  BY <1>6, <1>7

LEMMA UnpackRecordStep == IInv /\ UnpackRecord => IInv'
<1>. SUFFICES ASSUME IInv, UnpackRecord PROVE IInv'
  OBVIOUS
<1>1. Typed /\ RunsRight /\ Chain /\ Course
  BY DEF IInv
<1>2. /\ pc = "unpack" /\ claimed # 0 /\ read < Len(parts)
      /\ UNCHANGED <<input, scanned, emitted, given>>
  BY DEF UnpackRecord, Unpacking
<1>3. Len(parts) \in Nat /\ read \in Nat /\ read + 1 \in 1 .. Len(parts)
  BY <1>1, <1>2 DEF Typed
<1>4. PICK n \in 1 .. Len(parts) : n = read + 1
  BY <1>3
<1>5. PICK r \in Records : r = parts[n]
  BY <1>1 DEF Typed
<1>6. CASE ~Fits(r)
  <2>1. /\ verdict' = (IF r.junk THEN "PaddingOverflow" ELSE "BadRecord") /\ pc' = "done"
        /\ UNCHANGED <<read, written, output>>
    BY <1>4, <1>5, <1>6 DEF UnpackRecord
  <2>2. verdict' \in Verdicts /\ verdict' # "ok"
    BY <2>1 DEF Verdicts
  <2>. QED
    BY GivesUp, <1>2, <2>1, <2>2
<1>7. CASE Fits(r)
  <2>1. /\ output' = [x \in 0 .. expected - 1 |->
                        IF x \in written .. written + r.size - 1
                          THEN RecordByte(r, x - written) ELSE output[x]]
        /\ written' = written + r.size
        /\ read' = n
        /\ pc' = pc /\ verdict' = verdict
    BY <1>4, <1>5, <1>7 DEF UnpackRecord
  <2>2. written = starts[n]
    BY <1>1, <1>2, <1>3, <1>4 DEF Course
  <2>3. /\ RunsRight' /\ RunsApart' /\ Chain'
        /\ size' = size /\ data' = data /\ offset' = offset /\ position' = position
        /\ junk' = junk /\ current' = current /\ parts' = parts /\ starts' = starts
        /\ packed' = packed /\ claimed' = claimed /\ expected' = expected
        /\ \A x : Excused(x)' = Excused(x)
    BY KeptByReader, <1>2
  <2>4. r.size \in Nat /\ written \in Nat /\ expected \in Nat
    <3>1. r.size \in Nat
      BY DEF Records
    <3>. QED
      BY <3>1, <1>1 DEF Typed
  <2>5. \A x \in written .. written + r.size - 1 :
          /\ RecordByte(r, x - written) \in Bit
          /\ RecordByte(r, x - written) = data[x] \/ Excused(x)
    BY RecordRestores, <1>5, <2>2
  <2>6. output' \in [0 .. expected - 1 -> Bit]
    <3>1. \A x \in 0 .. expected - 1 : output[x] \in Bit
      BY <1>1 DEF Typed
    <3>. QED
      BY <2>1, <2>5, <3>1
  <2>7. read' \in Nat /\ written' \in Nat
    BY <2>1, <2>4, <1>4, <1>3
  <2>. written' <= expected'
    <3>1. written + r.size <= expected
      BY <1>7, <2>4 DEF Fits
    <3>. QED
      BY <3>1, <2>1, <2>3
  <2>8. Typed'
    BY <1>1, <2>1, <2>3, <2>6, <2>7 DEF Typed
  <2>9. \A x \in 0 .. written' - 1 : x < expected => output'[x] = data[x] \/ Excused(x)
    <3>. SUFFICES ASSUME NEW x \in 0 .. written' - 1, x < expected
                  PROVE  output'[x] = data[x] \/ Excused(x)
      OBVIOUS
    <3>1. x \in 0 .. expected - 1
      BY <2>4, <2>7
    <3>2. CASE x \in written .. written + r.size - 1
      BY <3>1, <3>2, <2>1, <2>5
    <3>3. CASE x \notin written .. written + r.size - 1
      <4>1. x \in 0 .. written - 1
        BY <3>3, <2>1, <2>4
      <4>2. output[x] = data[x] \/ Excused(x)
        BY <4>1, <1>1, <1>2 DEF Course, ByteRight
      <4>. QED
        BY <4>2, <3>1, <3>3, <2>1
    <3>. QED
      BY <3>2, <3>3
  <2>10. \A x \in 0 .. written' - 1 : ByteRight(x)'
    BY <2>3, <2>9 DEF ByteRight
  <2>11. written' = IF read' = Len(parts') THEN current' ELSE starts'[read' + 1]
    <3>1. starts[n] + parts[n].size = IF n = Len(parts) THEN current ELSE starts[n + 1]
      BY <1>1 DEF Chain, Covers
    <3>. QED
      BY <3>1, <2>1, <2>2, <2>3, <1>5
  <2>12. read' <= Len(parts') /\ ~(Len(parts') = 0)
    BY <2>1, <2>3, <1>3, <1>4
  <2>13. verdict' = "none" /\ pc' = "unpack"
    BY <1>1, <1>2, <2>1 DEF Course
  <2>14. current' = size' /\ ((packed' = 0) = (claimed' = 0))
    BY <1>1, <1>2, <2>3 DEF Course
  <2>15. Course'
    BY <2>10, <2>11, <2>12, <2>13, <2>14 DEF Course
  <2>. QED
    BY <2>3, <2>8, <2>15 DEF IInv
<1>. QED
  BY <1>6, <1>7

-----------------------------------------------------------------------------
(* A chunk packed and unpacked.                                            *)

LEMMA InitInvariant == Init => IInv
<1>. SUFFICES ASSUME Init PROVE IInv
  OBVIOUS
<1>1. PICK c \in Chunks : size = c.size /\ data = c.bytes
  BY DEF Init
<1>2. size \in Nat
  BY <1>1, PackingAssumption
<1>3. offset \in Nat
  BY PackingAssumption DEF Init
<1>4. <<>> \in [0 .. 0 - 1 -> Bit]
  OBVIOUS
<1>5. Typed
  BY <1>1, <1>2, <1>3, <1>4 DEF Init, Typed, Verdicts
<1>6. RunsRight /\ RunsApart /\ Chain /\ Course
  BY DEF Init, RunsRight, RunsApart, Chain, Covers, Course
<1>. QED
  BY <1>5, <1>6 DEF IInv

LEMMA Stutters == IInv /\ UNCHANGED vars => IInv'
<1>. SUFFICES ASSUME IInv, UNCHANGED vars PROVE IInv'
  OBVIOUS
<1>1. /\ RunsRight' /\ RunsApart' /\ Chain'
      /\ size' = size /\ data' = data /\ offset' = offset /\ position' = position
      /\ junk' = junk /\ current' = current /\ parts' = parts /\ starts' = starts
      /\ packed' = packed /\ claimed' = claimed /\ expected' = expected
      /\ \A x : Excused(x)' = Excused(x)
  BY KeptByReader DEF vars
<1>2. pc' = pc /\ read' = read /\ written' = written /\ output' = output /\ verdict' = verdict
  BY DEF vars, unpacked
<1>3. Typed'
  BY <1>1, <1>2 DEF IInv, Typed
<1>4. Course'
  BY <1>1, <1>2 DEF IInv, Course, ByteRight
<1>. QED
  BY <1>1, <1>3, <1>4 DEF IInv

LEMMA StepKeepsInvariant == IInv /\ [Next]_vars => IInv'
BY ScanWindowStep, ScanEndsStep, EmitPaddingStep, EmitRestStep, EmitEndsStep, TakePlainStep,
   UnpackRefusesStep, UnpackRecordStep, UnpackEndsStep, Stutters DEF Next

LEMMA InvariantTypes == IInv => TypeOK
<1>. SUFFICES ASSUME Typed PROVE TypeOK
  BY DEF IInv
<1>1. size \in Nat \ {0} /\ data \in [0 .. size - 1 -> Bit]
  BY SizeTypes
<1>2. \A i \in DOMAIN parts : /\ parts[i].junk \in BOOLEAN /\ parts[i].size \in Nat
                             /\ parts[i].seed \in Seeds
  <2>1. \A i \in DOMAIN parts : parts[i] \in Records
    BY DEF Typed
  <2>. QED
    BY <2>1 DEF Records
<1>. QED
  BY <1>1, <1>2 DEF Typed, TypeOK

LEMMA InvariantRestores == IInv => UnpackRestores
<1>. SUFFICES ASSUME IInv, verdict = "ok", expected = size, NEW x \in 0 .. size - 1
              PROVE  \/ output[x] = data[x]
                     \/ \E i \in DOMAIN junk :
                          Straddles(junk[i]) /\ x \in junk[i].from .. junk[i].to - 1
  BY DEF UnpackRestores
<1>1. size \in Nat /\ junk \in Seq(Runs)
  BY SizeTypes DEF IInv, Typed
<1>2. ByteRight(x) /\ x < expected
  BY <1>1 DEF IInv, Course
<1>. QED
  BY <1>1, <1>2 DEF ByteRight, Excused

\* Every state of packing and unpacking one chunk is well typed (pack.rs:9,
\* unpack.rs:9).
THEOREM PackingType == Spec => []TypeOK
<1>. QED
  BY InitInvariant, StepKeepsInvariant, InvariantTypes, PTL DEF Spec

\* What unpack writes is the chunk rvz_pack_chunk was given, but for bytes of
\* a run that straddles two generations, for every generator, block, chunk
\* and disc offset.
THEOREM PackingRestores == Spec => []UnpackRestores
<1>. QED
  BY InitInvariant, StepKeepsInvariant, InvariantRestores, PTL DEF Spec

-----------------------------------------------------------------------------
(* The payload of a chunk.                                                 *)

-----------------------------------------------------------------------------
(* The invariant.                                                          *)

ListLength == IF Raw THEN 0 ELSE ListSize(Len(exceptions))

\* The payload as the encoder laid it out, of which the reader is told only
\* the length and whether it is compressed.
LaidOut ==
  /\ stored.list = ListLength
  /\ stored.pad = IF stored.compressed THEN 0 ELSE Pad(ListLength)
  /\ packed = 0 => stored.length = stored.list + stored.pad + size

StageInvariant ==
  /\ IsFiniteSet(Blocks)
  /\ Len(exceptions) \in Nat
  /\ stage \in {"load", "unpack"} => pc = "unpack"
  /\ stage = "apply" => pc = "done"
  /\ stage \in {"load", "unpack", "apply"} => LaidOut
  /\ stage \in {"unpack", "apply"} => mainAt = stored.list + stored.pad

PInv == IInv /\ StageInvariant

-----------------------------------------------------------------------------
(* The layout.                                                             *)

\* Padding as the encoder counts it and aligning as the reader does it come
\* to the same.
LEMMA PadAligns == ASSUME NEW n \in Nat PROVE Align4(n) = n + Pad(n)
BY DEF Align4, Pad

LEMMA ListLengthType ==
  ASSUME StageInvariant PROVE ListLength \in Nat
BY PayloadAssumption DEF StageInvariant, ListLength, ListSize

\* As many exceptions as hashes that differ, a finite number.
LEMMA SlotsFinite == IsFiniteSet(Slots)
<1>1. Slots \subseteq 0 .. HeaderSize
  <2>. SUFFICES ASSUME NEW a \in Areas, NEW l \in 0 .. (a.size - 1) \div HashSize
                PROVE  a.base + (IF l * HashSize < a.size - HashSize THEN l * HashSize
                                 ELSE a.size - HashSize) \in 0 .. HeaderSize
    BY DEF Slots
  <2>1. PICK b, s, h, e \in Nat : b = a.base /\ s = a.size /\ h = HashSize /\ e = HeaderSize
    BY PayloadAssumption
  <2>2. s >= h /\ b + s <= e
    BY <2>1, PayloadAssumption
  <2>3. l \in Nat
    BY <2>1, PayloadAssumption
  <2>4. PICK m \in Nat : m = l * HashSize
    BY <2>1, <2>3
  <2>. QED
    BY <2>1, <2>2, <2>4
<1>2. IsFiniteSet(0 .. HeaderSize)
  BY FS_Interval, PayloadAssumption
<1>. QED
  BY <1>1, <1>2, FS_Subset

LEMMA CollectedIsFinite ==
  ASSUME IsFiniteSet(Blocks)
  PROVE  Cardinality(Collected) \in Nat
<1>1. IsFiniteSet(Blocks \X Slots)
  BY SlotsFinite, FS_Product
<1>2. IsFiniteSet(Collected)
  BY <1>1, FS_Subset DEF Collected
<1>. QED
  BY <1>2, FS_CardinalityType

-----------------------------------------------------------------------------
(* The steps.                                                              *)

LEMMA CollectStep == PInv /\ CollectExceptions => PInv'
<1>. SUFFICES ASSUME PInv, CollectExceptions PROVE PInv'
  OBVIOUS
<1>1. IInv'
  BY Stutters DEF PInv, CollectExceptions
<1>2. Blocks' = Blocks
  BY DEF CollectExceptions, Blocks
<1>3. Cardinality(Collected) \in Nat
  BY CollectedIsFinite DEF PInv, StageInvariant
<1>4. Len(exceptions') = Cardinality(Collected)
  BY <1>3 DEF CollectExceptions
<1>5. StageInvariant'
  BY <1>2, <1>3, <1>4 DEF PInv, StageInvariant, CollectExceptions
<1>. QED
  BY <1>1, <1>5 DEF PInv

LEMMA PackStep == PInv /\ Pack => PInv'
<1>. SUFFICES ASSUME PInv, Pack PROVE PInv'
  OBVIOUS
<1>1. IInv'
  BY ScanWindowStep, ScanEndsStep, EmitPaddingStep, EmitRestStep, EmitEndsStep DEF PInv, Pack
<1>2. StageInvariant'
  BY DEF PInv, StageInvariant, Pack, Blocks
<1>. QED
  BY <1>1, <1>2 DEF PInv

LEMMA StoreStep == PInv /\ Store => PInv'
<1>. SUFFICES ASSUME PInv, Store PROVE PInv'
  OBVIOUS
<1>1. IInv'
  BY Stutters DEF PInv, Store
<1>2. /\ pc' = "unpack" /\ stage' = "load"
      /\ size' = size /\ offset' = offset /\ packed' = packed
      /\ differs' = differs /\ exceptions' = exceptions
  BY DEF Store, vars, input, emitted
<1>3. ListLength' = ListLength
  BY <1>2 DEF ListLength, Raw
<1>4. LaidOut'
  <2>1. PICK main : /\ packed = 0 => main = size
                    /\ \/ stored' = [list |-> ListLength, pad |-> 0, main |-> main,
                                     length |-> ListLength + main, compressed |-> TRUE]
                       \/ stored' = [list |-> ListLength, pad |-> Pad(ListLength), main |-> main,
                                     length |-> ListLength + Pad(ListLength) + main,
                                     compressed |-> FALSE]
    BY DEF Store, ListLength
  <2>2. PICK n, pad \in Nat : n = ListLength /\ pad = Pad(ListLength)
    BY ListLengthType DEF PInv, Pad
  <2>3. packed = 0 => main \in Nat
    BY <2>1, SizeTypes DEF PInv, IInv
  <2>4. CASE stored' = [list |-> n, pad |-> 0, main |-> main,
                        length |-> n + main, compressed |-> TRUE]
    <3>1. /\ stored'.list = n /\ stored'.pad = 0 /\ stored'.length = n + main
          /\ stored'.compressed = TRUE
      BY <2>4
    <3>2. packed = 0 => stored'.length = stored'.list + stored'.pad + size
      BY <2>1, <2>2, <2>3, <3>1
    <3>. QED
      BY <1>2, <1>3, <2>2, <3>1, <3>2 DEF LaidOut
  <2>5. CASE stored' = [list |-> n, pad |-> pad, main |-> main,
                        length |-> n + pad + main, compressed |-> FALSE]
    <3>1. /\ stored'.list = n /\ stored'.pad = pad /\ stored'.length = n + pad + main
          /\ stored'.compressed = FALSE
      BY <2>5
    <3>2. packed = 0 => stored'.length = stored'.list + stored'.pad + size
      BY <2>1, <3>1
    <3>3. Pad(ListLength)' = pad
      BY <1>3, <2>2 DEF Pad
    <3>. QED
      BY <1>2, <1>3, <2>2, <3>1, <3>2, <3>3 DEF LaidOut
  <2>. QED
    BY <2>1, <2>2, <2>4, <2>5
<1>5. StageInvariant'
  BY <1>2, <1>4 DEF PInv, StageInvariant, Blocks
<1>. QED
  BY <1>1, <1>5 DEF PInv

\* The reader finds the end of the list where the encoder left off.
LEMMA MainFound ==
  ASSUME PInv, Load
  PROVE  mainAt' = stored.list + stored.pad
<1>1. /\ LaidOut /\ ListLength \in Nat
      /\ mainAt' = IF Raw THEN 0 ELSE ListEnd(ListSize(Len(exceptions)))
  BY ListLengthType DEF PInv, StageInvariant, Load
<1>2. CASE Raw
  <2>1. ListLength = 0 /\ stored.list = 0 /\ stored.pad = 0
    BY <1>1, <1>2 DEF LaidOut, ListLength, Pad
  <2>. QED
    BY <1>1, <1>2, <2>1
<1>3. CASE ~Raw
  <2>1. PICK n \in Nat : n = ListLength
    BY <1>1
  <2>2. mainAt' = IF stored.compressed THEN n ELSE Align4(n)
    BY <1>1, <1>3, <2>1 DEF ListLength, ListEnd
  <2>3. Align4(n) = n + Pad(n)
    BY PadAligns
  <2>4. stored.list = n /\ stored.pad = IF stored.compressed THEN 0 ELSE Pad(n)
    BY <1>1, <2>1 DEF LaidOut
  <2>. QED
    BY <2>1, <2>2, <2>3, <2>4
<1>. QED
  BY <1>2, <1>3

LEMMA LoadStep == PInv /\ Load => PInv'
<1>. SUFFICES ASSUME PInv, Load PROVE PInv'
  OBVIOUS
<1>1. /\ pc = "unpack" /\ LaidOut /\ ListLength \in Nat
      /\ mainAt' = IF Raw THEN 0 ELSE ListEnd(ListSize(Len(exceptions)))
      /\ UNCHANGED <<input, scanned, emitted, given, read, written, output>>
      /\ UNCHANGED <<differs, exceptions, stored, headers>>
      /\ \/ stage' = "unpack" /\ pc' = pc /\ verdict' = verdict
         \/ stage' = "end" /\ pc' = "done" /\ verdict' = "BadRecord"
  BY ListLengthType DEF PInv, StageInvariant, Load
<1>2. IInv'
  <2>1. CASE pc' = pc /\ verdict' = verdict
    BY <1>1, <2>1, Stutters DEF PInv, vars, unpacked
  <2>2. CASE pc' = "done" /\ verdict' = "BadRecord"
    BY <1>1, <2>2, GivesUp DEF PInv, Verdicts
  <2>. QED
    BY <1>1, <2>1, <2>2
<1>3. mainAt' = stored.list + stored.pad
  BY MainFound
<1>4. StageInvariant'
  <2>1. LaidOut'
    BY <1>1 DEF LaidOut, ListLength, Raw, input, emitted
  <2>. QED
    BY <1>1, <1>3, <2>1 DEF PInv, StageInvariant, Blocks
<1>. QED
  BY <1>2, <1>4 DEF PInv

\* The slice is as long as the chunk at most: behind it there is nothing.
LEMMA SliceStep ==
  ASSUME PInv, stage = "unpack", TakeSlice
  PROVE  IInv'
<1>1. /\ Typed /\ Chain /\ Course /\ IInv /\ LaidOut /\ ListLength \in Nat
      /\ mainAt = stored.list + stored.pad
  BY ListLengthType DEF PInv, IInv, StageInvariant
<1>2. /\ pc = "unpack" /\ pc' = "done" /\ claimed = 0
      /\ UNCHANGED <<input, scanned, emitted, given, read, written>>
  BY DEF TakeSlice
<1>3. CASE output' = output /\ verdict' = "panic"
  BY <1>1, <1>2, <1>3, GivesUp DEF Verdicts
<1>4. CASE /\ mainAt + expected <= stored.length
           /\ output' = Bytes(0, expected) /\ verdict' = "ok"
  <2>1. /\ RunsRight' /\ RunsApart' /\ Chain'
        /\ size' = size /\ data' = data /\ offset' = offset /\ position' = position
        /\ junk' = junk /\ current' = current /\ parts' = parts /\ starts' = starts
        /\ packed' = packed /\ claimed' = claimed /\ expected' = expected
    BY <1>1, <1>2, KeptByReader
  <2>2. size \in Nat /\ expected \in Nat /\ data \in [0 .. size - 1 -> Bit]
    BY <1>1, SizeTypes DEF Typed
  <2>3. expected <= size
    <3>1. PICK n, pad \in Nat : n = stored.list /\ pad = stored.pad
      BY <1>1 DEF LaidOut, Pad
    <3>2. stored.length = n + pad + size
      BY <1>1, <1>2, <3>1 DEF Course, LaidOut
    <3>. QED
      BY <1>1, <1>4, <2>2, <3>1, <3>2
  <2>4. output' = [x \in 0 .. expected - 1 |-> data[x]]
    BY <1>4, <2>2 DEF Bytes
  <2>5. output' \in [0 .. expected - 1 -> Bit]
    BY <2>2, <2>3, <2>4
  <2>6. Typed'
    BY <1>1, <1>2, <1>4, <2>1, <2>5 DEF Typed, Verdicts
  <2>7. Len(parts) = 0 /\ written = 0
    <3>1. packed = 0 /\ (Len(parts) = 0 => written = 0)
      BY <1>1, <1>2 DEF Course
    <3>2. Len(parts) \in Nat
      BY <1>1 DEF Typed
    <3>. QED
      BY <1>1, <3>1, <3>2 DEF Chain
  <2>8. \A x \in 0 .. size' - 1 : ByteRight(x)'
    BY <2>1, <2>2, <2>4 DEF ByteRight
  <2>9. \A x \in 0 .. written' - 1 : FALSE
    BY <1>2, <2>7
  <2>10. Course'
    BY <1>1, <1>2, <2>1, <2>7, <2>8, <2>9 DEF Course
  <2>. QED
    BY <2>1, <2>6, <2>10 DEF IInv
<1>. QED
  BY <1>3, <1>4 DEF TakeSlice

LEMMA UnpackStep == PInv /\ Unpack => PInv'
<1>. SUFFICES ASSUME PInv, Unpack PROVE PInv'
  OBVIOUS
<1>1. /\ stage = "unpack" /\ pc = "unpack" /\ LaidOut
      /\ mainAt = stored.list + stored.pad
      /\ UNCHANGED <<differs, exceptions, payload>>
      /\ stage' = IF pc' # "done" THEN stage ELSE IF verdict' = "ok" THEN "apply" ELSE "end"
  BY DEF PInv, StageInvariant, Unpack
<1>2. IInv'
  BY <1>1, SliceStep, TakePlainStep, UnpackRefusesStep, UnpackRecordStep, UnpackEndsStep
    DEF PInv, Unpack
<1>3. /\ size' = size /\ offset' = offset /\ packed' = packed
      /\ pc' = "unpack" \/ pc' = "done"
  BY <1>1 DEF Unpack, TakePlain, TakeSlice, UnpackRefuses, UnpackRecord, UnpackEnds, input, emitted
<1>4. LaidOut'
  BY <1>1, <1>3 DEF LaidOut, ListLength, Raw, payload
<1>5. StageInvariant'
  BY <1>1, <1>3, <1>4 DEF PInv, StageInvariant, Blocks, payload
<1>. QED
  BY <1>2, <1>5 DEF PInv

LEMMA ApplyStep == PInv /\ ApplyExceptions => PInv'
<1>. SUFFICES ASSUME PInv, ApplyExceptions PROVE PInv'
  OBVIOUS
<1>1. /\ pc = "done" /\ pc' = pc /\ stage' = "end"
      /\ verdict' = verdict \/ verdict' = "BadRecord"
      /\ UNCHANGED <<input, scanned, emitted, given, read, written, output>>
      /\ UNCHANGED <<differs, exceptions>>
  BY DEF PInv, StageInvariant, ApplyExceptions
<1>2. Typed /\ Chain /\ Course
  BY DEF PInv, IInv
<1>3. /\ RunsRight' /\ RunsApart' /\ Chain'
      /\ size' = size /\ data' = data /\ offset' = offset /\ position' = position
      /\ junk' = junk /\ current' = current /\ parts' = parts /\ starts' = starts
      /\ packed' = packed /\ claimed' = claimed /\ expected' = expected
      /\ \A x : Excused(x)' = Excused(x)
  BY <1>1, KeptByReader DEF PInv
<1>4. Typed'
  BY <1>1, <1>2, <1>3 DEF Typed, Verdicts
<1>5. \A x : ByteRight(x)' = ByteRight(x)
  BY <1>1, <1>3 DEF ByteRight
<1>6. Course'
  BY <1>1, <1>2, <1>3, <1>5 DEF Course
<1>7. IInv'
  BY <1>3, <1>4, <1>6 DEF IInv
<1>8. StageInvariant'
  BY <1>1 DEF PInv, StageInvariant, Blocks
<1>. QED
  BY <1>7, <1>8 DEF PInv

-----------------------------------------------------------------------------
(* A payload written and read.                                             *)

LEMMA PayloadInitInvariant == PayloadInit => PInv
<1>. SUFFICES ASSUME PayloadInit PROVE PInv
  OBVIOUS
<1>1. IInv
  BY InitInvariant DEF PayloadInit
<1>2. Blocks = DOMAIN NoDifference
  BY PayloadAssumption DEF PayloadInit, Blocks
<1>3. IsFiniteSet(Blocks)
  BY <1>2, PayloadAssumption
<1>4. Len(exceptions) \in Nat /\ stage = "collect"
  BY DEF PayloadInit
<1>. QED
  BY <1>1, <1>3, <1>4 DEF PInv, StageInvariant

LEMMA PayloadStutters == PInv /\ UNCHANGED pvars => PInv'
<1>. SUFFICES ASSUME PInv, UNCHANGED pvars PROVE PInv'
  OBVIOUS
<1>1. UNCHANGED vars /\ UNCHANGED <<differs, stage, exceptions, stored, mainAt>>
  BY DEF pvars, payload
<1>2. IInv'
  BY <1>1, Stutters DEF PInv
<1>3. pc' = pc /\ size' = size /\ offset' = offset /\ packed' = packed
  BY <1>1 DEF vars, input, emitted
<1>4. LaidOut' = LaidOut
  BY <1>1, <1>3 DEF LaidOut, ListLength, Raw
<1>5. StageInvariant'
  BY <1>1, <1>3, <1>4 DEF PInv, StageInvariant, Blocks
<1>. QED
  BY <1>2, <1>5 DEF PInv

LEMMA PayloadStepKeepsInvariant == PInv /\ [PayloadNext]_pvars => PInv'
BY CollectStep, PackStep, StoreStep, LoadStep, UnpackStep, ApplyStep, PayloadStutters
  DEF PayloadNext

\* The inductive invariant of a chunk that is packed, stored with its
\* exceptions, and read again.
THEOREM PayloadInvariant == PayloadSpec => []PInv
<1>. QED
  BY PayloadInitInvariant, PayloadStepKeepsInvariant, PTL DEF PayloadSpec

\* Every state of a payload is well typed (pack.rs:9, unpack.rs:9).
THEOREM PayloadType == PayloadSpec => []TypeOK
<1>1. PInv => TypeOK
  BY InvariantTypes DEF PInv
<1>. QED
  BY <1>1, PayloadInvariant, PTL

\* What the reader of a payload writes, packed or kept as it was, is the
\* chunk, but for bytes of a run that straddles two generations.
THEOREM PayloadRestores == PayloadSpec => []UnpackRestores
<1>1. PInv => UnpackRestores
  BY InvariantRestores DEF PInv
<1>. QED
  BY <1>1, PayloadInvariant, PTL

\* The reader finds the data behind the list, whatever the length of the list
\* and whether or not it was compressed (encoder.rs:561, decoder.rs:400).
THEOREM PayloadDataIsFound == PayloadSpec => []DataIsFound
<1>1. PInv => DataIsFound
  BY DEF PInv, StageInvariant, DataIsFound
<1>. QED
  BY <1>1, PayloadInvariant, PTL

-----------------------------------------------------------------------------
(* The invariant of the headers.                                           *)

ExceptionAt(e) == ExceptionOf(e[1], e[2])

\* The list names each difference, and nothing else.
Listed ==
  /\ \E L \in Nat : DOMAIN exceptions = 1 .. L
  /\ \A n \in DOMAIN exceptions : \E e \in Collected : exceptions[n] = ExceptionAt(e)
  /\ \A e \in Collected : \E n \in DOMAIN exceptions : exceptions[n] = ExceptionAt(e)
HeaderInvariant ==
  /\ Blocks = DOMAIN NoDifference
  /\ stage # "collect" => Listed
  /\ HeadersRestored

-----------------------------------------------------------------------------
(* Arithmetic, and the greatest of finitely many numbers.                  *)

LEMMA DivMod ==
  ASSUME NEW n \in Nat, NEW d \in Nat \ {0}
  PROVE  n = d * (n \div d) + (n % d) /\ n % d \in 0 .. d - 1 /\ n \div d \in Nat
OBVIOUS

\* The same, with names for quotient and rest.
LEMMA DivModParts ==
  ASSUME NEW n \in Nat, NEW d \in Nat \ {0}
  PROVE  \E q, r \in Nat : q = n \div d /\ n = d * q + r /\ r < d
<1>1. n \div d \in Nat /\ n % d \in Nat /\ n = d * (n \div d) + (n % d) /\ n % d < d
  BY DivMod
<1>. QED
  BY <1>1

LEMMA TimesMonotone ==
  ASSUME NEW d \in Nat, NEW a \in Int, NEW b \in Int, a <= b
  PROVE  d * a <= d * b
<1>1. d * (b - a) >= 0
  OBVIOUS
<1>2. QED
  BY <1>1

\* A number with block b and place r is taken apart again.
LEMMA TakenApart ==
  ASSUME NEW d \in Nat \ {0}, NEW q \in Nat, NEW r \in 0 .. d - 1
  PROVE  (q * d + r) \div d = q /\ (q * d + r) % d = r
<1>1. PICK n \in Nat : n = q * d + r
  OBVIOUS
<1>2. PICK p, s \in Nat : p = n \div d /\ s = n % d /\ n = d * p + s /\ s < d
  BY <1>1, DivMod
<1>3. ~(q + 1 <= p)
  <2>. SUFFICES ASSUME q + 1 <= p PROVE FALSE
    OBVIOUS
  <2>1. d * (q + 1) <= d * p
    BY <1>2, TimesMonotone
  <2>2. d * (q + 1) = q * d + d /\ q * d \in Nat /\ d * p \in Nat
    BY <1>2
  <2>. QED
    BY <1>1, <1>2, <2>1, <2>2
<1>4. ~(p + 1 <= q)
  <2>. SUFFICES ASSUME p + 1 <= q PROVE FALSE
    OBVIOUS
  <2>1. d * (p + 1) <= d * q
    BY <1>2, TimesMonotone
  <2>2. d * (p + 1) = d * p + d /\ d * q = q * d /\ q * d \in Nat /\ d * p \in Nat
    BY <1>2
  <2>. QED
    BY <1>1, <1>2, <2>1, <2>2
<1>5. p = q
  BY <1>2, <1>3, <1>4
<1>6. s = r
  <2>1. d * p = q * d /\ q * d \in Nat
    BY <1>5
  <2>. QED
    BY <1>1, <1>2, <2>1
<1>. QED
  BY <1>1, <1>2, <1>5, <1>6

LEMMA Greatest ==
  ASSUME NEW L \in Nat, NEW S \in SUBSET (0 .. L), S # {}
  PROVE  \E n \in S : \A m \in S : m <= n
<1> DEFINE T == {L - m : m \in S}
<1>1. T \subseteq Nat /\ T # {}
  <2>1. \A m \in S : L - m \in Nat
    OBVIOUS
  <2>. QED
    BY <2>1
<1>2. PICK x \in T : \A y \in T : ~(<<y, x>> \in OpToRel(<, Nat))
  BY <1>1, NatLessThanWellFounded, WFMin, Zenon
<1>3. PICK n \in S : x = L - n
  OBVIOUS
<1>4. ASSUME NEW m \in S
      PROVE  m <= n
  <2>1. L - m \in T /\ L - m \in Nat /\ x \in Nat
    BY <1>1
  <2>2. ~(L - m < x)
    BY <1>2, <2>1 DEF OpToRel
  <2>. QED
    BY <1>3, <2>1, <2>2
<1>. QED
  BY <1>4

-----------------------------------------------------------------------------
(* The order of the list.                                                  *)

LEMMA SlotRange ==
  \A s \in Slots : s \in Nat /\ s + HashSize <= HeaderSize
<1>. SUFFICES ASSUME NEW a \in Areas, NEW l \in 0 .. (a.size - 1) \div HashSize
              PROVE  LET s == a.base + (IF l * HashSize < a.size - HashSize THEN l * HashSize
                                        ELSE a.size - HashSize)
                     IN  s \in Nat /\ s + HashSize <= HeaderSize
  BY DEF Slots
<1>1. PICK b, s, h, e \in Nat : b = a.base /\ s = a.size /\ h = HashSize /\ e = HeaderSize
  BY PayloadAssumption
<1>2. s >= h /\ b + s <= e
  BY <1>1, PayloadAssumption
<1>3. l \in Nat
  BY <1>1, PayloadAssumption
<1>4. PICK m \in Nat : m = l * HashSize
  BY <1>1, <1>3
<1>. QED
  BY <1>1, <1>2, <1>4

(* The hashes that are compared leave no byte of an area out.              *)
LEMMA SlotsCover ==
  ASSUME NEW y \in 0 .. HeaderSize - 1
  PROVE  \E s \in Slots : y \in SlotBytes(s)
<1>1. PICK a \in Areas : y \in a.base .. a.base + a.size - 1
  BY HeadersFit
<1>2. PICK b, s \in Nat, h \in Nat \ {0} :
        b = a.base /\ s = a.size /\ h = HashSize /\ s >= h /\ b + s <= HeaderSize
  BY PayloadAssumption
<1>3. PICK d \in Nat : y = b + d /\ d <= s - 1 /\ s - 1 \in Nat
  <2>1. y \in Int /\ y >= b /\ y <= b + s - 1
    BY <1>1, <1>2, PayloadAssumption
  <2>2. y - b \in Nat /\ y = b + (y - b)
    BY <1>2, <2>1
  <2>. QED
    BY <1>2, <2>1, <2>2
<1>4. PICK l, r \in Nat : l = d \div h /\ d = h * l + r /\ r < h
  BY <1>2, <1>3, DivModParts
<1>5. l \in 0 .. (a.size - 1) \div HashSize
  <2>1. PICK t \in Nat : t = s - 1 /\ d <= t
    BY <1>3
  <2>2. d \div h <= t \div h
    <3>1. PICK p, q \in Nat : p = t \div h /\ t = h * p + q /\ q < h
      BY <1>2, <2>1, DivModParts
    <3>2. SUFFICES ASSUME p + 1 <= l
                   PROVE  FALSE
      BY <1>4, <3>1
    <3>3. h * (p + 1) <= h * l
      BY <1>2, <1>4, <3>1, <3>2, TimesMonotone
    <3>4. h * (p + 1) = h * p + h /\ h * p \in Nat /\ h * l \in Nat
      BY <1>2, <1>4, <3>1
    <3>. QED
      BY <1>4, <2>1, <3>1, <3>3, <3>4
  <2>. QED
    BY <1>2, <1>4, <2>1, <2>2
<1>6. PICK m \in Nat : m = l * HashSize /\ m <= d /\ d < m + h
  <2>1. l * h = h * l /\ l * h \in Nat
    BY <1>2, <1>4
  <2>. QED
    BY <1>2, <1>4, <2>1
<1>7. PICK z \in Nat : z = a.base + (IF l * HashSize < a.size - HashSize THEN l * HashSize
                                     ELSE a.size - HashSize)
  BY <1>2, <1>6
<1>8. z \in Slots
  BY <1>5, <1>7 DEF Slots
<1>9. y \in SlotBytes(z)
  BY <1>2, <1>3, <1>6, <1>7 DEF SlotBytes
<1>. QED
  BY <1>8, <1>9

Before(e) == {f \in Collected : f[1] < e[1] \/ (f[1] = e[1] /\ f[2] <= e[2])}

(* The places of the list are its indices, each taken once.                *)
LEMMA PlacesTaken ==
  ASSUME IsFiniteSet(Blocks), Blocks \subseteq Nat
  PROVE  /\ \A e \in Collected : Place(e) \in 1 .. Cardinality(Collected)
         /\ \A e, f \in Collected : Place(e) = Place(f) => e = f
         /\ \A n \in 1 .. Cardinality(Collected) : \E e \in Collected : Place(e) = n
<1>1. IsFiniteSet(Collected) /\ Cardinality(Collected) \in Nat
  <2>1. IsFiniteSet(Blocks \X Slots)
    BY SlotsFinite, FS_Product
  <2>2. IsFiniteSet(Collected)
    BY <2>1, FS_Subset DEF Collected
  <2>. QED
    BY <2>2, FS_CardinalityType
<1>2. \A e \in Collected : e[1] \in Nat /\ e[2] \in Nat /\ e = <<e[1], e[2]>>
  <2>1. \A s \in Slots : s \in Nat
    BY SlotRange
  <2>2. \A e \in Blocks \X Slots : e[1] \in Blocks /\ e[2] \in Slots /\ e = <<e[1], e[2]>>
    OBVIOUS
  <2>. QED
    BY <2>1, <2>2 DEF Collected
<1>3. \A e \in Collected : /\ IsFiniteSet(Before(e)) /\ Before(e) \subseteq Collected
                           /\ Place(e) = Cardinality(Before(e)) /\ Place(e) \in Nat
                           /\ Place(e) <= Cardinality(Collected)
  <2>. SUFFICES ASSUME NEW e \in Collected
                PROVE  /\ IsFiniteSet(Before(e)) /\ Before(e) \subseteq Collected
                       /\ Place(e) = Cardinality(Before(e)) /\ Place(e) \in Nat
                       /\ Place(e) <= Cardinality(Collected)
    OBVIOUS
  <2>1. Before(e) \in SUBSET Collected /\ Place(e) = Cardinality(Before(e))
    BY DEF Before, Place
  <2>2. IsFiniteSet(Before(e)) /\ Cardinality(Before(e)) <= Cardinality(Collected)
    BY <1>1, <2>1, FS_Subset
  <2>. QED
    BY <2>1, <2>2, FS_CardinalityType
<1>4. \A e \in Collected : Place(e) # 0
  <2>. SUFFICES ASSUME NEW e \in Collected
                PROVE  Place(e) # 0
    OBVIOUS
  <2>1. e \in Before(e)
    BY <1>2 DEF Before
  <2>. QED
    BY <1>3, <2>1, FS_EmptySet
<1>5. ASSUME NEW e \in Collected, NEW f \in Collected, Place(e) = Place(f),
             e[1] < f[1] \/ (e[1] = f[1] /\ e[2] <= f[2])
      PROVE  e = f
  <2>1. Before(e) \subseteq Before(f)
    BY <1>2, <1>5 DEF Before
  <2>2. Before(e) = Before(f)
    BY <1>3, <1>5, <2>1, FS_Subset
  <2>3. f \in Before(e)
    BY <1>2, <2>2 DEF Before
  <2>. QED
    BY <1>2, <1>5, <2>3 DEF Before
<1>6. \A e, f \in Collected : Place(e) = Place(f) => e = f
  <2>. SUFFICES ASSUME NEW e \in Collected, NEW f \in Collected, Place(e) = Place(f)
                PROVE  e = f
    OBVIOUS
  <2>1. \/ e[1] < f[1] \/ (e[1] = f[1] /\ e[2] <= f[2])
        \/ f[1] < e[1] \/ (f[1] = e[1] /\ f[2] <= e[2])
    BY <1>2
  <2>. QED
    BY <1>5, <2>1
<1> DEFINE p == [e \in Collected |-> Place(e)]
           I == 1 .. Cardinality(Collected)
<1>7. p \in Injection(Collected, I)
  <2>1. \A e \in Collected : Place(e) \in I
    BY <1>1, <1>3, <1>4
  <2>2. p \in [Collected -> I]
    BY <2>1
  <2>3. \A e, f \in Collected : p[e] = p[f] => e = f
    BY <1>6
  <2>. QED
    BY <2>2, <2>3 DEF Injection, IsInjective
<1>8. IsFiniteSet(I) /\ Cardinality(I) = Cardinality(Collected)
  BY <1>1, FS_Interval
<1>9. p \in Surjection(Collected, I)
  BY <1>7, <1>8, FS_Injection
<1>10. \A n \in I : \E e \in Collected : Place(e) = n
  BY <1>9 DEF Surjection
<1>. QED
  BY <1>1, <1>3, <1>4, <1>6, <1>10

LEMMA CollectLists ==
  ASSUME IsFiniteSet(Blocks), Blocks \subseteq Nat, CollectExceptions
  PROVE  Listed'
<1> DEFINE N == Cardinality(Collected)
<1>1. N \in Nat
  BY CollectedIsFinite
<1>2. UNCHANGED differs /\ exceptions' =
        [n \in 1 .. N |-> ExceptionAt(CHOOSE f \in Collected : Place(f) = n)]
  BY DEF CollectExceptions, ExceptionAt
<1>3. \A n \in 1 .. N : (CHOOSE f \in Collected : Place(f) = n) \in Collected
                        /\ Place(CHOOSE f \in Collected : Place(f) = n) = n
  BY PlacesTaken
<1>4. \A e \in Collected : (CHOOSE f \in Collected : Place(f) = Place(e)) = e
                           /\ Place(e) \in 1 .. N
  BY PlacesTaken
<1> HIDE DEF N
<1>5. DOMAIN exceptions' = 1 .. N
  BY <1>2
<1>6. \A n \in 1 .. N : \E e \in Collected : exceptions'[n] = ExceptionAt(e)
  BY <1>2, <1>3
<1>7. \A e \in Collected : \E n \in 1 .. N : exceptions'[n] = ExceptionAt(e)
  <2>. SUFFICES ASSUME NEW e \in Collected
                PROVE  \E n \in 1 .. N : exceptions'[n] = ExceptionAt(e)
    OBVIOUS
  <2>1. Place(e) \in 1 .. N /\ exceptions'[Place(e)] = ExceptionAt(e)
    BY <1>2, <1>4
  <2>. QED
    BY <2>1
<1>8. Collected' = Collected
  BY <1>2 DEF Collected, Blocks, Differing
<1>9. \A e : ExceptionAt(e)' = ExceptionAt(e)
  BY DEF ExceptionAt, ExceptionOf
<1>. QED
  BY <1>1, <1>5, <1>6, <1>7, <1>8, <1>9 DEF Listed

-----------------------------------------------------------------------------
(* The headers of the reader.                                              *)

\* An exception lands where the hash it was collected from is.
LEMMA HitsItsSlot ==
  ASSUME Blocks = DOMAIN NoDifference, NEW e \in Collected, NEW b \in Blocks, NEW y
  PROVE  /\ Hits(ExceptionAt(e), b, y) <=> (e[1] = b /\ y \in SlotBytes(e[2]))
         /\ ExceptionAt(e).offset % HeaderSize = e[2]
         /\ ExceptionAt(e).block = e[1] /\ ExceptionAt(e).slot = e[2]
<1>1. e[1] \in Blocks /\ e[2] \in Slots
  BY DEF Collected
<1>2. PICK q, s, h \in Nat : q = e[1] /\ s = e[2] /\ h = HeaderSize /\ s + HashSize <= h
  BY <1>1, SlotRange, PayloadAssumption, HeadersFit
<1>3. h \in Nat \ {0} /\ s \in 0 .. h - 1
  BY <1>2, PayloadAssumption
<1>4. (q * h + s) \div h = q /\ (q * h + s) % h = s
  BY <1>3, TakenApart
<1>5. q * h + s \in Nat /\ q * h + s < OffsetRange
  <2>1. PICK n \in Nat : n = q * h
    OBVIOUS
  <2>2. n + h <= OffsetRange
    BY <1>1, <1>2, <2>1, HeadersFit
  <2>. QED
    BY <1>3, <2>1, <2>2, PayloadAssumption
<1>6. (q * h + s) % OffsetRange = q * h + s
  BY <1>5, PayloadAssumption
<1>7. ExceptionAt(e) = [offset |-> q * h + s, block |-> q, slot |-> s]
  BY <1>2, <1>6 DEF ExceptionAt, ExceptionOf
<1>. QED
  BY <1>2, <1>4, <1>7 DEF Hits

\* With every difference listed, applying the list leaves no wrong byte.
LEMMA AppliedRight ==
  ASSUME Blocks = DOMAIN NoDifference, Listed,
         NEW b \in Blocks, NEW y \in 0 .. HeaderSize - 1
  PROVE  \/ Applied(b, y) = <<b, y>>
         \/ Applied(b, y) = Computed /\ y \notin differs[b]
<1> DEFINE hits == {n \in DOMAIN exceptions : Hits(exceptions[n], b, y)}
           top == CHOOSE n \in hits : \A m \in hits : m <= n
<1>1. CASE hits = {}
  <2>1. Applied(b, y) = Computed
    BY <1>1 DEF Applied
  <2>2. SUFFICES ASSUME y \in differs[b]
                 PROVE  FALSE
    BY <2>1
  <2>3. PICK s \in Slots : y \in SlotBytes(s)
    BY SlotsCover
  <2>4. <<b, s>> \in Collected
    BY <2>2, <2>3 DEF Collected, Differing
  <2>5. PICK n \in DOMAIN exceptions : exceptions[n] = ExceptionAt(<<b, s>>)
    BY <2>4 DEF Listed
  <2>6. Hits(exceptions[n], b, y)
    BY <2>3, <2>4, <2>5, HitsItsSlot
  <2>. QED
    BY <1>1, <2>6
<1>2. CASE hits # {}
  <2>1. PICK L \in Nat : DOMAIN exceptions = 1 .. L
    BY DEF Listed
  <2>2. hits \in SUBSET (0 .. L)
    BY <2>1
  <2>3. \E n \in hits : \A m \in hits : m <= n
    BY <1>2, <2>2, Greatest
  <2>4. top \in hits
    BY <2>3
  <2>5. PICK e \in Collected : exceptions[top] = ExceptionAt(e)
    BY <2>4 DEF Listed
  <2>6. Hits(ExceptionAt(e), b, y)
    BY <2>4, <2>5
  <2>7. /\ e[1] = b /\ e[2] \in Nat /\ ExceptionAt(e).offset % HeaderSize = e[2]
        /\ ExceptionAt(e).block = b /\ ExceptionAt(e).slot = e[2]
    BY <2>6, HitsItsSlot, SlotRange DEF Collected
  <2>8. Applied(b, y) = <<ExceptionAt(e).block,
                          ExceptionAt(e).slot + y - (ExceptionAt(e).offset % HeaderSize)>>
    BY <1>2, <2>5 DEF Applied
  <2>9. e[2] + y - e[2] = y
    BY <2>7, PayloadAssumption
  <2>. QED
    BY <2>7, <2>8, <2>9
<1>. QED
  BY <1>1, <1>2

LEMMA HeaderInit == PayloadInit => HeaderInvariant
<1>. SUFFICES ASSUME PayloadInit PROVE HeaderInvariant
  OBVIOUS
<1>1. stage = "collect" /\ Blocks = DOMAIN NoDifference
  BY PayloadAssumption DEF PayloadInit, Blocks
<1>. QED
  BY <1>1 DEF HeaderInvariant, HeadersRestored

LEMMA HeaderStep ==
  ASSUME PInv, HeaderInvariant, [PayloadNext]_pvars
  PROVE  HeaderInvariant'
<1>1. IsFiniteSet(Blocks) /\ Blocks \subseteq Nat /\ Blocks = DOMAIN NoDifference
  BY HeadersFit DEF PInv, StageInvariant, HeaderInvariant
<1>2. ASSUME UNCHANGED <<differs, exceptions>>
      PROVE  Listed' = Listed
  <2>1. \A e : ExceptionAt(e)' = ExceptionAt(e)
    BY DEF ExceptionAt, ExceptionOf
  <2>2. Collected' = Collected
    BY <1>2 DEF Collected, Blocks, Differing
  <2>. QED
    BY <1>2, <2>1, <2>2 DEF Listed
<1>3. CASE CollectExceptions
  <2>1. Listed'
    BY <1>1, <1>3, CollectLists
  <2>2. stage' = "pack" /\ Blocks' = Blocks
    BY <1>3 DEF CollectExceptions, Blocks
  <2>. QED
    BY <1>1, <2>1, <2>2 DEF HeaderInvariant, HeadersRestored
<1>4. ASSUME stage # "collect", UNCHANGED <<differs, exceptions>>,
             stage' = "end" => verdict' # "ok"
      PROVE  HeaderInvariant'
  BY <1>1, <1>2, <1>4 DEF HeaderInvariant, HeadersRestored, Blocks
<1>5. CASE Pack
  BY <1>4, <1>5 DEF Pack
<1>6. CASE Store
  BY <1>4, <1>6 DEF Store
<1>7. CASE Load
  BY <1>4, <1>7 DEF Load
<1>8. CASE Unpack
  <2>1. stage = "unpack" /\ UNCHANGED <<differs, exceptions>>
    BY <1>8 DEF Unpack
  <2>2. stage' = IF pc' # "done" THEN stage ELSE IF verdict' = "ok" THEN "apply" ELSE "end"
    BY <1>8 DEF Unpack
  <2>. QED
    BY <1>4, <2>1, <2>2
<1>9. CASE ApplyExceptions
  <2>1. stage = "apply" /\ UNCHANGED <<differs, exceptions>> /\ UNCHANGED <<size, expected>>
    BY <1>9 DEF ApplyExceptions, input, given
  <2>2. CASE verdict' = "BadRecord"
    BY <1>4, <2>1, <2>2
  <2>3. CASE headers' = [b \in Blocks |-> [y \in 0 .. HeaderSize - 1 |-> Applied(b, y)]]
    <3>1. Listed
      BY <2>1 DEF HeaderInvariant
    <3>2. \A b \in Blocks : \A y \in 0 .. HeaderSize - 1 :
            \/ headers'[b][y] = <<b, y>>
            \/ headers'[b][y] = Computed /\ y \notin differs[b]
      BY <1>1, <2>3, <3>1, AppliedRight
    <3>3. Blocks' = Blocks /\ differs' = differs /\ Computed' = Computed
      BY <2>1 DEF Blocks, Computed
    <3>4. HeadersRestored'
      BY <3>2, <3>3 DEF HeadersRestored
    <3>. QED
      BY <1>1, <1>2, <2>1, <3>1, <3>3, <3>4 DEF HeaderInvariant
  <2>. QED
    BY <1>9, <2>2, <2>3 DEF ApplyExceptions
<1>10. CASE UNCHANGED pvars
  <2>1. UNCHANGED <<stage, differs, exceptions, headers, verdict, expected>>
    BY <1>10 DEF pvars, vars, payload, given, unpacked
  <2>2. Blocks' = Blocks /\ (HeadersRestored' <=> HeadersRestored)
    BY <2>1 DEF HeadersRestored, Blocks, Computed
  <2>. QED
    BY <1>1, <1>2, <2>1, <2>2 DEF HeaderInvariant
<1>. QED
  BY <1>3, <1>5, <1>6, <1>7, <1>8, <1>9, <1>10 DEF PayloadNext

\* The hash headers of a chunk come back byte by byte: what is not as
\* recomputed is in the list, and the list spoils nothing, provided that the
\* compared areas leave no byte out and the offsets fit (encoder.rs:340,
\* decoder.rs:323).
THEOREM PayloadHeaders == PayloadSpec => []HeadersRestored
<1>1. PayloadInit => HeaderInvariant
  BY HeaderInit
<1>2. PInv /\ PInv' /\ HeaderInvariant /\ [PayloadNext]_pvars => HeaderInvariant'
  BY HeaderStep
<1>3. HeaderInvariant => HeadersRestored
  BY DEF HeaderInvariant
<1>. QED
  BY <1>1, <1>2, <1>3, PayloadInvariant, PTL DEF PayloadSpec

-----------------------------------------------------------------------------
(* What the reader accepts.                                                *)

LengthsOf(ps) == [i \in DOMAIN ps |-> RecordLength(ps[i])]

\* The packed size is that of the records, though it is counted apart.
Counted == packed = Length(parts)

\* The payload ends with the records.
LaidOutPacked ==
  stage \in {"load", "unpack", "apply"} /\ packed # 0 =>
    stored.length = stored.list + stored.pad + packed

\* Exceptions belong to whole blocks of the chunk.
WithinChunk == \A b \in Blocks : differs[b] # {} => b \in Nat /\ (b + 1) * BlockData <= size

AInv == Counted /\ LaidOutPacked /\ WithinChunk /\ AcceptsItsSize

LEMMA LengthIsSum ==
  ASSUME NEW ps
  PROVE  Length(ps) = Sum(LengthsOf(ps))
BY DEF Length, LengthsOf, Sum

LEMMA RecordLengthType ==
  ASSUME NEW r \in Records
  PROVE  RecordLength(r) \in Nat
<1>1. SeedBytes \in Nat
  BY LfgAssumption DEF SeedBytes
<1>2. r.size \in Nat /\ r.junk \in BOOLEAN
  BY DEF Records
<1>. QED
  BY <1>1, <1>2 DEF RecordLength

LEMMA LengthOfNothing == Length(<<>>) = 0
<1>1. DOMAIN LengthsOf(<<>>) = {}
  BY DEF LengthsOf
<1>. QED
  BY <1>1, LengthIsSum, SumOfNothing

LEMMA LengthGrows ==
  ASSUME NEW ps \in Seq(Records), NEW r \in Records
  PROVE  Length(Append(ps, r)) = Length(ps) + RecordLength(r) /\ Length(ps) \in Int
<1> DEFINE qs == Append(ps, r)
<1>1. Len(ps) \in Nat /\ DOMAIN ps = 1 .. Len(ps) /\ DOMAIN qs = 1 .. Len(ps) + 1
  OBVIOUS
<1>2. qs[Len(ps) + 1] = r /\ \A n \in 1 .. Len(ps) : qs[n] = ps[n]
  OBVIOUS
<1>3. qs \in Seq(Records) /\ \A n \in 1 .. Len(ps) + 1 : qs[n] \in Records
  BY <1>1, <1>2
<1> HIDE DEF qs
<1> DEFINE f == LengthsOf(ps)
           g == LengthsOf(qs)
<1>4. DOMAIN f = 1 .. Len(ps) /\ \A n \in 1 .. Len(ps) : f[n] = RecordLength(ps[n])
  BY <1>1 DEF LengthsOf
<1>5. DOMAIN g = 1 .. Len(ps) + 1 /\ \A n \in 1 .. Len(ps) + 1 : g[n] = RecordLength(qs[n])
  BY <1>1 DEF LengthsOf, qs
<1> HIDE DEF f, g
<1>6. \A n \in 1 .. Len(ps) + 1 : g[n] \in Int
  BY <1>3, <1>5, RecordLengthType
<1>7. \A n \in 1 .. Len(ps) : f[n] = g[n]
  BY <1>1, <1>2, <1>4, <1>5
<1>8. Sum(g) = Sum(f) + g[Len(ps) + 1]
  BY <1>1, <1>4, <1>5, <1>6, <1>7, SumGrows
<1>9. \A n \in 1 .. Len(ps) : f[n] \in Int
  BY <1>1, <1>6, <1>7
<1>10. Sum(f) \in Int
  BY <1>1, <1>4, <1>9, SumType
<1>. QED
  BY <1>1, <1>2, <1>4, <1>5, <1>8, <1>10, LengthIsSum DEF f, g, qs

\* Every record adds its length to the packed size.
LEMMA CountedStep ==
  ASSUME IInv, Counted, EmitPadding \/ EmitRest
  PROVE  Counted'
<1>1. Typed /\ Chain /\ RunsRight /\ RunsApart
  BY DEF IInv
<1>2. parts \in Seq(Records) /\ junk \in Seq(Runs) /\ SeedBytes \in Nat
      /\ current \in Nat /\ size \in Nat /\ packed \in Nat /\ position \in Nat /\ position <= size
      /\ packed = Length(parts)
  <2>1. size \in Nat /\ SeedBytes \in Nat
    BY <1>1, SizeTypes, LfgAssumption DEF SeedBytes
  <2>. QED
    BY <1>1, <2>1 DEF Typed, Counted
<1>3. CASE EmitPadding
  <2>1. PICK i \in DOMAIN junk :
          /\ Chosen(i)
          /\ LET r == junk[i]
                 from == PaddingStart(r)
             IN  \/ /\ from = current
                    /\ parts' = Append(parts, Padding(from, r.to, r.seed))
                    /\ packed' = packed + 4 + SeedBytes
                 \/ /\ from > current
                    /\ parts' = Append(Append(parts, Literal(current, from)),
                                       Padding(from, r.to, r.seed))
                    /\ packed' = packed + 4 + (from - current) + 4 + SeedBytes
    BY <1>3 DEF EmitPadding
  <2>2. i \in 1 .. Len(junk) /\ junk[i] \in Runs
    BY <1>2, <2>1
  <2>3. PICK f, t \in Nat : f = junk[i].from /\ t = junk[i].to /\ f < t /\ t <= size
    <3>1. junk[i].from \in Nat /\ junk[i].to \in Nat
      BY <2>2 DEF Runs
    <3>2. junk[i].from < junk[i].to /\ junk[i].to <= position
      BY <1>1, <2>2 DEF RunsRight, RunRight
    <3>. QED
      BY <1>2, <3>1, <3>2
  <2>4. f >= current /\ PaddingStart(junk[i]) = f
    <3>1. t > current + SeedBytes
      BY <2>1, <2>3 DEF Chosen, Reaches
    <3>2. t <= current \/ f >= current
      BY <1>1, <2>2, <2>3 DEF RunsApart
    <3>3. f >= current
      BY <3>1, <3>2, <1>2, <2>3
    <3>. QED
      BY <3>3, <1>2, <2>3 DEF PaddingStart
  <2>5. PICK pad \in Records : /\ pad = Padding(f, t, junk[i].seed)
                               /\ RecordLength(pad) = 4 + SeedBytes
    <3>1. Padding(f, t, junk[i].seed) \in Records
      BY PaddingRight, <1>1, <2>2, <2>3
    <3>2. RecordLength(Padding(f, t, junk[i].seed)) = 4 + SeedBytes
      BY DEF RecordLength, Padding
    <3>. QED
      BY <3>1, <3>2
  <2>6. CASE parts' = Append(parts, pad) /\ packed' = packed + 4 + SeedBytes
    <3>1. Length(parts') = Length(parts) + (4 + SeedBytes)
      BY <1>2, <2>5, <2>6, LengthGrows
    <3>. QED
      BY <1>2, <2>6, <3>1 DEF Counted
  <2>7. CASE /\ f > current
             /\ parts' = Append(Append(parts, Literal(current, f)), pad)
             /\ packed' = packed + 4 + (f - current) + 4 + SeedBytes
    <3>1. PICK lit \in Records : /\ lit = Literal(current, f)
                                 /\ RecordLength(lit) = 4 + (f - current)
      <4>0. f > current
        BY <2>7
      <4>1. PICK c \in Nat : c = current /\ c < f /\ f <= size
        <5>1. current \in Nat /\ f <= size
          BY <1>2, <2>3
        <5>. QED
          BY <4>0, <5>1
      <4>2. Literal(c, f) \in Records
        BY LiteralRight, <1>1, <4>1
      <4>3. RecordLength(Literal(c, f)) = 4 + (f - c)
        BY DEF RecordLength, Literal
      <4>. QED
        BY <4>1, <4>2, <4>3
    <3>2. PICK ps \in Seq(Records) : ps = Append(parts, lit)
      <4>1. parts \in Seq(Records)
        BY <1>2
      <4>2. Append(parts, lit) \in Seq(Records)
        BY <4>1
      <4>. QED
        BY <4>2
    <3>3. Length(ps) = Length(parts) + (4 + (f - current)) /\ Length(parts) \in Int
      BY <1>2, <3>1, <3>2, LengthGrows
    <3>4. Length(parts') = Length(ps) + (4 + SeedBytes)
      BY <2>5, <2>7, <3>1, <3>2, LengthGrows
    <3>5. packed' = packed + 4 + (f - current) + 4 + SeedBytes
      BY <2>7
    <3>6. PICK d, b, n, m \in Int : d = f - current /\ b = SeedBytes /\ n = packed /\ m = Length(ps)
      BY <1>2, <3>3
    <3>7. packed' = n + 4 + d + 4 + b
      BY <3>5, <3>6
    <3>8. Length(parts') = m + (4 + b)
      BY <3>4, <3>6
    <3>9. m = n + (4 + d)
      <4>1. Length(parts) = n
        BY <1>2, <3>6
      <4>. QED
        BY <4>1, <3>3, <3>6
    <3>10. packed' = Length(parts')
      BY <3>7, <3>8, <3>9
    <3>. QED
      BY <3>10 DEF Counted
  <2>. QED
    BY <2>1, <2>3, <2>4, <2>5, <2>6, <2>7
<1>4. CASE EmitRest
  <2>1. current < size
    BY <1>4 DEF EmitRest
  <2>2. CASE UNCHANGED <<parts, starts, packed>>
    BY <2>2, <1>2 DEF Counted
  <2>3. CASE /\ parts' = Append(parts, Literal(current, size))
             /\ packed' = packed + 4 + (size - current)
    <3>1. Literal(current, size) \in Records
      BY LiteralRight, <1>1, <1>2, <2>1
    <3>2. RecordLength(Literal(current, size)) = 4 + (size - current)
      BY DEF RecordLength, Literal
    <3>3. Length(parts') = Length(parts) + (4 + (size - current))
      BY <1>2, <2>3, <3>1, <3>2, LengthGrows
    <3>. QED
      BY <1>2, <2>3, <3>3 DEF Counted
  <2>. QED
    BY <1>4, <2>2, <2>3 DEF EmitRest
<1>. QED
  BY <1>3, <1>4

\* With all its records, and only with them, the reader gets to the size of
\* the chunk; a record that is in its way is not one of the chunk.
LEMMA ReaderAtTheEnd ==
  ASSUME IInv, pc = "unpack", claimed # 0
  PROVE  /\ read = Len(parts) => written = size
         /\ expected = size => (written >= expected => read = Len(parts))
         /\ expected = size => (read < Len(parts) => Fits(parts[read + 1]))
<1>1. Typed /\ Chain /\ Course
  BY DEF IInv
<1>2. /\ Len(parts) \in Nat /\ read \in Nat /\ read <= Len(parts) /\ current = size
      /\ size \in Nat /\ written \in Nat /\ packed # 0 /\ parts \in Seq(Records)
      /\ Len(parts) > 0 => written = IF read = Len(parts) THEN current ELSE starts[read + 1]
  BY <1>1, SizeTypes DEF Typed, Course
<1>3. Len(parts) > 0
  BY <1>1, <1>2 DEF Chain
<1>4. ASSUME read < Len(parts)
      PROVE  /\ parts[read + 1].size \in Nat /\ parts[read + 1].size > 0
             /\ written + parts[read + 1].size <= size
  <2>1. PICK n \in 1 .. Len(parts) : n = read + 1
    BY <1>2, <1>4
  <2>2. parts[n] \in Records /\ RecordRight(parts[n], starts[n]) /\ written = starts[n]
    BY <1>1, <1>2, <1>3, <1>4, <2>1 DEF Chain, Covers
  <2>3. parts[n].size \in Nat
    BY <2>2 DEF Records
  <2>. QED
    BY <2>1, <2>2, <2>3 DEF RecordRight
<1>. QED
  BY <1>2, <1>3, <1>4 DEF Fits

\* Exceptions of the chunk's blocks are in place.
LEMMA NoneMisplaced ==
  ASSUME HeaderInvariant, stage = "apply", WithinChunk, expected = size, size \in Nat
  PROVE  Misplaced = {}
<1>1. Listed /\ Blocks = DOMAIN NoDifference
  BY DEF HeaderInvariant
<1>. SUFFICES ASSUME NEW n \in DOMAIN exceptions
              PROVE  n \notin Misplaced
  BY DEF Misplaced
<1>2. PICK e \in Collected : exceptions[n] = ExceptionAt(e)
  BY <1>1 DEF Listed
<1>3. PICK b, s, h, c \in Nat : b = e[1] /\ s = e[2] /\ h = HeaderSize /\ s + HashSize <= h
                                /\ c = HashSize /\ c > 0
  <2>1. e[1] \in Blocks /\ e[2] \in Slots
    BY DEF Collected
  <2>. QED
    BY <1>1, <2>1, SlotRange, PayloadAssumption, HeadersFit
<1>4. ExceptionAt(e).offset % HeaderSize = s
  BY <1>1, <1>3, HitsItsSlot DEF Collected
<1>5. Hits(ExceptionAt(e), b, s)
  <2>1. e[1] \in Blocks /\ s \in SlotBytes(s)
    BY <1>3 DEF Collected, SlotBytes
  <2>. QED
    BY <1>1, <1>3, <2>1, HitsItsSlot
<1>6. exceptions[n].offset \div HeaderSize = b
  BY <1>2, <1>5 DEF Hits
<1>7. (b + 1) * BlockData <= size
  <2>1. e[2] \in Differing(e[1]) /\ e[1] \in Blocks
    BY DEF Collected
  <2>2. differs[b] # {}
    BY <1>3, <2>1 DEF Differing
  <2>. QED
    BY <1>3, <2>1, <2>2 DEF WithinChunk
<1>8. b < size \div BlockData
  <2>1. PICK d \in Nat \ {0} : d = BlockData
    BY PayloadAssumption
  <2>2. PICK q, r \in Nat : q = size \div d /\ size = d * q + r /\ r < d
    BY DivModParts
  <2>3. ~(q <= b)
    <3>. SUFFICES ASSUME q <= b PROVE FALSE
      OBVIOUS
    <3>1. d * q <= d * b
      BY TimesMonotone
    <3>2. (b + 1) * d = d * b + d /\ d * b \in Nat /\ d * q \in Nat
      OBVIOUS
    <3>. QED
      BY <1>7, <2>1, <2>2, <3>1, <3>2
  <2>. QED
    BY <2>1, <2>2, <2>3
<1>9. b < expected \div BlockData
  BY <1>8
<1>10. ~(b >= expected \div BlockData)
  <2>1. size \div BlockData \in Int
    BY PayloadAssumption
  <2>. QED
    BY <1>3, <1>8, <2>1
<1>. QED
  BY <1>2, <1>3, <1>4, <1>6, <1>10 DEF Misplaced

\* The reader's answer to a packed chunk, once its size is counted right.
LEMMA UnpackAnswers ==
  ASSUME PInv, AInv, stage = "unpack", Unpack
  PROVE  AcceptsItsSize'
<1>1. IInv /\ pc = "unpack" /\ Counted
  BY DEF PInv, StageInvariant, AInv
<1>2. /\ expected' = expected /\ size' = size /\ packed' = packed /\ claimed' = claimed
      /\ pc' \in {"unpack", "done"}
  BY <1>1 DEF Unpack, TakePlain, TakeSlice, UnpackRefuses, UnpackRecord, UnpackEnds,
             input, emitted, given
<1>3. packed # 0 <=> claimed # 0
  BY <1>1 DEF IInv, Course
<1>4. CASE claimed = 0
  BY <1>2, <1>3, <1>4 DEF AcceptsItsSize
<1>5. CASE claimed # 0
  <2>1. /\ read = Len(parts) => written = size
        /\ expected = size => (written >= expected => read = Len(parts))
        /\ expected = size => (read < Len(parts) => Fits(parts[read + 1]))
    BY <1>1, <1>5, ReaderAtTheEnd
  <2>2. CASE UnpackRefuses
    <3>1. Length(parts) # claimed /\ verdict' = "PackingSizeMismatch"
      BY <2>2 DEF UnpackRefuses
    <3>2. claimed # packed
      BY <3>1, <1>1 DEF Counted
    <3>. QED
      BY <1>2, <3>1, <3>2 DEF AcceptsItsSize
  <2>3. CASE UnpackRecord
    <3>1. read < Len(parts)
      BY <2>3 DEF UnpackRecord
    <3>2. CASE Fits(parts[read + 1])
      <4>1. pc' = pc
        BY <2>3, <3>2 DEF UnpackRecord
      <4>. QED
        BY <4>1, <1>1 DEF AcceptsItsSize
    <3>3. CASE ~Fits(parts[read + 1])
      <4>1. verdict' # "ok"
        BY <2>3, <3>3 DEF UnpackRecord
      <4>2. expected # size
        BY <2>1, <3>1, <3>3
      <4>. QED
        BY <1>2, <4>1, <4>2 DEF AcceptsItsSize
    <3>. QED
      BY <3>2, <3>3
  <2>4. CASE UnpackEnds
    <3>1. claimed = packed
      BY <2>4, <1>1 DEF UnpackEnds, Unpacking, Counted
    <3>2. /\ read = Len(parts) \/ written >= expected
          /\ verdict' = IF read # Len(parts) THEN "UnconsumedInput"
                        ELSE IF written # expected THEN "SizeMismatch" ELSE "ok"
      BY <2>4 DEF UnpackEnds
    <3>3. verdict' = "ok" <=> expected = size
      BY <2>1, <3>2
    <3>. QED
      BY <1>2, <3>1, <3>3 DEF AcceptsItsSize
  <2>. QED
    BY <1>5, <2>2, <2>3, <2>4 DEF Unpack, TakePlain, TakeSlice
<1>. QED
  BY <1>4, <1>5

LEMMA AcceptInit == PayloadInit => AInv
<1>. SUFFICES ASSUME PayloadInit PROVE AInv
  OBVIOUS
<1>1. Counted
  BY LengthOfNothing DEF PayloadInit, Init, Counted
<1>2. LaidOutPacked /\ AcceptsItsSize
  BY DEF PayloadInit, Init, LaidOutPacked, AcceptsItsSize
<1>3. WithinChunk
  <2>1. CASE differs = NoDifference
    BY <2>1, BlocksOfChunk DEF WithinChunk, Blocks
  <2>2. CASE differs \in Differences /\ \E c \in Sampled : data = c.bytes
    <3>1. PICK c \in Sampled : data = c.bytes
      BY <2>2
    <3>2. PICK d \in Chunks : size = d.size /\ data = d.bytes
      BY DEF PayloadInit, Init
    <3>3. PICK m, n \in Nat \ {0} : /\ m = c.size /\ n = size
                                    /\ DOMAIN data = 0 .. m - 1 /\ DOMAIN data = 0 .. n - 1
      BY <3>1, <3>2, BlocksOfChunk, PackingAssumption
    <3>4. m = n
      <4>1. m - 1 \in 0 .. n - 1 /\ n - 1 \in 0 .. m - 1
        BY <3>3
      <4>. QED
        BY <4>1
    <3>5. Blocks = DOMAIN NoDifference
      BY <2>2, PayloadAssumption DEF Blocks
    <3>6. \A b \in Blocks : b \in Nat /\ (b + 1) * BlockData <= c.size
      BY <3>5, HeadersFit, BlocksOfChunk
    <3>. QED
      BY <3>3, <3>4, <3>6 DEF WithinChunk
  <2>. QED
    BY <2>1, <2>2 DEF PayloadInit
<1>. QED
  BY <1>1, <1>2, <1>3 DEF AInv

LEMMA AcceptStep ==
  ASSUME PInv, HeaderInvariant, AInv, [PayloadNext]_pvars
  PROVE  AInv'
<1>1. IInv /\ StageInvariant /\ Counted /\ LaidOutPacked /\ WithinChunk /\ AcceptsItsSize
      /\ size \in Nat
  BY SizeTypes DEF PInv, AInv, IInv
<1>2. ASSUME UNCHANGED <<parts, packed>>
      PROVE  Counted'
  BY <1>1, <1>2 DEF Counted
<1>3. ASSUME UNCHANGED <<differs, size>>
      PROVE  WithinChunk'
  BY <1>1, <1>3 DEF WithinChunk, Blocks
<1>4. ASSUME UNCHANGED <<packed, stored>>, stage \in {"load", "unpack", "apply"} \/ stage' = stage
      PROVE  LaidOutPacked'
  BY <1>1, <1>4 DEF LaidOutPacked
<1>5. CASE CollectExceptions
  <2>1. UNCHANGED <<parts, packed, differs, size, stored, pc, verdict, expected, claimed>>
        /\ stage' = "pack"
    BY <1>5 DEF CollectExceptions, vars, payload, input, emitted, given, unpacked
  <2>2. LaidOutPacked' /\ AcceptsItsSize'
    BY <1>1, <2>1 DEF LaidOutPacked, AcceptsItsSize
  <2>. QED
    BY <1>2, <1>3, <2>1, <2>2 DEF AInv
<1>6. CASE Pack
  <2>1. stage' = "pack" /\ pc' # "done" /\ UNCHANGED <<differs, size, stored>>
    BY <1>6 DEF Pack, payload, input, ScanWindow, ScanEnds, EmitPadding, EmitRest, EmitEnds
  <2>2. Counted'
    <3>1. CASE EmitPadding \/ EmitRest
      BY <3>1, <1>1, CountedStep
    <3>2. CASE ScanWindow \/ ScanEnds \/ EmitEnds
      BY <1>2, <3>2 DEF ScanWindow, ScanEnds, EmitEnds, emitted
    <3>. QED
      BY <1>6, <3>1, <3>2 DEF Pack
  <2>3. LaidOutPacked' /\ AcceptsItsSize'
    BY <2>1 DEF LaidOutPacked, AcceptsItsSize
  <2>. QED
    BY <1>3, <2>1, <2>2, <2>3 DEF AInv
<1>7. CASE Store
  <2>1. /\ UNCHANGED <<parts, packed, differs, size>> /\ pc' = "unpack" /\ stage' = "load"
    BY <1>7 DEF Store, vars, input, emitted
  <2>2. packed # 0 => stored'.length = stored'.list + stored'.pad + packed
    <3>. SUFFICES ASSUME packed # 0
                  PROVE  stored'.length = stored'.list + stored'.pad + packed
      OBVIOUS
    <3>1. PICK m : m = packed /\ m = Length(parts)
      BY <1>1 DEF Counted
    <3>2. ListLength \in Nat /\ packed \in Nat
      BY ListLengthType, <1>1 DEF PInv, IInv, Typed
    <3>3. PICK n \in Nat : n = IF Raw THEN 0 ELSE ListSize(Len(exceptions))
      BY <3>2 DEF ListLength
    <3>4. \/ \E c \in CompressedSizes :
               stored' = [list |-> n, pad |-> 0, main |-> m,
                          length |-> n + m, compressed |-> TRUE]
          \/ stored' = [list |-> n, pad |-> Pad(n), main |-> m,
                        length |-> n + Pad(n) + m, compressed |-> FALSE]
      BY <1>7, <3>1, <3>3 DEF Store
    <3>. QED
      BY <3>1, <3>2, <3>4
  <2>3. LaidOutPacked' /\ AcceptsItsSize'
    BY <2>1, <2>2 DEF LaidOutPacked, AcceptsItsSize
  <2>. QED
    BY <1>2, <1>3, <2>1, <2>3 DEF AInv
<1>8. CASE Load
  <2>1. /\ stage = "load" /\ pc = "unpack"
        /\ UNCHANGED <<parts, packed, differs, size, stored, expected, claimed>>
    BY <1>1, <1>8 DEF Load, StageInvariant, input, emitted, given
  <2>2. AcceptsItsSize'
    <3>1. CASE pc' = pc
      BY <2>1, <3>1 DEF AcceptsItsSize
    <3>2. CASE ~Raw /\ mainAt' + claimed > stored.length /\ verdict' = "BadRecord"
      <4>1. PInv'
        BY <1>8, LoadStep
      <4>2. mainAt' = stored.list + stored.pad
        BY <1>8, MainFound
      <4>3. packed # 0 => claimed # packed
        <5>. SUFFICES ASSUME packed # 0, claimed = packed PROVE FALSE
          OBVIOUS
        <5>1. stored.length = stored.list + stored.pad + packed
          BY <1>1, <2>1 DEF LaidOutPacked
        <5>2. PICK l, p, m \in Nat : l = stored.list /\ p = stored.pad /\ m = packed
          BY <1>1, <2>1, ListLengthType DEF StageInvariant, LaidOut, Pad, IInv, Typed
        <5>. QED
          BY <3>2, <4>2, <5>1, <5>2
      <4>. QED
        BY <2>1, <3>2, <4>3 DEF AcceptsItsSize
    <3>. QED
      BY <1>8, <3>1, <3>2 DEF Load
  <2>. QED
    BY <1>2, <1>3, <1>4, <2>1, <2>2 DEF AInv
<1>9. CASE Unpack
  <2>1. /\ stage = "unpack" /\ UNCHANGED <<differs, stored>>
        /\ UNCHANGED <<parts, packed, size>>
    BY <1>9 DEF Unpack, payload, TakePlain, TakeSlice, UnpackRefuses, UnpackRecord, UnpackEnds,
               input, emitted
  <2>2. AcceptsItsSize'
    BY <1>9, <2>1, UnpackAnswers
  <2>. QED
    BY <1>2, <1>3, <1>4, <2>1, <2>2 DEF AInv
<1>10. CASE ApplyExceptions
  <2>1. /\ stage = "apply"
        /\ UNCHANGED <<parts, packed, differs, size, stored, expected, claimed, pc>>
    BY <1>10 DEF ApplyExceptions, input, emitted, given
  <2>2. AcceptsItsSize'
    <3>1. CASE verdict' = verdict
      BY <1>1, <2>1, <3>1 DEF AcceptsItsSize
    <3>2. CASE Misplaced # {} /\ verdict' = "BadRecord"
      <4>1. expected # size
        BY <1>1, <2>1, <3>2, NoneMisplaced
      <4>. QED
        BY <2>1, <3>2, <4>1 DEF AcceptsItsSize
    <3>. QED
      BY <1>10, <3>1, <3>2 DEF ApplyExceptions
  <2>. QED
    BY <1>2, <1>3, <1>4, <2>1, <2>2 DEF AInv
<1>11. CASE UNCHANGED pvars
  <2>1. UNCHANGED <<parts, packed, differs, size, stored, stage, pc, verdict, expected, claimed>>
    BY <1>11 DEF pvars, vars, payload, input, emitted, given, unpacked
  <2>2. AcceptsItsSize'
    BY <1>1, <2>1 DEF AcceptsItsSize
  <2>. QED
    BY <1>2, <1>3, <1>4, <2>1, <2>2 DEF AInv
<1>. QED
  BY <1>5, <1>6, <1>7, <1>8, <1>9, <1>10, <1>11 DEF PayloadNext

\* A packed chunk is accepted exactly when the tables agree with its size and
\* with its packed size, which the encoder counts apart from the records: no
\* record is lost, cut or left over, however runs and literal bytes are mixed
\* (pack.rs:80, unpack.rs:14).
THEOREM PayloadAccepts == PayloadSpec => []AcceptsItsSize
<1>1. PayloadInit => HeaderInvariant /\ AInv
  BY HeaderInit, AcceptInit
<1>2. PInv /\ HeaderInvariant /\ AInv /\ [PayloadNext]_pvars => (HeaderInvariant /\ AInv)'
  BY HeaderStep, AcceptStep
<1>3. AInv => AcceptsItsSize
  BY DEF AInv
<1>. QED
  BY <1>1, <1>2, <1>3, PayloadInvariant, PTL DEF PayloadSpec

-----------------------------------------------------------------------------
(* The search for the seed of padding.                                     *)

LEMMA LfgSizes ==
  /\ Cells \in Nat \ {0} /\ Lag \in Nat \ {0} /\ 2 * Lag <= Cells
  /\ SeedBytes \in Nat \ {0} /\ SeedBytes < Cells /\ Word < SeedBytes
  /\ Word \in Nat \ {0} /\ Block \in Nat \ {0}
<1>1. PICK k, j, s, w \in Nat : /\ k = LfgK /\ j = LfgJ /\ s = SeedWords /\ w = Word
                                /\ j > 0 /\ w > 0 /\ s > 1 /\ 2 * j <= k /\ s < k
  BY LfgAssumption
<1>2. Cells = k * w /\ Lag = j * w /\ SeedBytes = s * w
  BY <1>1 DEF Cells, Lag, SeedBytes
<1>3. /\ k * w \in Nat /\ j * w \in Nat /\ s * w \in Nat
      /\ j * w > 0 /\ 2 * (j * w) <= k * w
  BY <1>1
<1>4. s * w < k * w
  <2>1. s * w + w <= k * w
    BY <1>1, TimesMonotone
  <2>. QED
    BY <1>1, <1>3, <2>1
<1>5. w < s * w
  BY <1>1
<1>. QED
  BY <1>1, <1>2, <1>3, <1>4, <1>5, LfgAssumption

\* T[x] are the sets of bits below N with which bit x is set: those before x
\* decide.
Causal(N, T) ==
  \A x \in 0 .. N - 1 : \A R, S \in SUBSET (0 .. N - 1) :
    R \cap (0 .. x - 1) = S \cap (0 .. x - 1) => (R \in T[x]) = (S \in T[x])
Settled(N, T, B) ==
  B \in SUBSET (0 .. N - 1) /\ \A x \in 0 .. N - 1 : (x \in B) = (B \in T[x])

\* Bits that each depend on those before them only are defined.
LEMMA BitsDefined ==
  ASSUME NEW N \in Nat, NEW T, Causal(N, T)
  PROVE  \E B : Settled(N, T, B)
<1> DEFINE Right(B, n) == \A x \in 0 .. n - 1 : (x \in B) = (B \in T[x])
           C == {n \in 0 .. N : ~ \E B \in SUBSET (0 .. N - 1) : Right(B, n)}
<1>1. C = {}
  <2>. SUFFICES ASSUME C # {}
                PROVE  FALSE
    OBVIOUS
  <2>1. PICK m \in C : \A n \in C : m <= n
    <3>. HIDE DEF C
    <3>1. C \subseteq Nat
      BY DEF C
    <3>. QED
      BY <3>1, LeastNumber
  <2>2. m \in 1 .. N
    <3>1. m \in 0 .. N /\ (m = 0 => Right({}, m))
      OBVIOUS
    <3>. HIDE DEF Right
    <3>. QED
      BY <3>1
  <2>3. m - 1 \in 0 .. N - 1 /\ m - 1 \in 0 .. N /\ m - 1 \notin C
    <3>. HIDE DEF C
    <3>. QED
      BY <2>1, <2>2
  <2>4. PICK B \in SUBSET (0 .. N - 1) : Right(B, m - 1)
    BY <2>3
  <2>. DEFINE k == m - 1
              D == (B \ {k}) \cup (IF B \in T[k] THEN {k} ELSE {})
  <2>5. D \in SUBSET (0 .. N - 1)
    BY <2>3
  <2>6. \A x \in 0 .. k : D \cap (0 .. x - 1) = B \cap (0 .. x - 1)
    BY <2>3
  <2>7. \A x \in 0 .. k : (D \in T[x]) = (B \in T[x])
    <3>. SUFFICES ASSUME NEW x \in 0 .. k PROVE (D \in T[x]) = (B \in T[x])
      OBVIOUS
    <3>1. x \in 0 .. N - 1
      BY <2>3
    <3>2. D \cap (0 .. x - 1) = B \cap (0 .. x - 1)
      BY <2>6
    <3>. HIDE DEF D
    <3>. QED
      BY <3>1, <3>2, <2>5 DEF Causal
  <2>8. Right(D, m)
    <3>. SUFFICES ASSUME NEW x \in 0 .. k PROVE (x \in D) = (D \in T[x])
      BY <2>3
    <3>1. CASE x = k
      <4>1. (k \in D) = (B \in T[k])
        OBVIOUS
      <4>. QED
        BY <3>1, <4>1, <2>7
    <3>2. CASE x # k
      <4>1. (x \in D) = (x \in B)
        BY <3>2
      <4>2. (x \in B) = (B \in T[x])
        BY <2>3, <2>4, <3>2
      <4>. QED
        BY <4>1, <4>2, <2>7
    <3>. QED
      BY <3>1, <3>2
  <2>. QED
    BY <2>5, <2>8
<1>2. \E B \in SUBSET (0 .. N - 1) : Right(B, N)
  <2>. HIDE DEF Right
  <2>1. N \in 0 .. N
    OBVIOUS
  <2>. QED
    BY <1>1, <2>1
<1>. QED
  BY <1>2 DEF Settled

Iterated(f, N, b, g) == f = [n \in 0 .. N |-> IF n = 0 THEN b ELSE g[f[n - 1]]]

\* A function that is iterated on a range is defined.
LEMMA Iterates ==
  ASSUME NEW N \in Nat, NEW b, NEW g
  PROVE  \E f : Iterated(f, N, b, g)
<1> DEFINE C == {n \in 0 .. N : ~ \E f : Iterated(f, n, b, g)}
<1>1. C = {}
  <2>. SUFFICES ASSUME C # {}
                PROVE  FALSE
    OBVIOUS
  <2>1. PICK m \in C : \A n \in C : m <= n
    <3>. HIDE DEF C
    <3>1. C \subseteq Nat
      BY DEF C
    <3>. QED
      BY <3>1, LeastNumber
  <2>2. m \in 1 .. N
    <3>. DEFINE h == [i \in 0 .. 0 |-> b]
    <3>1. m \in 0 .. N
      OBVIOUS
    <3>2. Iterated(h, 0, b, g)
      BY DEF Iterated
    <3>. HIDE DEF h
    <3>. QED
      BY <3>1, <3>2
  <2>3. PICK f : Iterated(f, m - 1, b, g)
    <3>1. m - 1 \in 0 .. N /\ ~(m <= m - 1)
      BY <2>2
    <3>. QED
      BY <3>1, <2>1
  <2>. DEFINE h == [i \in 0 .. m |-> IF i = 0 THEN b ELSE g[f[i - 1]]]
  <2>4. \A i \in 0 .. m - 1 : h[i] = f[i]
    BY <2>3 DEF Iterated
  <2>5. \A i \in 0 .. m : h[i] = IF i = 0 THEN b ELSE g[h[i - 1]]
    <3>. SUFFICES ASSUME NEW i \in 0 .. m PROVE h[i] = IF i = 0 THEN b ELSE g[h[i - 1]]
      OBVIOUS
    <3>1. i # 0 => i - 1 \in 0 .. m - 1
      BY <2>2
    <3>. QED
      BY <2>4, <3>1
  <2>6. Iterated(h, m, b, g)
    BY <2>5 DEF Iterated
  <2>. HIDE DEF h
  <2>. QED
    BY <2>6
<1>2. \E f : Iterated(f, N, b, g)
  <2>1. N \in 0 .. N
    OBVIOUS
  <2>. QED
    BY <1>1, <2>1
<1>. QED
  BY <1>2

\* The expansion of a seed begins with the seed.
LEMMA ExpandKeepsSeed ==
  ASSUME NEW seed \in Seeds
  PROVE  Expand[seed] \in Buffers /\ Expand[seed] \cap (0 .. SeedBytes - 1) = seed
<1> DEFINE ExpandedBit(x, B) ==
             IF x < SeedBytes THEN x \in seed
             ELSE (x - SeedBytes \in B) # ((x - SeedBytes + Word \in B) # (x - Word \in B))
           T == [x \in 0 .. Cells - 1 |-> {B \in SUBSET (0 .. Cells - 1) : ExpandedBit(x, B)}]
           Solution(b) ==
             b = [x \in 0 .. Cells - 1 |->
                   IF x < SeedBytes THEN x \in seed
                   ELSE b[x - SeedBytes] # (b[x - SeedBytes + Word] # b[x - Word])]
           b == CHOOSE c : Solution(c)
<1>0. /\ Cells \in Nat /\ SeedBytes \in Nat /\ Word \in Nat /\ 0 < Word /\ Word < SeedBytes
      /\ SeedBytes < Cells
  BY LfgSizes
<1>1. \A x \in 0 .. Cells - 1 : x >= SeedBytes =>
        /\ x - SeedBytes \in 0 .. x - 1 /\ x - SeedBytes + Word \in 0 .. x - 1
        /\ x - Word \in 0 .. x - 1
  BY <1>0
<1>2. Causal(Cells, T)
  <2>. SUFFICES ASSUME NEW x \in 0 .. Cells - 1, NEW R \in SUBSET (0 .. Cells - 1),
                       NEW S \in SUBSET (0 .. Cells - 1),
                       R \cap (0 .. x - 1) = S \cap (0 .. x - 1)
                PROVE  (R \in T[x]) = (S \in T[x])
    BY DEF Causal
  <2>1. (R \in T[x]) = ExpandedBit(x, R) /\ (S \in T[x]) = ExpandedBit(x, S)
    OBVIOUS
  <2>2. \A y \in 0 .. x - 1 : (y \in R) = (y \in S)
    OBVIOUS
  <2>3. CASE x < SeedBytes
    BY <2>1, <2>3
  <2>4. CASE ~(x < SeedBytes)
    <3>1. x >= SeedBytes
      BY <1>0, <2>4
    <3>. QED
      BY <1>1, <2>1, <2>2, <2>4, <3>1
  <2>. QED
    BY <2>3, <2>4
<1>3. PICK B : Settled(Cells, T, B)
  <2>. HIDE DEF T
  <2>. QED
    BY <1>0, <1>2, BitsDefined
<1>4. \A x \in 0 .. Cells - 1 : (x \in B) = ExpandedBit(x, B)
  BY <1>3 DEF Settled
<1>5. \E c : Solution(c)
  <2>. DEFINE c == [x \in 0 .. Cells - 1 |-> x \in B]
  <2>1. \A x \in 0 .. Cells - 1 :
          c[x] = IF x < SeedBytes THEN x \in seed
                 ELSE c[x - SeedBytes] # (c[x - SeedBytes + Word] # c[x - Word])
    <3>. SUFFICES ASSUME NEW x \in 0 .. Cells - 1
                  PROVE  c[x] = IF x < SeedBytes THEN x \in seed
                                ELSE c[x - SeedBytes] # (c[x - SeedBytes + Word] # c[x - Word])
      OBVIOUS
    <3>1. CASE x < SeedBytes
      BY <1>4, <3>1
    <3>2. CASE ~(x < SeedBytes)
      <4>1. /\ x - SeedBytes \in 0 .. Cells - 1 /\ x - SeedBytes + Word \in 0 .. Cells - 1
            /\ x - Word \in 0 .. Cells - 1
        BY <1>0, <3>2
      <4>2. /\ c[x] = (x \in B) /\ c[x - SeedBytes] = (x - SeedBytes \in B)
            /\ c[x - SeedBytes + Word] = (x - SeedBytes + Word \in B)
            /\ c[x - Word] = (x - Word \in B)
        BY <4>1
      <4>3. (x \in B) = ((x - SeedBytes \in B)
                          # ((x - SeedBytes + Word \in B) # (x - Word \in B)))
        BY <1>4, <3>2
      <4>. QED
        BY <3>2, <4>2, <4>3
    <3>. QED
      BY <3>1, <3>2
  <2>2. Solution(c)
    BY <2>1
  <2>. HIDE DEF Solution, c
  <2>. QED
    BY <2>2
<1>6. Solution(b)
  <2>. HIDE DEF Solution
  <2>. QED
    BY <1>5
<1>7. \A x \in 0 .. Cells - 1 : x < SeedBytes => (b[x] <=> x \in seed)
  <2>. HIDE DEF b
  <2>. QED
    BY <1>6
<1>8. Expand[seed] = {x \in 0 .. Cells - 1 : b[x]}
  BY DEF Expand
<1>9. Expand[seed] \cap (0 .. SeedBytes - 1) = seed
  <2>. HIDE DEF b
  <2>1. seed \subseteq 0 .. SeedBytes - 1
    BY DEF Seeds
  <2>. QED
    <3>1. \A x \in 0 .. SeedBytes - 1 : x \in 0 .. Cells - 1 /\ x < SeedBytes
      BY <1>0
    <3>2. \A x \in 0 .. SeedBytes - 1 : x \in Expand[seed] <=> x \in seed
      BY <1>7, <1>8, <3>1, Zenon
    <3>. QED
      BY <2>1, <3>2
<1>. QED
  <2>. HIDE DEF b
  <2>. QED
    BY <1>8, <1>9 DEF Buffers

\* Every buffer has a next generation.
LEMMA ForwardFollows ==
  ASSUME NEW buf \in Buffers
  PROVE  Forward[buf] \in Buffers /\ Follows(Forward[buf], buf)
<1> DEFINE NextBit(x, B) ==
             (x \in buf) # (IF x < Lag THEN x + Cells - Lag \in buf ELSE x - Lag \in B)
           T == [x \in 0 .. Cells - 1 |-> {B \in SUBSET (0 .. Cells - 1) : NextBit(x, B)}]
<1>0. Cells \in Nat /\ Lag \in Nat /\ 0 < Lag
  BY LfgSizes
<1>1. Causal(Cells, T)
  <2>. SUFFICES ASSUME NEW x \in 0 .. Cells - 1, NEW R \in SUBSET (0 .. Cells - 1),
                       NEW S \in SUBSET (0 .. Cells - 1),
                       R \cap (0 .. x - 1) = S \cap (0 .. x - 1)
                PROVE  (R \in T[x]) = (S \in T[x])
    BY DEF Causal
  <2>1. (R \in T[x]) = NextBit(x, R) /\ (S \in T[x]) = NextBit(x, S)
    OBVIOUS
  <2>2. \A y \in 0 .. x - 1 : (y \in R) = (y \in S)
    OBVIOUS
  <2>3. ~(x < Lag) => x - Lag \in 0 .. x - 1
    BY <1>0
  <2>. QED
    BY <2>1, <2>2, <2>3
<1>2. PICK B : Settled(Cells, T, B)
  <2>. HIDE DEF T
  <2>. QED
    BY <1>0, <1>1, BitsDefined
<1>3. \A x \in 0 .. Cells - 1 : (x \in B) = NextBit(x, B)
  BY <1>2 DEF Settled
<1>4. B \in Buffers /\ Follows(B, buf)
  BY <1>2, <1>3 DEF Settled, Buffers, Follows
<1>5. Forward[buf] = CHOOSE next \in Buffers : Follows(next, buf)
  BY DEF Forward
<1>. QED
  BY <1>4, <1>5

\* The generations of a seed: its expansion, and each from the one before it.
LEMMA GenerationsFollow ==
  ASSUME NEW seed \in Seeds
  PROVE  /\ Generations[seed][0] = Expand[seed]
         /\ \A n \in 0 .. Warmup + Stages : Generations[seed][n] \in Buffers
         /\ \A n \in 1 .. Warmup + Stages :
              Follows(Generations[seed][n], Generations[seed][n - 1])
<1> DEFINE N == Warmup + Stages
           f == CHOOSE h : Iterated(h, N, Expand[seed], Forward)
<1>0. N \in Nat
  BY LfgSizes DEF Warmup, Stages
<1>1. Iterated(f, N, Expand[seed], Forward)
  <2>. HIDE DEF N
  <2>. QED
    BY <1>0, Iterates
<1>2. Generations[seed] = f
  BY DEF Generations, Iterated
<1> HIDE DEF f
<1>3. f[0] = Expand[seed] /\ \A n \in 1 .. N : f[n] = Forward[f[n - 1]]
  <2>. HIDE DEF N
  <2>. QED
    BY <1>0, <1>1 DEF Iterated
<1>4. \A n \in 0 .. N : f[n] \in Buffers
  <2>. DEFINE C == {n \in 0 .. N : f[n] \notin Buffers}
  <2>. SUFFICES ASSUME C # {}
                PROVE  FALSE
    OBVIOUS
  <2>. HIDE DEF N
  <2>1. PICK m \in C : \A n \in C : m <= n
    <3>1. C \subseteq Nat
      BY <1>0
    <3>. HIDE DEF C
    <3>. QED
      BY <3>1, LeastNumber
  <2>2. m \in 0 .. N /\ f[m] \notin Buffers
    OBVIOUS
  <2>3. m # 0
    BY <1>3, <2>2, ExpandKeepsSeed
  <2>4. m - 1 \in 0 .. N /\ m \in 1 .. N /\ ~(m <= m - 1)
    BY <1>0, <2>2, <2>3
  <2>5. f[m - 1] \in Buffers
    BY <2>1, <2>4
  <2>6. f[m] \in Buffers
    BY <1>3, <2>4, <2>5, ForwardFollows
  <2>. QED
    BY <2>2, <2>6
<1>5. \A n \in 1 .. N : Follows(f[n], f[n - 1])
  <2>. SUFFICES ASSUME NEW n \in 1 .. N PROVE Follows(f[n], f[n - 1])
    OBVIOUS
  <2>1. n - 1 \in 0 .. N
    BY <1>0
  <2>. QED
    BY <1>3, <1>4, <2>1, ForwardFollows
<1>. QED
  BY <1>2, <1>3, <1>4, <1>5

\* n bytes d, a buffer's worth of them behind the first whole word, are the
\* stream of the seed from byte p of a block on.
IsStream(d, n, p, seed) ==
  /\ n >= Skip(p) + Cells /\ p + n <= Block
  /\ \A j \in 0 .. n - 1 : d[j] = Stream(seed, p + j)

LEMMA SkipsToWord ==
  ASSUME NEW p \in Nat
  PROVE  Skip(p) \in Nat
<1>1. Word \in Nat \ {0}
  BY LfgSizes
<1>2. PICK w \in Nat : w = p + Word - 1
  BY <1>1
<1>3. PICK q, r \in Nat : q = w \div Word /\ w = Word * q + r /\ r < Word
  BY <1>1, DivModParts
<1>4. q * Word \in Nat /\ q * Word = Word * q
  BY <1>1
<1>5. Skip(p) = q * Word - p
  BY <1>2, <1>3 DEF Skip
<1>. QED
  BY <1>1, <1>2, <1>3, <1>4, <1>5

LEMMA BufferFound ==
  ASSUME NEW seed \in Seeds, NEW d, NEW n \in Nat, NEW p \in Nat, IsStream(d, n, p, seed)
  PROVE  /\ Turn(p) \in 0 .. Stages
         /\ BufferAt(d, p) = Generations[seed][Warmup + Turn(p)]
<1> DEFINE q == p + Skip(p)
           t == q \div Cells
           m == q % Cells
           mix == {x \in 0 .. Cells - 1 : d[Skip(p) + ((x + Cells - m) % Cells)] = 1}
           buf == Generations[seed][Warmup + t]
           next == Generations[seed][Warmup + (t + 1)]
<1>0. Cells \in Nat \ {0} /\ Skip(p) \in Nat /\ Block \in Nat /\ q \in Nat
  BY LfgSizes, SkipsToWord
<1>1. t \in Nat /\ m \in 0 .. Cells - 1 /\ q = Cells * t + m
  <2>. HIDE DEF q
  <2>. QED
    BY <1>0, DivMod
<1>2. Turn(p) = t /\ BufferAt(d, p) = Backward[mix][m]
  BY DEF Turn, BufferAt
<1>3. q + Cells <= Block /\ \A j \in 0 .. Cells - 1 : d[Skip(p) + j] = Stream(seed, q + j)
  <2>1. q + Cells <= Block
    BY <1>0 DEF IsStream
  <2>2. ASSUME NEW j \in 0 .. Cells - 1
        PROVE  d[Skip(p) + j] = Stream(seed, q + j)
    <3>1. Skip(p) + j \in 0 .. n - 1 /\ p + (Skip(p) + j) = q + j
      BY <1>0 DEF IsStream
    <3>. QED
      BY <3>1 DEF IsStream
  <2>. QED
    BY <2>1, <2>2
<1>4. t + 1 <= Block \div Cells /\ Block \div Cells \in Nat
  <2>. DEFINE b == Block \div Cells
              r == Block % Cells
  <2>1. b \in Nat /\ r \in 0 .. Cells - 1 /\ Block = Cells * b + r
    BY <1>0, DivMod
  <2>. HIDE DEF b, r, t, m, q
  <2>2. ~(t + 1 > b)
    <3>. SUFFICES ASSUME t >= b PROVE FALSE
      BY <1>1, <2>1
    <3>1. b * Cells <= t * Cells /\ b * Cells = Cells * b /\ t * Cells = Cells * t
      BY <1>0, <1>1, <2>1, TimesMonotone
    <3>2. b * Cells \in Nat /\ t * Cells \in Nat
      BY <1>0, <1>1, <2>1
    <3>. QED
      BY <1>0, <1>1, <1>3, <2>1, <3>1, <3>2
  <2>. QED
    BY <1>1, <2>1, <2>2 DEF b
<1>5. Stages \in Nat /\ t \in 0 .. Stages /\ t + 1 \in 0 .. Stages
  <2>. HIDE DEF t
  <2>. QED
    BY <1>1, <1>4 DEF Stages
<1>6. buf \in Buffers /\ next \in Buffers /\ Follows(next, buf)
  <2>. HIDE DEF t
  <2>1. /\ Warmup + t \in 0 .. Warmup + Stages
        /\ Warmup + (t + 1) \in 1 .. Warmup + Stages
        /\ Warmup + (t + 1) \in 0 .. Warmup + Stages
        /\ Warmup + (t + 1) - 1 = Warmup + t
    BY <1>1, <1>5 DEF Warmup
  <2>2. PICK u \in 1 .. Warmup + Stages : u = Warmup + (t + 1) /\ u - 1 = Warmup + t
    BY <1>1, <1>5, <2>1 DEF Warmup
  <2>3. Follows(Generations[seed][u], Generations[seed][u - 1])
    BY GenerationsFollow
  <2>. QED
    BY <2>1, <2>2, <2>3, GenerationsFollow
<1>7. \A g \in {t, t + 1} : \A x \in 0 .. Cells - 1 :
        (Stream(seed, g * Cells + x) = 1) = (x \in Generations[seed][Warmup + g])
  <2>. SUFFICES ASSUME NEW g \in {t, t + 1}, NEW x \in 0 .. Cells - 1
                PROVE  (Stream(seed, g * Cells + x) = 1)
                         = (x \in Generations[seed][Warmup + g])
    OBVIOUS
  <2>. HIDE DEF t
  <2>1. g \in Nat /\ g <= Stages
    BY <1>1, <1>5
  <2>2. /\ g * Cells \in Nat /\ g * Cells <= Stages * Cells
        /\ (Stages + 1) * Cells = Stages * Cells + Cells
    <3>1. Cells * g <= Cells * Stages
      BY <1>0, <1>5, <2>1, TimesMonotone
    <3>. QED
      BY <1>0, <1>5, <2>1, <3>1
  <2>. DEFINE o == g * Cells + x
  <2>3. o \in 0 .. (Stages + 1) * Cells - 1
    <3>1. Stages * Cells \in Nat
      BY <1>0, <1>5
    <3>. QED
      BY <1>0, <2>2, <3>1
  <2>4. o \div Cells = g /\ o % Cells = x
    BY <1>0, <2>1, TakenApart
  <2>. HIDE DEF o
  <2>5. (<<seed, o>> \in Ones) = (o % Cells \in Generations[seed][Warmup + (o \div Cells)])
    BY <2>3 DEF Ones
  <2>6. (Stream(seed, o) = 1) = (<<seed, o>> \in Ones)
    BY DEF Stream
  <2>. QED
    BY <2>4, <2>5, <2>6 DEF o
<1>8. \A x \in 0 .. Cells - 1 : (x \in mix) = (IF x < m THEN x \in next ELSE x \in buf)
  <2>. SUFFICES ASSUME NEW x \in 0 .. Cells - 1
                PROVE  (x \in mix) = (IF x < m THEN x \in next ELSE x \in buf)
    OBVIOUS
  <2>. HIDE DEF q, t, m
  <2>1. CASE x < m
    <3>1. (x + Cells - m) % Cells = x + Cells - m /\ x + Cells - m \in 0 .. Cells - 1
      BY <1>0, <1>1, <2>1
    <3>2. q + (x + Cells - m) = (t + 1) * Cells + x
      BY <1>0, <1>1, <2>1
    <3>3. d[Skip(p) + (x + Cells - m)] = Stream(seed, (t + 1) * Cells + x)
      BY <1>3, <3>1, <3>2
    <3>4. (x \in mix) = (Stream(seed, (t + 1) * Cells + x) = 1)
      BY <3>1, <3>3
    <3>. QED
      BY <1>7, <2>1, <3>4
  <2>2. CASE ~(x < m)
    <3>1. (x + Cells - m) % Cells = x - m /\ x - m \in 0 .. Cells - 1
      <4>1. x - m \in 0 .. Cells - 1
        BY <1>0, <1>1, <2>2
      <4>2. (1 * Cells + (x - m)) % Cells = x - m
        BY <1>0, <4>1, TakenApart
      <4>3. 1 * Cells + (x - m) = x + Cells - m
        BY <1>0, <1>1
      <4>. QED
        BY <4>1, <4>2, <4>3
    <3>2. q + (x - m) = t * Cells + x
      BY <1>0, <1>1, <2>2
    <3>3. d[Skip(p) + (x - m)] = Stream(seed, t * Cells + x)
      BY <1>3, <3>1, <3>2
    <3>4. (x \in mix) = (Stream(seed, t * Cells + x) = 1)
      BY <3>1, <3>3
    <3>. QED
      BY <1>7, <2>2, <3>4
  <2>. QED
    BY <2>1, <2>2
<1>9. Backward[mix][m] = buf
  <2>1. mix \in Buffers /\ m \in 0 .. Cells
    <3>1. mix \in Buffers
      BY DEF Buffers
    <3>. HIDE DEF q, m
    <3>. QED
      BY <1>0, <1>1, <3>1
  <2>. HIDE DEF mix, m, buf, next
  <2>. QED
    BY <1>6, <1>8, <2>1, BackwardInPart
<1>. QED
  BY <1>2, <1>5, <1>9

\* From a generation back to the expanded seed.
LEMMA RewindsToSeed ==
  ASSUME NEW seed \in Seeds, NEW turns \in 0 .. Warmup + Stages
  PROVE  Rewound(Generations[seed][turns], turns) = Expand[seed]
<1> DEFINE b == Generations[seed][turns]
           Solution(f) == f = [n \in 0 .. turns |-> IF n = 0 THEN b ELSE Backward[f[n - 1]][Cells]]
           f == CHOOSE h : Solution(h)
<1>0. turns \in Nat /\ Stages \in Nat /\ Warmup \in Nat
  BY LfgSizes DEF Warmup, Stages
<1>1. ASSUME NEW n \in 1 .. turns
      PROVE  Backward[Generations[seed][turns - (n - 1)]][Cells] = Generations[seed][turns - n]
  <2>1. /\ turns - n \in 0 .. Warmup + Stages /\ turns - (n - 1) \in 1 .. Warmup + Stages
        /\ turns - (n - 1) \in 0 .. Warmup + Stages /\ turns - (n - 1) - 1 = turns - n
    BY <1>0
  <2>2. Follows(Generations[seed][turns - (n - 1)], Generations[seed][turns - (n - 1) - 1])
    BY <2>1, GenerationsFollow
  <2>3. Generations[seed][turns - (n - 1)] \in Buffers /\ Generations[seed][turns - n] \in Buffers
    BY <2>1, GenerationsFollow
  <2>. QED
    BY <2>1, <2>2, <2>3, BackwardUndoesForward
<1>2. \E h : Solution(h)
  <2>. DEFINE h == [n \in 0 .. turns |-> Generations[seed][turns - n]]
  <2>1. ASSUME NEW n \in 0 .. turns
        PROVE  h[n] = IF n = 0 THEN b ELSE Backward[h[n - 1]][Cells]
    <3>1. CASE n = 0
      <4>1. turns - n = turns
        BY <1>0, <3>1
      <4>. QED
        BY <3>1, <4>1
    <3>2. CASE n # 0
      <4>1. n \in 1 .. turns /\ n - 1 \in 0 .. turns
        BY <1>0, <3>2
      <4>2. h[n - 1] = Generations[seed][turns - (n - 1)] /\ h[n] = Generations[seed][turns - n]
        BY <4>1
      <4>. QED
        BY <1>1, <3>2, <4>1, <4>2
    <3>. QED
      BY <3>1, <3>2
  <2>2. Solution(h)
    <3>. HIDE DEF b
    <3>. QED
      BY <2>1
  <2>. HIDE DEF Solution, h
  <2>. QED
    BY <2>2
<1>3. Solution(f)
  <2>. HIDE DEF Solution
  <2>. QED
    BY <1>2
<1>4. Rewound(b, turns) = f[turns]
  BY DEF Rewound
<1> HIDE DEF f
<1>5. f[0] = b /\ \A n \in 1 .. turns : f[n] = Backward[f[n - 1]][Cells]
  <2>. HIDE DEF b
  <2>. QED
    BY <1>0, <1>3
<1>6. \A n \in 0 .. turns : f[n] = Generations[seed][turns - n]
  <2>. DEFINE C == {n \in 0 .. turns : f[n] # Generations[seed][turns - n]}
  <2>. SUFFICES ASSUME C # {}
                PROVE  FALSE
    OBVIOUS
  <2>1. PICK m \in C : \A n \in C : m <= n
    <3>1. C \subseteq Nat
      OBVIOUS
    <3>. HIDE DEF C
    <3>. QED
      BY <3>1, LeastNumber
  <2>2. m \in 0 .. turns /\ f[m] # Generations[seed][turns - m]
    OBVIOUS
  <2>3. m # 0
    BY <1>0, <1>5, <2>2
  <2>4. m - 1 \in 0 .. turns /\ m \in 1 .. turns /\ ~(m <= m - 1)
    BY <1>0, <2>2, <2>3
  <2>5. f[m - 1] = Generations[seed][turns - (m - 1)]
    BY <2>1, <2>4
  <2>. QED
    BY <1>1, <1>5, <2>2, <2>4, <2>5
<1>7. f[turns] = Generations[seed][0]
  BY <1>0, <1>6
<1>. QED
  BY <1>4, <1>7, GenerationsFollow

\* get_seed finds the seed of a stream, and all of its bytes.
LEMMA SeedFound ==
  ASSUME NEW seed \in Seeds, NEW d, NEW n \in Nat, NEW p \in Nat, IsStream(d, n, p, seed),
         ComparedFrom(p) = p
  PROVE  GetSeed(d, n, p) = {[seed |-> seed, count |-> n]}
<1>1. Turn(p) \in 0 .. Stages /\ BufferAt(d, p) = Generations[seed][Warmup + Turn(p)]
  BY BufferFound
<1>2. Origin(d, p) = Expand[seed]
  <2>1. Stages \in Nat
    BY LfgSizes DEF Stages
  <2>2. Turn(p) + Warmup \in 0 .. Warmup + Stages /\ Turn(p) + Warmup = Warmup + Turn(p)
    BY <1>1, <2>1 DEF Warmup
  <2>. QED
    BY <1>1, <2>2, RewindsToSeed DEF Origin
<1>3. Found(d, p) = {seed}
  <2>1. {Origin(d, p)} \cap Expansions = {Expand[seed]}
    BY <1>2 DEF Expansions
  <2>2. Found(d, p) = {Expand[seed] \cap (0 .. SeedBytes - 1)}
    BY <2>1 DEF Found
  <2>. QED
    BY <2>2, ExpandKeepsSeed
<1>4. \A j \in 0 .. n - 1 : Matches(d, p, seed, j)
  BY DEF Matches, IsStream
<1>5. IsCount(d, n, p, seed, n) /\ \A c \in 0 .. n : IsCount(d, n, p, seed, c) => c = n
  BY <1>4 DEF IsCount
<1>6. ~(n < Skip(p) + Cells)
  BY LfgSizes, SkipsToWord DEF IsStream
<1>7. \A f : f \in GetSeed(d, n, p) <=> f = [seed |-> seed, count |-> n]
  <2>1. GetSeed(d, n, p)
          = {f \in [seed : {seed}, count : 0 .. n] : IsCount(d, n, p, f.seed, f.count)}
    BY <1>3, <1>6 DEF GetSeed
  <2>. QED
    BY <1>5, <2>1
<1>. QED
  BY <1>7

\* A window of padding that the scan comes to is found to its end.
LEMMA WindowFound ==
  ASSUME Typed, ScanWindow, NEW d \in Pads, d.offset = offset, d.bytes = data,
         NEW p \in position .. size - 1, AfterZeroes(p),
         d.from <= p, p + WindowLength(p) <= d.to,
         WindowLength(p) >= Skip(Phase(p)) + Cells, ComparedFrom(Phase(p)) = Phase(p)
  PROVE  \E s \in Seeds :
           junk' = Append(junk, [from |-> p, to |-> p + WindowLength(p), seed |-> s])
<1> DEFINE n == WindowLength(p)
           w == Bytes(p, p + n)
<1>1. position \in Nat /\ size \in Nat /\ offset \in Nat /\ p \in Nat /\ p < size
  BY SizeTypes DEF Typed
<1>2. n \in Nat /\ p + n <= size /\ Phase(p) \in Nat
  BY <1>1, WindowFits
<1>3. d.from \in Nat /\ d.to \in Nat
  BY PadsAssumption
<1>4. PICK s \in Seeds : \A x \in d.from .. d.to - 1 : data[x] = Stream(s, (offset + x) % Block)
  BY PadsAssumption
<1>5. Phase(p) + n <= Block
  BY <1>1, <1>2, LfgSizes DEF WindowLength
<1>6. ASSUME NEW j \in 0 .. n - 1
      PROVE  w[j] = Stream(s, Phase(p) + j)
  <2>1. w[j] = data[p + j]
    BY <1>1, <1>2 DEF Bytes
  <2>2. p + j \in d.from .. d.to - 1
    BY <1>1, <1>2, <1>3
  <2>3. (offset + (p + j)) % Block = Phase(p) + j
    <3>1. Block \in Nat \ {0}
      BY LfgSizes
    <3>2. PICK v \in Nat : v = offset + p
      BY <1>1
    <3>3. PICK q, r \in Nat : v = Block * q + r /\ r < Block
      BY <3>1, DivModParts
    <3>4. q * Block = Block * q /\ q * Block \in Nat
      BY <3>1
    <3>5. Phase(p) = r
      <4>1. (q * Block + r) % Block = r
        BY <3>1, <3>3, TakenApart
      <4>. QED
        BY <3>2, <3>3, <3>4, <4>1 DEF Phase
    <3>6. r + j \in 0 .. Block - 1
      <4>. HIDE DEF n
      <4>. QED
        BY <1>2, <1>5, <3>1, <3>5
    <3>7. (q * Block + (r + j)) % Block = r + j
      BY <3>1, <3>6, TakenApart
    <3>8. offset + (p + j) = q * Block + (r + j)
      <4>. HIDE DEF n
      <4>. QED
        BY <1>1, <1>2, <3>2, <3>3, <3>4
    <3>. QED
      BY <3>5, <3>7, <3>8
  <2>. QED
    BY <1>4, <2>1, <2>2, <2>3
<1>7. IsStream(w, n, Phase(p), s)
  <2>. HIDE DEF w
  <2>. QED
    BY <1>5, <1>6 DEF IsStream
<1>8. GetSeed(w, n, Phase(p)) = {[seed |-> s, count |-> n]}
  <2>. HIDE DEF w, n
  <2>. QED
    BY <1>2, <1>7, SeedFound
<1>9. n > 0
  BY <1>2, LfgSizes, SkipsToWord
<1>10. RunsAt(p) = {[from |-> p, to |-> p + n, seed |-> s]}
  <2>. HIDE DEF n
  <2>1. RunsAt(p) = {[from |-> p, to |-> p + f.count, seed |-> f.seed] :
                      f \in {g \in {[seed |-> s, count |-> n]} : g.count > 0}}
    BY <1>8 DEF RunsAt, n
  <2>2. {g \in {[seed |-> s, count |-> n]} : g.count > 0} = {[seed |-> s, count |-> n]}
    BY <1>9
  <2>3. {[from |-> p, to |-> p + f.count, seed |-> f.seed] : f \in {[seed |-> s, count |-> n]}}
          = {[from |-> p, to |-> p + n, seed |-> s]}
    OBVIOUS
  <2>. QED
    BY <2>1, <2>2, <2>3
<1>11. PICK e \in position .. size :
         /\ AfterZeroes(e)
         /\ \/ RunsAt(e) = {}
            \/ \E r \in RunsAt(e) : junk' = Append(junk, r)
  BY DEF ScanWindow
<1>12. e = p
  <2>1. e \in Nat /\ e <= size /\ position <= e
    BY <1>1
  <2>2. ~(e < p)
    <3>. SUFFICES ASSUME e < p PROVE FALSE
      OBVIOUS
    <3>1. data[e] # 0 /\ data[e] = 0
      BY <1>1, <1>11, <2>1 DEF AfterZeroes
    <3>. QED
      BY <3>1
  <2>3. ~(p < e)
    <3>. SUFFICES ASSUME p < e PROVE FALSE
      OBVIOUS
    <3>1. data[p] # 0 /\ data[p] = 0
      BY <1>1, <1>11, <2>1 DEF AfterZeroes
    <3>. QED
      BY <3>1
  <2>. QED
    BY <1>1, <2>1, <2>2, <2>3
<1>. QED
  <2>. HIDE DEF n
  <2>1. \E r \in RunsAt(p) : junk' = Append(junk, r)
    BY <1>10, <1>11, <1>12
  <2>. QED
    BY <1>10, <2>1 DEF n

\* Padding of a disc is found as one run a window, to its end, with its seed
\* (lfg.rs:228): for every generator, seed and place of the window but those
\* that straddle two generations.
THEOREM PaddingFound == PayloadSpec => PaddingIsFound
<1> DEFINE Window(d, p) ==
             (/\ pc = "scan" /\ pc' = "scan" /\ AfterZeroes(p)
              /\ d.from <= p /\ p + WindowLength(p) <= d.to
              /\ WindowLength(p) >= Skip(Phase(p)) + Cells
              /\ ComparedFrom(Phase(p)) = Phase(p))
             => \E s \in Seeds :
                  junk' = Append(junk, [from |-> p, to |-> p + WindowLength(p), seed |-> s])
           Step == \A d \in {e \in Pads : e.offset = offset /\ e.bytes = data},
                      p \in position .. size - 1 : Window(d, p)
<1>1. PInv /\ [PayloadNext]_pvars => [Step]_vars
  <2>. SUFFICES ASSUME PInv, [PayloadNext]_pvars, ~ UNCHANGED vars, pc = "scan", pc' = "scan"
                PROVE  Step
    OBVIOUS
  <2>1. ScanWindow
    <3>1. ~ UNCHANGED pvars
      BY DEF pvars
    <3>2. ~ CollectExceptions /\ ~ Store
      BY DEF CollectExceptions, Store
    <3>3. ~ Load /\ ~ ApplyExceptions
      BY DEF PInv, StageInvariant, Load, ApplyExceptions
    <3>4. ~ Unpack
      BY DEF Unpack, TakePlain, TakeSlice, UnpackRefuses, Unpacking, UnpackRecord, UnpackEnds
    <3>5. Pack
      BY <3>1, <3>2, <3>3, <3>4 DEF PayloadNext
    <3>. QED
      BY <3>5 DEF Pack, ScanEnds, EmitPadding, EmitRest, EmitEnds
  <2>2. Typed
    BY DEF PInv, IInv
  <2>. QED
    BY <2>1, <2>2, WindowFound
<1>. QED
  BY <1>1, PayloadInvariant, PTL DEF PayloadSpec, PaddingIsFound
=============================================================================
