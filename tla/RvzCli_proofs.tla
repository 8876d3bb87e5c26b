--------------------------- MODULE RvzCli_proofs ---------------------------
(***************************************************************************)
(* The command line gives up only on a drive that has stopped writing,     *)
(* however late its reader is polled.  What it has encoded is decoded to   *)
(* the disc again, byte by byte and with the disc's digest: the invariants *)
(* of the encoder and of the decoder meet in the finished container.  For  *)
(* every disc, drive and timeout, and wherever reads fail.                 *)
(***************************************************************************)
EXTENDS RvzCliProps, IsoEncoder_proofs

P == INSTANCE PullDecoder_proofs WITH
  Files <- Containers, file <- rvz, pc <- dpc, parts <- dparts, rawEntries <- draws,
  groups <- dgroups, part <- buffers

-----------------------------------------------------------------------------
(* The clocks: while the reader waits for growth, it has not counted more  *)
(* ticks than the drive has been quiet for.                                *)

ClockTypes ==
  /\ mode \in Modes /\ cmd \in {"appear", "encode", "decode", "end"} /\ exists \in BOOLEAN
  /\ reader \in {"idle", "poll", "sleep"}
  /\ last \in 0 .. available /\ since \in 0 .. Cap /\ quiet \in 0 .. Cap
  /\ gaveUp \in {"no", "file", "timeout", "error", "panic"}

Patient ==
  /\ cmd = "encode" => exists
  /\ cmd = "encode" /\ reader # "idle" /\ last = available => since <= quiet

WInv ==
  /\ IInv /\ ClockTypes /\ Patient
  /\ cmd = "appear" => Fresh

LEMMA ClockConstants ==
  Patience \in Nat /\ StartPatience \in Nat /\ Cap \in Nat \ {0}
BY CliAssumption DEF Cap

LEMMA InitWInv ==
  ASSUME CliInit
  PROVE  WInv
<1>1. iso \in CutDiscs /\ iso.size \in Nat
  BY DiscsAreCut DEF CliInit
<1>2. /\ mode \in Modes /\ available = (IF mode = "file" THEN iso.size ELSE 0)
      /\ exists = (mode = "file") /\ cmd = (IF mode = "file" THEN "encode" ELSE "appear")
      /\ reader = (IF mode = "file" THEN "idle" ELSE "poll")
      /\ last = 0 /\ since = 0 /\ quiet = 0 /\ gaveUp = "no"
  BY Zenon DEF CliInit
<1>6. available \in 0 .. iso.size
  BY <1>1, <1>2
<1>3. Fresh
  BY <1>1, <1>6 DEF CliInit, Fresh
<1>4. ClockTypes
  BY <1>1, <1>2, <1>6, ClockConstants DEF ClockTypes
<1>5. Patient
  BY <1>2 DEF Patient
<1>. QED
  BY <1>3, <1>4, <1>5, FreshIInv DEF WInv

LEMMA DriveTypes ==
  ASSUME WInv
  PROVE  /\ available \in Nat /\ iso.size \in Nat /\ last \in Nat /\ last <= available
         /\ since \in Nat /\ quiet \in Nat /\ Block \in Nat \ {0} /\ available <= iso.size
BY DiscTypes, ConstantTypes DEF WInv, IInv, ClockTypes, Typed

\* The disc that is followed without --iso-size is what there is of it.
LEMMA CutKeepsFresh ==
  ASSUME Fresh,
         iso' = [iso EXCEPT !.size = available, !.wii = @ /\ available >= DiscHeader],
         UNCHANGED <<available, pc, plan, allotted, cursor, stored, container>>
  PROVE  Fresh'
<1>1. /\ iso \in [size : Nat, wii : BOOLEAN, table : Seq(Partitions)] /\ available \in Nat
      /\ \E e \in Isos : iso.table = e.table
  BY FreshIInv, DiscTypes DEF Fresh, CutDiscs, Discs
<1>2. PICK w \in BOOLEAN : w = (iso.wii /\ available >= DiscHeader)
  OBVIOUS
<1>3. iso' = [iso EXCEPT !.size = available, !.wii = w]
  BY <1>2
<1>4. iso'.size = available /\ iso'.wii = w /\ iso'.table = iso.table /\ iso' \in Discs
  BY <1>1, <1>3 DEF Discs
<1>5. iso' \in CutDiscs
  BY <1>1, <1>2, <1>4 DEF CutDiscs
<1>6. available' \in 0 .. iso'.size
  BY <1>1, <1>4
<1>. QED
  BY <1>5, <1>6 DEF Fresh, plan, allotted, cursor, stored, container

LEMMA AwaitKeepsWInv ==
  ASSUME WInv, AwaitFile
  PROVE  WInv'
<1>1. Fresh /\ cmd = "appear"
  BY DEF WInv, AwaitFile
<1>2. Fresh'
  <2>1. CASE iso' = iso
    BY <1>1, <2>1 DEF AwaitFile, Fresh, plan, allotted, cursor, stored, container
  <2>2. CASE iso' = [iso EXCEPT !.size = available, !.wii = @ /\ available >= DiscHeader]
    BY <1>1, <2>2, CutKeepsFresh DEF AwaitFile
  <2>. QED
    BY <2>1, <2>2 DEF AwaitFile
<1>3. /\ cmd' \in {"appear", "encode", "end"} /\ reader' \in {"idle", "sleep"}
      /\ gaveUp' \in {gaveUp, "file"} /\ UNCHANGED <<available, mode, exists, quiet, last, since>>
      /\ cmd' = "encode" => exists /\ reader' = "idle"
  BY DEF AwaitFile, Stops, drive
<1>4. ClockTypes'
  BY <1>3 DEF WInv, ClockTypes, Cap
<1>5. Patient'
  BY <1>3 DEF Patient
<1>6. IInv'
  BY <1>2, FreshIInv, PTL
<1>. QED
  BY <1>2, <1>4, <1>5, <1>6 DEF WInv

\* What the encoder does, apart from the clocks.
LEMMA EncoderOfCommand ==
  ASSUME WInv, Command \/ EncodeFails \/ PollFails \/ CreateFile \/ WriteFile \/ Tick \/ UNCHANGED cliVars,
         ~ AwaitFile
  PROVE  [Next]_vars
<1>1. CASE EncodeStep
  BY <1>1 DEF EncodeStep, Next
<1>2. CASE Poll \/ PollFails
  BY <1>2 DEF Poll, PollFails, ReadFails, Next, Encode
<1>3. CASE EncodeFails \/ WriteFile
  BY <1>3 DEF EncodeFails, WriteFile, Next
<1>4. CASE \/ StartToWait \/ EncodePanics \/ StartDecode \/ DecodeStep \/ DecodeEnds
           \/ CreateFile \/ Tick \/ UNCHANGED cliVars
  BY <1>4 DEF StartToWait, EncodePanics, StartDecode, DecodeStep, DecodeEnds, CreateFile, Tick,
              cliVars
<1>. QED
  BY <1>1, <1>2, <1>3, <1>4 DEF Command

\* What the command does to the clocks besides.
LEMMA CommandKeepsClocks ==
  ASSUME WInv, [CliNext]_cliVars, ~ AwaitFile
  PROVE  ClockTypes' /\ Patient' /\ (cmd' = "appear" => cmd = "appear")
<1>1. /\ available \in Nat /\ iso.size \in Nat /\ last \in Nat /\ last <= available
      /\ since \in Nat /\ quiet \in Nat /\ Cap \in Nat \ {0} /\ Block \in Nat \ {0}
      /\ since <= Cap /\ quiet <= Cap /\ available <= iso.size
  BY DriveTypes, ClockConstants DEF WInv, ClockTypes
<1>2. CASE CreateFile
  <2>1. cmd # "encode" /\ UNCHANGED <<available, mode, cmd, reader, last, since, gaveUp>>
        /\ exists' = TRUE /\ quiet' = 0
    BY <1>2 DEF CreateFile, WInv, Patient, vars, follow
  <2>. QED
    BY <1>1, <2>1 DEF WInv, ClockTypes, Patient, Cap
<1>3. CASE WriteFile
  <2>1. /\ available' = Lesser(iso.size, available + Block) /\ available < iso.size
        /\ UNCHANGED <<mode, cmd, exists, reader, last, since, gaveUp>> /\ quiet' = 0
    BY <1>3 DEF WriteFile, Grow, follow
  <2>2. available' \in Nat /\ last < available'
    BY <1>1, <2>1 DEF Lesser
  <2>. QED
    BY <1>1, <2>1, <2>2 DEF WInv, ClockTypes, Patient, Cap
<1>4. CASE Tick
  <2>1. /\ since' = Lesser(since + 1, Cap) /\ quiet' = Lesser(quiet + 1, Cap) /\ reader' = "poll"
        /\ UNCHANGED <<available, mode, cmd, exists, last, gaveUp>> /\ reader # "idle"
    BY <1>4 DEF Tick, vars
  <2>2. since' \in 0 .. Cap /\ quiet' \in 0 .. Cap /\ (since <= quiet => since' <= quiet')
    BY <1>1, <2>1 DEF Lesser
  <2>. QED
    BY <1>1, <2>1, <2>2 DEF WInv, ClockTypes, Patient, Cap
<1>5. CASE StartToWait
  <2>1. /\ reader' = "poll" /\ last' = 0 /\ since' = 0
        /\ UNCHANGED <<available, mode, cmd, exists, quiet, gaveUp>>
    BY <1>5 DEF StartToWait, vars, drive
  <2>. QED
    BY <1>1, <2>1 DEF WInv, ClockTypes, Patient, Cap
<1>6. CASE Poll \/ PollFails
  <2>1. /\ reader' \in {"idle", "sleep"} /\ cmd = "encode" /\ cmd' \in {"encode", "end"}
        /\ gaveUp' \in {gaveUp, "timeout", "error"} /\ reader # "idle"
        /\ UNCHANGED <<available, mode, exists, quiet>>
        /\ \/ reader' = "idle" /\ UNCHANGED <<last, since>>
           \/ last' = available /\ since' = Unchanged
    BY <1>6 DEF Poll, PollFails, ReadFails, ReadFst, Detect, Fail, Stops, drive, vars
  <2>2. last' \in 0 .. available /\ since' \in 0 .. Cap
    BY <1>1, <2>1 DEF Unchanged
  <2>3. reader' # "idle" => since' <= quiet
    BY <1>1, <2>1 DEF WInv, Patient, Unchanged
  <2>. QED
    BY <2>1, <2>2, <2>3 DEF WInv, ClockTypes, Patient, Cap
<1>7. CASE EncodeStep \/ EncodeFails \/ EncodePanics
  <2>1. UNCHANGED available
    BY <1>7 DEF EncodeStep, EncodeFails, EncodePanics, Encode, Begin, Detect, SkipCandidate,
       ReachCandidate, ReachEnd, SetUp, ReadFst, CreateEntries, RawChunk, PartChunk,
       WritePartTable, WriteRawTable, WriteGroupTable, WriteTable, WriteHeader, Fail, vars
  <2>2. /\ gaveUp' \in {gaveUp, "error", "panic"} /\ cmd = "encode" /\ cmd' \in {cmd, "end"}
        /\ UNCHANGED <<mode, exists, quiet, reader, last, since>>
    BY <1>7 DEF EncodeStep, EncodeFails, EncodePanics, Stops, drive, follow
  <2>. QED
    BY <2>1, <2>2 DEF WInv, ClockTypes, Patient, Cap
<1>8. CASE StartDecode \/ DecodeStep \/ DecodeEnds \/ UNCHANGED cliVars
  <2>1. /\ cmd' \in {cmd, "decode", "end"}
        /\ UNCHANGED <<available, mode, exists, quiet, reader, last, since, gaveUp>>
    BY <1>8 DEF StartDecode, DecodeStep, DecodeEnds, cliVars, vars, drive, follow
  <2>. QED
    BY <2>1 DEF WInv, ClockTypes, Patient, Cap
<1>. QED
  BY <1>2, <1>3, <1>4, <1>5, <1>6, <1>7, <1>8 DEF CliNext, Command

LEMMA CommandKeepsWInv ==
  ASSUME WInv, [CliNext]_cliVars
  PROVE  WInv'
<1>1. CASE AwaitFile
  BY <1>1, AwaitKeepsWInv
<1>2. CASE ~ AwaitFile
  <2>1. [Next]_vars
    BY <1>2, EncoderOfCommand DEF CliNext
  <2>2. IInv'
    BY <2>1, NextKeepsIInv DEF WInv
  <2>3. ClockTypes' /\ Patient' /\ (cmd' = "appear" => cmd = "appear")
    BY <1>2, CommandKeepsClocks
  <2>4. ASSUME cmd' = "appear"
        PROVE  Fresh'
    <3>1. Fresh /\ cmd = "appear"
      BY <2>3, <2>4 DEF WInv
    <3>2. CreateFile \/ WriteFile \/ Tick \/ UNCHANGED cliVars
      BY <1>2, <2>4, <3>1 DEF CliNext, Command, EncodeStep, StartToWait, Poll, EncodePanics,
         StartDecode, DecodeStep, DecodeEnds, EncodeFails, PollFails
    <3>3. UNCHANGED <<iso, pc, plan, allotted, cursor, stored, container>>
      BY <3>2 DEF CreateFile, WriteFile, Grow, Tick, cliVars, vars
    <3>4. available' \in 0 .. iso'.size
      BY <2>2, DiscTypes DEF IInv, Typed
    <3>. QED
      BY <3>1, <3>3, <3>4 DEF Fresh, plan, allotted, cursor, stored, container
  <2>. QED
    BY <2>2, <2>3, <2>4 DEF WInv
<1>. QED
  BY <1>1, <1>2

(* FollowReader::read_at gives up only when the drive has written nothing  *)
(* for longer than the timeout, however late the machine lets it poll: the *)
(* ticks it counts begin again with every growth that it notices, and it   *)
(* looks for growth before it compares them.                               *)
THEOREM ReaderIsPatient == CliSpec => PatientReader
<1>1. CliInit => WInv
  BY InitWInv
<1>2. WInv /\ [CliNext]_cliVars => WInv'
  BY CommandKeepsWInv
<1>3. ASSUME WInv, [CliNext]_cliVars, cmd = "encode", reader = "poll", reader' = "idle", ~Readable,
             gaveUp' # "error"
      PROVE  quiet > Patience
  <2>1. Poll
    BY <1>3 DEF CliNext, Command, AwaitFile, EncodeStep, StartToWait, Poll, ReadFails, PollFails, EncodePanics, EncodeFails,
       StartDecode, DecodeStep, DecodeEnds, CreateFile, WriteFile, Tick, Stops, cliVars, follow
  <2>2. Expired /\ cmd = "encode" /\ reader # "idle"
    BY <1>3, <2>1 DEF Poll
  <2>3. since > Patience /\ last = available
    BY <2>2, ClockConstants DEF Expired, Unchanged
  <2>. QED
    BY <1>3, <2>2, <2>3, DriveTypes, ClockConstants DEF WInv, Patient
<1>. QED
  BY <1>1, <1>2, <1>3, PTL DEF CliSpec, PatientReader

-----------------------------------------------------------------------------
(* The decoder: the operators of PullDecoder and of PullDecoder_proofs are *)
(* the same, and so are their steps.                                       *)

LEMMA FormatAgrees ==
  /\ P!Chunk = Pull!Chunk /\ P!Slots = Pull!Slots /\ P!NoTree = Pull!NoTree
  /\ P!Empty = Pull!Empty /\ P!Zeros = Pull!Zeros
  /\ P!NoPart = Pull!NoPart /\ P!PartStart = Pull!PartStart
  /\ \A n, c, u : P!Expected(n, c, u) = Pull!Expected(n, c, u)
  /\ \A e : P!LogicalSize(e) = Pull!LogicalSize(e)
  /\ \A e, c, s : P!RawOutput(e, c, s) = Pull!RawOutput(e, c, s)
  /\ \A e, g, b : P!Payload(e, g, b) = Pull!Payload(e, g, b)
BY DEF P!Expected, Pull!Expected, P!Lesser, Pull!Lesser, P!LogicalSize, Pull!LogicalSize,
       P!RawOutput, Pull!RawOutput, P!Payload, Pull!Payload, P!Chunk, Pull!Chunk,
       P!AlignDown, Pull!AlignDown, P!Slots, Pull!Slots, P!NoTree, Pull!NoTree,
       P!Empty, Pull!Empty, P!Zeros, Pull!Zeros, P!NoPart, Pull!NoPart,
       P!PartStart, Pull!PartStart

LEMMA FilledAgrees ==
  \A ps, e, g, n : P!Filled(ps, e, g, n) = Pull!Filled(ps, e, g, n)
BY DEF P!Filled, Pull!Filled, P!Slots, Pull!Slots, P!Payload, Pull!Payload, P!Zeros, Pull!Zeros

LEMMA GroupAgrees ==
  ASSUME NEW ps, NEW e, NEW key
  PROVE  /\ P!Cleared(ps) = Pull!Cleared(ps)
         /\ P!GroupComplete(ps, e) = Pull!GroupComplete(ps, e)
         /\ P!GroupLength(ps) = Pull!GroupLength(ps)
         /\ P!Finalizable(ps) = Pull!Finalizable(ps)
         /\ P!GroupOutput(ps, e, key) = Pull!GroupOutput(ps, e, key)
<1>1. P!Cleared(ps) = Pull!Cleared(ps)
  BY DEF P!Cleared, Pull!Cleared, P!NoTree, Pull!NoTree, P!Slots, Pull!Slots, P!Empty, Pull!Empty
<1>2. P!GroupComplete(ps, e) = Pull!GroupComplete(ps, e)
  BY DEF P!GroupComplete, Pull!GroupComplete
<1>3. P!GroupLength(ps) = Pull!GroupLength(ps)
  BY DEF P!GroupLength, Pull!GroupLength, P!Lesser, Pull!Lesser
<1>4. P!Finalizable(ps) = Pull!Finalizable(ps)
  BY <1>3 DEF P!Finalizable, Pull!Finalizable, P!Empty, Pull!Empty
<1>5. P!GroupOutput(ps, e, key) = Pull!GroupOutput(ps, e, key)
  BY <1>3 DEF P!GroupOutput, Pull!GroupOutput, P!OutputFrom, Pull!OutputFrom
<1>. QED BY <1>1, <1>2, <1>3, <1>4, <1>5

LEMMA OrdersAgree ==
  ASSUME NEW ps, NEW rs
  PROVE  P!Orders(ps, rs) = Pull!Orders(ps, rs) /\ P!Orders(ps, rs) = Orders(ps, rs)
<1>1. P!Orders(ps, rs) = Pull!Orders(ps, rs)
  BY DEF P!Cardinality, Pull!Cardinality, Pull!Orders, Pull!Candidates, Pull!EntryAt,
         Pull!IsOrder, Pull!Before, Pull!StartKey, Pull!AlignDown, P!Orders, P!Candidates,
         P!EntryAt, P!IsOrder, P!Before, P!StartKey, P!AlignDown
<1>2. P!Orders(ps, rs) = Orders(ps, rs)
  BY DEF P!Cardinality, Cardinality, Orders, Candidates, EntryAt, IsOrder, Before, StartKey,
         AlignDown, P!Orders, P!Candidates, P!EntryAt, P!IsOrder, P!Before, P!StartKey,
         P!AlignDown
<1>. QED
  BY <1>1, <1>2

LEMMA EnterAgrees ==
  ASSUME NEW r, Pull!EnterRegion(r)
  PROVE  P!EnterRegion(r)
BY FormatAgrees, Zenon DEF P!EnterRegion, Pull!EnterRegion, P!IsNextBusy, Pull!IsNextBusy

LEMMA RefusalAgrees ==
  \A n, u : P!Refusal(n, u) = Pull!Refusal(n, u)
BY Zenon DEF P!Refusal, Pull!Refusal, P!RefusalIf, Pull!RefusalIf, P!CurrentGroup,
             Pull!CurrentGroup, P!Region, Pull!Region

LEMMA DecoderSteps ==
  ASSUME Pull!Next
  PROVE  P!Next
<1>1. CASE Pull!ReadHeader
  <2>1. P!ReadHeader
    BY <1>1, Zenon DEF P!ReadHeader, Pull!ReadHeader, P!loop, Pull!loop
  <2>. QED
    BY <2>1 DEF P!Next
<1>2. CASE Pull!ReadRawTable
  <2>1. P!ReadRawTable
    BY <1>2, Zenon DEF P!ReadRawTable, Pull!ReadRawTable, P!loop, Pull!loop
  <2>. QED
    BY <2>1 DEF P!Next
<1>3. CASE Pull!ReadGroupTable
  <2>1. P!Orders(dparts, draws) = Pull!Orders(dparts, draws)
    BY OrdersAgree
  <2>2. P!ReadGroupTable
    BY <1>3, <2>1, EnterAgrees, Zenon DEF P!ReadGroupTable, Pull!ReadGroupTable
  <2>. QED
    BY <2>2 DEF P!Next
<1>4. CASE Pull!RawGroup
  <2>1. P!RawGroup
    BY <1>4, FormatAgrees, EnterAgrees, RefusalAgrees, Zenon
       DEF P!RawGroup, Pull!RawGroup, P!Fails, Pull!Fails, P!loop, Pull!loop,
           P!CurrentGroup, Pull!CurrentGroup, P!Region, Pull!Region
  <2>. QED
    BY <2>1 DEF P!Next
<1>5. CASE Pull!PartGroup
  <2>1. P!PartGroup
    BY <1>5, FormatAgrees, EnterAgrees, RefusalAgrees, GroupAgrees, FilledAgrees, Zenon
       DEF P!PartGroup, Pull!PartGroup, P!Fails, Pull!Fails, P!loop, Pull!loop,
           P!CurrentGroup, Pull!CurrentGroup, P!Region, Pull!Region
  <2>. QED
    BY <2>1 DEF P!Next
<1>6. CASE Pull!ReadFails
  <2>1. P!ReadFails
    BY <1>6, Zenon DEF P!ReadFails, Pull!ReadFails, P!Fails, Pull!Fails, P!loop, Pull!loop,
                       P!CurrentGroup, Pull!CurrentGroup, P!Region, Pull!Region
  <2>. QED
    BY <2>1 DEF P!Next
<1>. QED
  BY <1>1, <1>2, <1>3, <1>4, <1>5, <1>6 DEF Pull!Next

-----------------------------------------------------------------------------
(* The decoder has not begun until the container is finished; it keeps its *)
(* own invariant.                                                          *)

LEMMA ContainersAgree ==
  P!Containers = Containers
BY DEF P!Containers, Containers, P!PartEntries, PartEntries, P!RawEntries, RawEntries,
       P!GroupEntries, GroupEntries

DInv ==
  /\ P!IInv
  /\ cmd \in {"appear", "encode"} => P!Init

LEMMA DecoderBegins == P!Init => P!IInv
BY P!InitIInv, ContainersAgree, FormatAssumption

LEMMA InitDInv ==
  ASSUME CliInit
  PROVE  DInv
<1>1. [parts |-> <<>>, raws |-> <<>>, groups |-> <<>>] \in Containers
  BY DEF Containers
<1>2. P!Init
  BY <1>1, FormatAgrees, Zenon DEF CliInit, P!Init
<1>3. P!IInv
  BY <1>2, DecoderBegins
<1>. QED
  BY <1>2, <1>3 DEF DInv

LEMMA EncodedIsContainer ==
  ASSUME IInv
  PROVE  Container \in Containers
<1>1. raws \in Seq(RawEntries) /\ parts \in Seq(PartEntries)
      /\ DOMAIN chunks = 1 .. Len(chunks) /\ Len(chunks) \in Nat
  BY LenProperties DEF IInv, Typed
<1>2. [zero |-> FALSE, bad |-> FALSE, ex |-> {}] \in GroupEntries
  BY DEF GroupEntries
<1>3. [n \in DOMAIN chunks |-> [zero |-> FALSE, bad |-> FALSE, ex |-> {}]] \in Seq(GroupEntries)
  BY <1>1, <1>2
<1>. QED
  BY <1>1, <1>3 DEF Container, Containers

LEMMA CommandKeepsDInv ==
  ASSUME WInv, DInv, [CliNext]_cliVars
  PROVE  DInv'
<1>1. CASE DecodeStep
  <2>1. P!Next /\ cmd' = "decode"
    BY <1>1, DecoderSteps DEF DecodeStep
  <2>2. P!IInv'
    BY <2>1, P!NextKeepsIInv, ContainersAgree, FormatAssumption DEF DInv
  <2>. QED
    BY <2>1, <2>2 DEF DInv
<1>2. CASE StartDecode
  <2>1. cmd' = "decode" /\ rvz' = Container /\ P!Init
        /\ UNCHANGED <<dpc, dparts, draws, dgroups, regions, regionIdx, i, buffers, writes, result>>
    BY <1>2, Zenon DEF StartDecode, DInv, Container
  <2>2. rvz' \in Containers
    BY <2>1, EncodedIsContainer DEF WInv
  <2>3. P!Init'
    BY <2>1, <2>2, Zenon DEF P!Init
  <2>4. P!IInv'
    BY <2>3, DecoderBegins, PTL
  <2>. QED
    BY <2>1, <2>4 DEF DInv
<1>3. CASE ~ DecodeStep /\ ~ StartDecode
  <2>1. UNCHANGED decoder /\ (cmd' = cmd \/ cmd' = "end" \/ cmd = "appear")
    BY <1>3 DEF CliNext, Command, AwaitFile, EncodeStep, StartToWait, Poll, ReadFails, PollFails, EncodePanics, EncodeFails,
       DecodeEnds, CreateFile, WriteFile, Tick, Stops, cliVars
  <2>2. UNCHANGED P!vars
    BY <2>1 DEF P!vars, decoder
  <2>3. P!IInv'
    BY <2>2, P!StutterKeepsIInv, ContainersAgree, FormatAssumption DEF DInv
  <2>4. P!Init => P!Init'
    BY <2>1, Zenon DEF P!Init, decoder
  <2>. QED
    BY <2>1, <2>3, <2>4 DEF DInv
<1>. QED
  BY <1>1, <1>2, <1>3

(* The invariants of the encoder and of the decoder hold as long as the    *)
(* command runs, though it ends the one and begins the other.              *)
THEOREM CommandInvariant == CliSpec => [](WInv /\ DInv)
<1>1. CliInit => WInv /\ DInv
  BY InitWInv, InitDInv
<1>2. WInv /\ DInv /\ [CliNext]_cliVars => WInv' /\ DInv'
  BY CommandKeepsWInv, CommandKeepsDInv
<1>. QED
  BY <1>1, <1>2, PTL DEF CliSpec

LEMMA OutputsAgree == P!OutputRecords = OutputRecords
BY DEF P!OutputRecords, OutputRecords, P!Sources, Sources, P!Slots, Slots, P!Empty, Empty,
       P!Zeros, Zeros

(* The state of the command, its reader and its decoder keeps its types,   *)
(* and so do the entries of the container that the encoder builds.         *)
THEOREM CommandTypeCorrect == CliSpec => []CliTypeOK
<1>1. WInv /\ DInv => CliTypeOK
  <2> SUFFICES ASSUME WInv, DInv PROVE CliTypeOK
    OBVIOUS
  <2>1. ClockTypes /\ parts \in Seq(PartEntries) /\ raws \in Seq(RawEntries)
    BY DEF WInv, IInv, Typed
  <2>2. P!TypeOK
    BY DEF DInv, P!IInv
  <2>3. rvz \in Containers /\ i \in Nat /\ writes \in Seq(OutputRecords)
    BY <2>2, OutputsAgree, Zenon DEF P!TypeOK
  <2>4. regionIdx \in 1 .. Len(regions) + 1 /\ Len(regions) \in Nat
    BY <2>2, LenProperties DEF P!TypeOK
  <2>5. regionIdx \in Nat
    BY <2>4
  <2>6. result \in {"", "ok", "BadHeader", "MissingGroup", "SizeMismatch", "BadRecord"}
    BY <2>2, Zenon DEF P!TypeOK
  <2>. QED
    BY <2>1, <2>3, <2>5, <2>6, Zenon DEF CliTypeOK, ClockTypes
<1>. QED
  BY <1>1, CommandInvariant, PTL
-----------------------------------------------------------------------------
(* What has been encoded is what is decoded: the invariants of the encoder *)
(* hold whatever the command does to it, and the container that the        *)
(* decoder has is the finished one.                                        *)

RoundTrip == cmd = "decode" \/ result = "ok" => pc = "done" /\ rvz = Container
OInv ==
  /\ WInv /\ DInv /\ CInv /\ PInv /\ AInv
  /\ P!RInv /\ P!Written /\ RoundTrip

LEMMA ChunksFill == P!ChunksFillGroups
BY EncoderAssumption DEF P!ChunksFillGroups

LEMMA DecoderFresh ==
  ASSUME P!Init
  PROVE  P!RInv /\ P!Written
BY DecoderBegins, P!InitWritten, ContainersAgree, FormatAssumption
   DEF P!RInv, P!Init, P!Running, P!Undecided, P!BufferExact

LEMMA InitOInv ==
  ASSUME CliInit
  PROVE  OInv
<1>1. WInv /\ DInv
  BY InitWInv, InitDInv
<1>2. cmd \in {"appear", "encode"} /\ result = ""
  BY Zenon DEF CliInit
<1>3. P!RInv /\ P!Written
  BY <1>1, <1>2, DecoderFresh DEF DInv
<1>4. Fresh
  <2>1. iso \in CutDiscs /\ iso.size \in Nat /\ available = (IF mode = "file" THEN iso.size ELSE 0)
    BY DiscsAreCut DEF CliInit
  <2>2. available \in 0 .. iso.size
    BY <2>1
  <2>. QED
    BY <2>1, <2>2 DEF CliInit, Fresh
<1>5. CInv /\ PInv /\ AInv
  BY <1>4, FreshCovers, FreshCounts, FreshApart
<1>6. RoundTrip
  <2>1. ~ (cmd = "decode") /\ ~ (result = "ok")
    BY <1>2
  <2>. QED
    BY <2>1 DEF RoundTrip
<1>. QED
  BY <1>1, <1>3, <1>5, <1>6 DEF OInv

LEMMA CommandKeepsOInv ==
  ASSUME CodeRanges, OInv, [CliNext]_cliVars
  PROVE  OInv'
<1>1. WInv' /\ DInv'
  BY CommandKeepsWInv, CommandKeepsDInv DEF OInv
<1>2. CInv' /\ PInv' /\ AInv'
  <2>1. CASE AwaitFile
    <3>1. Fresh /\ cmd = "appear"
      BY <2>1 DEF OInv, WInv, AwaitFile
    <3>2. Fresh'
      <4>1. CASE iso' = iso
        BY <2>1, <3>1, <4>1 DEF AwaitFile, Fresh, plan, allotted, cursor, stored, container
      <4>2. CASE iso' = [iso EXCEPT !.size = available, !.wii = @ /\ available >= DiscHeader]
        BY <2>1, <3>1, <4>2, CutKeepsFresh DEF AwaitFile
      <4>. QED
        BY <2>1, <4>1, <4>2 DEF AwaitFile
    <3>3. CInv'
      BY <3>2, FreshCovers, PTL
    <3>4. PInv'
      BY <3>2, FreshCounts, PTL
    <3>5. AInv'
      BY <3>2, FreshApart, PTL
    <3>. QED
      BY <3>3, <3>4, <3>5
  <2>2. CASE ~ AwaitFile
    <3>1. [Next]_vars
      BY <2>2, EncoderOfCommand DEF CliNext, OInv
    <3>. QED
      BY <3>1, NextCovers, NextCounts, NextApart DEF OInv, WInv
  <2>. QED
    BY <2>1, <2>2
<1>3. P!RInv' /\ P!Written'
  <2>1. CASE DecodeStep
    <3>1. P!Next
      BY <2>1, DecoderSteps DEF DecodeStep
    <3>. QED
      BY <3>1, P!StepStreams, P!StepWrites, ChunksFill, ContainersAgree, FormatAssumption DEF OInv
  <2>2. CASE StartDecode
    <3>1. cmd' = "decode" /\ rvz' = Container /\ P!Init
          /\ UNCHANGED <<dpc, dparts, draws, dgroups, regions, regionIdx, i, buffers, writes, result>>
      BY <2>2, Zenon DEF StartDecode, OInv, DInv, Container
    <3>2. rvz' \in Containers
      BY <3>1, EncodedIsContainer DEF OInv, WInv
    <3>3. P!Init'
      BY <3>1, <3>2, Zenon DEF P!Init
    <3>. QED
      BY <3>3, DecoderFresh, PTL
  <2>3. CASE ~ DecodeStep /\ ~ StartDecode
    <3>1. UNCHANGED decoder
      BY <2>3 DEF CliNext, Command, AwaitFile, EncodeStep, StartToWait, Poll, ReadFails, PollFails, EncodePanics, EncodeFails,
         DecodeEnds, CreateFile, WriteFile, Tick, cliVars
    <3>2. UNCHANGED P!vars
      BY <3>1 DEF P!vars, decoder
    <3>. QED
      BY <3>2, P!StepStreams, P!StepWrites, ChunksFill, ContainersAgree, FormatAssumption DEF OInv
  <2>. QED
    BY <2>1, <2>2, <2>3
<1>4. RoundTrip'
  <2>1. CASE DecodeStep
    <3>1. cmd = "decode" /\ UNCHANGED <<vars, rvz>>
      <4>1. rvz' = rvz
        BY <2>1, DecoderSteps DEF DecodeStep, P!Next, P!ReadHeader, P!ReadRawTable,
           P!ReadGroupTable, P!RawGroup, P!PartGroup, P!ReadFails, P!Fails
      <4>. QED
        BY <2>1, <4>1 DEF DecodeStep
    <3>. QED
      BY <3>1 DEF OInv, RoundTrip, Container, vars, allotted, stored
  <2>2. CASE StartDecode
    <3>1. pc = "done" /\ rvz' = Container /\ UNCHANGED vars
      BY <2>2, Zenon DEF StartDecode, Container
    <3>. QED
      BY <3>1 DEF RoundTrip, Container, vars, allotted, stored
  <2>3. CASE ~ DecodeStep /\ ~ StartDecode
    <3>1. UNCHANGED <<rvz, result>> /\ (cmd' = "decode" => cmd = "decode")
      BY <2>3 DEF CliNext, Command, AwaitFile, EncodeStep, StartToWait, Poll, ReadFails, PollFails, EncodePanics, EncodeFails,
         DecodeEnds, CreateFile, WriteFile, Tick, cliVars, Stops, decoder
    <3>2. ASSUME cmd' = "decode" \/ result' = "ok"
          PROVE  UNCHANGED <<pc, parts, raws, chunks>>
      <4>1. pc = "done"
        BY <3>1, <3>2 DEF OInv, RoundTrip
      <4>2. CASE AwaitFile
        BY <4>1, <4>2 DEF OInv, WInv, Fresh, AwaitFile
      <4>3. CASE ~ AwaitFile
        <5>1. [Next]_vars
          BY <4>3, EncoderOfCommand DEF CliNext, OInv
        <5>. QED
          BY <4>1, <5>1 DEF Next, Encode, Begin, Detect, SkipCandidate, ReachCandidate, ReachEnd,
             SetUp, ReadFst, CreateEntries, RawChunk, PartChunk, StoringRaw, StoringPart,
             WritePartTable, WriteRawTable, WriteGroupTable, WriteHeader, Grow, Fail, Stopped,
             vars, allotted, stored
      <4>. QED
        BY <4>2, <4>3
    <3>. QED
      BY <3>1, <3>2 DEF OInv, RoundTrip, Container
  <2>. QED
    BY <2>1, <2>2, <2>3
<1>. QED
  BY <1>1, <1>2, <1>3, <1>4 DEF OInv
-----------------------------------------------------------------------------
(* The decoder's own copies of the operators of the format mean the same.  *)
LEMMA TablesAgree ==
  ASSUME NEW f, NEW ps, NEW qs
  PROVE  (P!WellFormed(f) <=> WellFormed(f)) /\ P!Orders(ps, qs) = Orders(ps, qs)
<1>1. P!WellFormed(f) <=> WellFormed(f)
  BY DEF P!WellFormed, WellFormed, P!WellFormedEntry, WellFormedEntry, P!CeilDiv, CeilDiv,
         P!LogicalSize, LogicalSize, P!Chunk, Chunk
<1>2. P!Orders(ps, qs) = Orders(ps, qs)
  BY DEF P!Cardinality, Cardinality, P!Orders, Orders, P!Candidates, Candidates, P!EntryAt, EntryAt,
         P!IsOrder, IsOrder, P!Before, Before, P!StartKey, StartKey, P!AlignDown, AlignDown
<1>. QED
  BY <1>1, <1>2

LEMMA UnitsAgree ==
  ASSUME NEW e, NEW u, NEW gs
  PROVE  /\ P!UnitsOf(e) = UnitsOf(e) /\ P!UnitOutput(e, u, gs) = UnitOutput(e, u, gs)
         /\ P!UnitStart(e, u) = UnitStart(e, u) /\ P!RegionEnd(e) = RegionEnd(e)
         /\ P!StartKey(e) = StartKey(e)
<1>1. P!UnitsOf(e) = UnitsOf(e)
  BY DEF P!UnitsOf, UnitsOf, P!CeilDiv, CeilDiv
<1>2. P!GroupRecord(e, u, gs, NoKey) = GroupRecord(e, u, gs, NoKey)
  BY DEF P!GroupRecord, GroupRecord, P!RecordFrom, RecordFrom, P!Lesser, Lesser, P!Source, Source,
         P!Zeros, Zeros, P!Slots, Slots, P!Empty, Empty
<1>3. P!RawOutput(e, u, P!Source(gs, e.gi + u, 0)) = RawOutput(e, u, Source(gs, e.gi + u, 0))
  BY DEF P!RawOutput, RawOutput, P!Source, Source, P!Zeros, Zeros, P!AlignDown, AlignDown,
         P!Chunk, Chunk, P!Expected, Expected, P!LogicalSize, LogicalSize, P!Lesser, Lesser,
         P!NoTree, NoTree, P!Slots, Slots, P!Empty, Empty
<1>4. P!UnitOutput(e, u, gs) = UnitOutput(e, u, gs)
  BY <1>2, <1>3 DEF P!UnitOutput, UnitOutput
<1>5. P!UnitStart(e, u) = UnitStart(e, u) /\ P!RegionEnd(e) = RegionEnd(e)
      /\ P!StartKey(e) = StartKey(e)
  BY DEF P!UnitStart, UnitStart, P!RegionEnd, RegionEnd, P!StartKey, StartKey, P!AlignDown, AlignDown,
         P!Chunk, Chunk
<1>. QED
  BY <1>1, <1>4, <1>5

-----------------------------------------------------------------------------
(* What a decoding that succeeds has come to.                              *)

\* Everything of the regions has been written, and nothing else.
AllWritten ==
  /\ \A r \in DOMAIN regions : \A u \in 0 .. UnitsOf(regions[r]) - 1 :
       \E n \in DOMAIN writes : writes[n] = UnitOutput(regions[r], u, rvz.groups)
  /\ \A n \in DOMAIN writes : \E r \in DOMAIN regions : \E u \in 0 .. UnitsOf(regions[r]) - 1 :
       writes[n] = UnitOutput(regions[r], u, rvz.groups)
EndBefore(n) == IF n = 0 THEN 0 ELSE writes[n].offset + writes[n].len
AllInARow ==
  Seamless(regions) =>
    /\ \A n \in DOMAIN writes : writes[n].offset = EndBefore(n - 1)
    /\ EndBefore(Len(writes)) = IF regions = <<>> THEN 0 ELSE RegionEnd(regions[Len(regions)])

LEMMA Decoded ==
  ASSUME OInv, result = "ok"
  PROVE  /\ pc = "done" /\ rvz = Container /\ WellFormed(Container)
         /\ regions \in Orders(parts, raws) /\ AllWritten /\ AllInARow
<1>1. pc = "done" /\ rvz = Container
  BY DEF OInv, RoundTrip
<1>2. WellFormed(Container)
  BY <1>1, FinishedTables DEF FinishedIsWellFormed, OInv, WInv
<1>3. Container.parts = parts /\ Container.raws = raws
  BY DEF Container
<1>4. regions \in Orders(parts, raws)
  BY <1>1, <1>2, <1>3, TablesAgree DEF OInv, P!Written
<1>5. PICK l \in Nat : l = Len(regions) /\ DOMAIN regions = 1 .. l
  <2>1. parts \in Seq(PartEntries) /\ raws \in Seq(RawEntries)
    BY DEF OInv, WInv, IInv, Typed
  <2>2. regions \in Seq(PartEntries \cup RawEntries)
    BY <1>4, <2>1, OrdersType
  <2>. QED
    BY <2>2, LenProperties
<1>6. P!Position = <<l + 1, 0>>
  BY <1>5 DEF P!Position
<1>7. P!WrittenUpTo(regions, rvz.groups, writes, <<l + 1, 0>>)
  BY <1>1, <1>2, <1>6, TablesAgree DEF OInv, P!Written
<1>8. AllWritten
  <2>1. ASSUME NEW r \in DOMAIN regions, NEW u \in 0 .. UnitsOf(regions[r]) - 1
        PROVE  \E n \in DOMAIN writes : writes[n] = UnitOutput(regions[r], u, rvz.groups)
    <3>1. P!Behind(<<l + 1, 0>>, r, u)
      BY <1>5 DEF P!Behind
    <3>2. P!UnitsOf(regions[r]) = UnitsOf(regions[r])
          /\ P!UnitOutput(regions[r], u, rvz.groups) = UnitOutput(regions[r], u, rvz.groups)
      BY UnitsAgree
    <3>. QED
      BY <1>7, <3>1, <3>2 DEF P!WrittenUpTo, P!AllBehind
  <2>2. ASSUME NEW n \in DOMAIN writes
        PROVE  \E r \in DOMAIN regions : \E u \in 0 .. UnitsOf(regions[r]) - 1 :
                 writes[n] = UnitOutput(regions[r], u, rvz.groups)
    <3>1. PICK r \in DOMAIN regions : \E u \in 0 .. P!UnitsOf(regions[r]) - 1 :
            writes[n] = P!UnitOutput(regions[r], u, rvz.groups)
      BY <1>7 DEF P!WrittenUpTo, P!OnlyUnits, P!IsUnit
    <3>2. P!UnitsOf(regions[r]) = UnitsOf(regions[r])
          /\ \A u : P!UnitOutput(regions[r], u, rvz.groups) = UnitOutput(regions[r], u, rvz.groups)
      BY UnitsAgree
    <3>. QED
      BY <3>1, <3>2
  <2>. QED
    BY <2>1, <2>2 DEF AllWritten
<1>9. AllInARow
  <2>. SUFFICES ASSUME Seamless(regions)
                PROVE  /\ \A n \in DOMAIN writes : writes[n].offset = EndBefore(n - 1)
                       /\ EndBefore(Len(writes)) = IF regions = <<>> THEN 0 ELSE RegionEnd(regions[l])
    BY <1>5 DEF AllInARow
  <2>1. P!Seamless(regions)
    <3>1. ASSUME NEW r \in DOMAIN regions
          PROVE  P!UnitsOf(regions[r]) > 0
                 /\ P!StartKey(regions[r]) = IF r = 1 THEN 0 ELSE P!RegionEnd(regions[r - 1])
      <4>1. UnitsOf(regions[r]) > 0
            /\ StartKey(regions[r]) = IF r = 1 THEN 0 ELSE RegionEnd(regions[r - 1])
        BY DEF Seamless
      <4>2. P!UnitsOf(regions[r]) = UnitsOf(regions[r]) /\ P!StartKey(regions[r]) = StartKey(regions[r])
            /\ P!RegionEnd(regions[r - 1]) = RegionEnd(regions[r - 1])
        BY UnitsAgree
      <4>. QED
        BY <4>1, <4>2
    <3>. QED
      BY <3>1 DEF P!Seamless
  <2>2. /\ \A n \in DOMAIN writes : writes[n].offset = P!WrittenTo(writes, n - 1)
        /\ P!WrittenTo(writes, Len(writes)) = P!Reached(regions, <<l + 1, 0>>)
    BY <1>7, <2>1 DEF P!WrittenUpTo, P!InARow
  <2>3. \A n : P!WrittenTo(writes, n) = EndBefore(n)
    BY DEF P!WrittenTo, EndBefore
  <2>4. P!Reached(regions, <<l + 1, 0>>) = IF regions = <<>> THEN 0 ELSE RegionEnd(regions[l])
    <3>1. ~ (l + 1 \in DOMAIN regions)
      BY <1>5
    <3>2. P!RegionEnd(regions[l]) = RegionEnd(regions[l])
      BY UnitsAgree
    <3>. QED
      BY <1>5, <3>1, <3>2 DEF P!Reached
  <2>. QED
    BY <2>2, <2>3, <2>4
<1>. QED
  BY <1>1, <1>2, <1>4, <1>8, <1>9

-----------------------------------------------------------------------------
(* A chunk lies inside the region whose entry claims its group.            *)
LEMMA RawChunkInside ==
  ASSUME NEW e \in RawEntries, e.ng = CeilDiv(LogicalSize(e), Chunk), NEW c \in 0 .. e.ng - 1
  PROVE  LET o == RawOutput(e, c, Zeros)
         IN  o.offset \in Nat /\ o.len \in Nat /\ StartKey(e) <= o.offset
             /\ o.offset + o.len <= RegionEnd(e)
<1>1. PICK o, s, n \in Nat : /\ o = e.offset /\ s = e.size /\ n = LogicalSize(e)
                             /\ e.kind = "raw" /\ AlignDown(o) \in Nat /\ AlignDown(o) + n = o + s
  <2>1. e.offset \in Nat /\ e.size \in Nat /\ e.kind = "raw"
    BY RawEntryTypes
  <2>2. PICK r, a \in Nat : r = e.offset % Block /\ a = AlignDown(e.offset) /\ a + r = e.offset
    BY <2>1, AlignDownBelow
  <2>. QED
    BY <2>1, <2>2 DEF LogicalSize
<1>2. c \in Nat /\ c < CeilDiv(n, Chunk) /\ Chunk \in Nat \ {0}
  BY <1>1, RawEntryTypes, ConstantTypes
<1>3. c * Chunk \in Nat /\ Expected(n, c, Chunk) \in Nat /\ c * Chunk + Expected(n, c, Chunk) <= n
  BY <1>2, UnitEnd
<1>4. /\ RawOutput(e, c, Zeros).offset = AlignDown(o) + c * Chunk
      /\ RawOutput(e, c, Zeros).len = Expected(n, c, Chunk)
      /\ StartKey(e) = AlignDown(o) /\ RegionEnd(e) = o + s
  BY <1>1 DEF RawOutput, StartKey, RegionEnd
<1>. QED
  BY <1>1, <1>3, <1>4

LEMMA PartChunkInside ==
  ASSUME NEW e \in PartEntries, e.ng = CeilDiv(e.ns, ChunkBlocks), NEW c \in 0 .. e.ng - 1
  PROVE  LET from == (e.fs + c * ChunkBlocks) * Block
             size == Expected(e.ns, c, ChunkBlocks) * Block
         IN  from \in Nat /\ size \in Nat /\ StartKey(e) <= from /\ from + size <= RegionEnd(e)
             /\ e.ns > 0
<1>1. PICK f, n, b \in Nat : f = e.fs /\ n = e.ns /\ b = Block /\ e.kind = "part"
  BY PartEntryTypes, ConstantTypes
<1>2. c \in Nat /\ c < CeilDiv(n, ChunkBlocks) /\ ChunkBlocks \in Nat \ {0}
  BY <1>1, PartEntryTypes, ConstantTypes
<1>3. PICK d, l \in Nat : d = c * ChunkBlocks /\ l = Expected(n, c, ChunkBlocks) /\ d + l <= n /\ d < n
  BY <1>2, UnitEnd
<1>4. (f + d) * b \in Nat /\ l * b \in Nat /\ (f + d) * b + l * b = (f + d + l) * b
  BY <1>1, <1>3, BlocksAdd
<1>5. f * b <= (f + d) * b /\ (f + d + l) * b <= (f + n) * b
  BY <1>1, <1>3, BlocksMonotone
<1>6. StartKey(e) = f * b /\ RegionEnd(e) = (f + n) * b /\ n > 0
  BY <1>1, <1>3 DEF StartKey, RegionEnd
<1>7. f * b \in Nat /\ (f + n) * b \in Nat /\ (f + d + l) * b \in Nat
  BY <1>1, <1>3
<1>. QED
  BY <1>1, <1>3, <1>4, <1>5, <1>6, <1>7

\* What the encoder has to show for itself when it is done.
LEMMA EncodedBooks ==
  ASSUME OInv, pc = "done"
  PROVE  /\ parts \in Seq(PartEntries) /\ raws \in Seq(RawEntries) /\ chunks \in Seq(Stored)
         /\ groupIndex = Len(chunks) /\ iso.size \in Nat /\ DiscHeader \in Nat
         /\ \A n \in DOMAIN raws : /\ raws[n] \in RawEntries /\ raws[n].size > 0
                                   /\ raws[n].ng = CeilDiv(LogicalSize(raws[n]), Chunk)
                                   /\ raws[n].gi + raws[n].ng <= Len(chunks) /\ RawNamed(raws[n])
         /\ \A n \in DOMAIN parts : /\ parts[n] \in PartEntries
                                    /\ parts[n].ng = CeilDiv(parts[n].ns, ChunkBlocks)
                                    /\ parts[n].gi + parts[n].ng <= Len(chunks) /\ PartNamed(parts[n])
<1>1. IInv /\ AInv
  BY DEF OInv, WInv
<1>2. Balanced /\ RawShape /\ PartShape /\ EntriesNameTheirChunks
      /\ raws \in Seq(RawEntries) /\ parts \in Seq(PartEntries) /\ chunks \in Seq(Stored)
  BY <1>1, LedgerIdle DEF IInv, Typed, Idle, Stored
<1>3. iso.size \in Nat /\ DiscHeader \in Nat
  BY <1>1, DiscTypes, EncoderAssumption DEF IInv, Typed
<1>4. ASSUME NEW n \in DOMAIN raws
      PROVE  /\ raws[n] \in RawEntries /\ raws[n].size > 0
             /\ raws[n].ng = CeilDiv(LogicalSize(raws[n]), Chunk)
             /\ raws[n].gi + raws[n].ng <= Len(chunks) /\ RawNamed(raws[n])
  BY <1>1, <1>2, ElementOfSeq
     DEF Balanced, SettledBut, Settled, RawShape, EntriesNameTheirChunks, AInv
<1>5. ASSUME NEW n \in DOMAIN parts
      PROVE  /\ parts[n] \in PartEntries
             /\ parts[n].ng = CeilDiv(parts[n].ns, ChunkBlocks)
             /\ parts[n].gi + parts[n].ng <= Len(chunks) /\ PartNamed(parts[n])
  BY <1>1, <1>2, ElementOfSeq
     DEF Balanced, SettledBut, Settled, PartShape, EntriesNameTheirChunks
<1>. QED
  BY <1>2, <1>3, <1>4, <1>5 DEF Balanced

\* The regions leave no byte of the disc out.
LEMMA RegionsCover ==
  ASSUME OInv, result = "ok", iso.size > DiscHeader, NEW x \in 0 .. iso.size - 1
  PROVE  \E r \in DOMAIN regions : StartKey(regions[r]) <= x /\ x < RegionEnd(regions[r])
<1>1. pc = "done" /\ regions \in Orders(parts, raws)
  BY Decoded
<1>2. PICK l \in Nat : /\ l = Len(chunks) /\ groupIndex = l /\ DOMAIN chunks = 1 .. l
                       /\ parts \in Seq(PartEntries) /\ raws \in Seq(RawEntries)
  BY <1>1, EncodedBooks, LenProperties
<1>3. ReachOf(chunks, iso.size)
  BY <1>1 DEF OInv, CInv, WalkFront, ReachIf
<1>4. PICK n \in 1 .. l : chunks[n].from <= x /\ x < chunks[n].from + chunks[n].size
  BY <1>2, <1>3 DEF ReachOf
<1>5. n - 1 \in 0 .. groupIndex - 1
  BY <1>2
<1>6. Claims(raws, n - 1) \/ Claims(parts, n - 1)
  BY <1>5 DEF OInv, AInv, AllClaimed
<1>7. CASE Claims(raws, n - 1)
  <2>1. PICK m \in DOMAIN raws : raws[m].gi <= n - 1 /\ n - 1 < raws[m].gi + raws[m].ng
    BY <1>7 DEF Claims
  <2>2. /\ raws[m] \in RawEntries /\ raws[m].ng = CeilDiv(LogicalSize(raws[m]), Chunk)
        /\ RawNamed(raws[m]) /\ raws[m].gi \in Nat /\ raws[m].ng \in Nat
    BY <1>1, EncodedBooks, RawEntryTypes
  <2>3. PICK c \in 0 .. raws[m].ng - 1 : raws[m].gi + c = n - 1
    <3>1. n - 1 - raws[m].gi \in 0 .. raws[m].ng - 1
      BY <2>1, <2>2
    <3>. QED
      BY <2>2, <3>1
  <2>4. raws[m].gi + c + 1 = n /\ raws[m].gi + c < Len(chunks)
    BY <1>2, <2>2, <2>3
  <2>5. chunks[n].from = RawOutput(raws[m], c, Zeros).offset
        /\ chunks[n].size = RawOutput(raws[m], c, Zeros).len
    BY <2>2, <2>4 DEF RawNamed, HasChunk, ChunkOf
  <2>6. /\ RawOutput(raws[m], c, Zeros).offset \in Nat /\ RawOutput(raws[m], c, Zeros).len \in Nat
        /\ StartKey(raws[m]) <= RawOutput(raws[m], c, Zeros).offset
        /\ RawOutput(raws[m], c, Zeros).offset + RawOutput(raws[m], c, Zeros).len <= RegionEnd(raws[m])
    BY <2>2, RawChunkInside
  <2>7. StartKey(raws[m]) \in Nat /\ RegionEnd(raws[m]) \in Nat
    BY <2>2, RegionTypes DEF Regions
  <2>8. StartKey(raws[m]) <= x /\ x < RegionEnd(raws[m])
    BY <1>4, <2>5, <2>6, <2>7
  <2>9. \E r \in DOMAIN regions : regions[r] = raws[m]
    BY <1>1, <1>2, RegionsAreEntries
  <2>. QED
    BY <2>8, <2>9
<1>8. CASE Claims(parts, n - 1)
  <2>1. PICK m \in DOMAIN parts : parts[m].gi <= n - 1 /\ n - 1 < parts[m].gi + parts[m].ng
    BY <1>8 DEF Claims
  <2>2. /\ parts[m] \in PartEntries /\ parts[m].ng = CeilDiv(parts[m].ns, ChunkBlocks)
        /\ PartNamed(parts[m]) /\ parts[m].gi \in Nat /\ parts[m].ng \in Nat /\ parts[m].ns \in Nat
    BY <1>1, EncodedBooks, PartEntryTypes
  <2>3. PICK c \in 0 .. parts[m].ng - 1 : parts[m].gi + c = n - 1
    <3>1. n - 1 - parts[m].gi \in 0 .. parts[m].ng - 1
      BY <2>1, <2>2
    <3>. QED
      BY <2>2, <3>1
  <2>4. parts[m].gi + c + 1 = n /\ parts[m].gi + c < Len(chunks)
    BY <1>2, <2>2, <2>3
  <2>5. PICK from, size : /\ from = (parts[m].fs + c * ChunkBlocks) * Block
                          /\ size = Expected(parts[m].ns, c, ChunkBlocks) * Block
    OBVIOUS
  <2>6. chunks[n].from = from /\ chunks[n].size = size
    BY <2>2, <2>4, <2>5 DEF PartNamed, HasChunk, ChunkOf
  <2>7. /\ from \in Nat /\ size \in Nat /\ StartKey(parts[m]) <= from
        /\ from + size <= RegionEnd(parts[m]) /\ parts[m].ns > 0
    BY <2>2, <2>5, PartChunkInside
  <2>8. StartKey(parts[m]) \in Nat /\ RegionEnd(parts[m]) \in Nat
    BY <2>2, RegionTypes DEF Regions
  <2>9. StartKey(parts[m]) <= x /\ x < RegionEnd(parts[m])
    BY <1>4, <2>6, <2>7, <2>8
  <2>10. \E r \in DOMAIN regions : regions[r] = parts[m]
    BY <1>1, <1>2, <2>2, <2>7, RegionsAreEntries
  <2>. QED
    BY <2>9, <2>10
<1>. QED
  BY <1>6, <1>7, <1>8

-----------------------------------------------------------------------------
\* The regions that have been decoded, with what is known of them.
LEMMA RegionsKnown ==
  ASSUME OInv, result = "ok"
  PROVE  \A r \in DOMAIN regions :
           /\ regions[r] \in RegionEntries /\ WellFormedEntry(regions[r], rvz.groups)
           /\ UnitsOf(regions[r]) \in Nat
<1>1. rvz = Container /\ WellFormed(Container) /\ regions \in Orders(parts, raws)
  BY Decoded
<1>2. Container \in Containers /\ Container.parts = parts /\ Container.raws = raws
  BY EncodedIsContainer DEF OInv, WInv, Container
<1>3. AllWellFormed(regions, rvz.groups)
  BY <1>1, <1>2, OrdersWellFormed
<1>4. regions \in Seq(RegionEntries)
  BY <1>1, <1>2, OrdersType DEF Containers, RegionEntries
<1>5. ASSUME NEW r \in DOMAIN regions
      PROVE  regions[r] \in RegionEntries /\ WellFormedEntry(regions[r], rvz.groups)
  BY <1>3, <1>4, ElementOfSeq DEF AllWellFormed
<1>. QED
  BY <1>5, UnitsNumber

\* No byte of the disc is left unwritten.
LEMMA BytesWritten ==
  ASSUME OInv, result = "ok", iso.size > DiscHeader, NEW x \in 0 .. iso.size - 1
  PROVE  \E n \in DOMAIN writes : writes[n].offset <= x /\ x < writes[n].offset + writes[n].len
<1>1. PICK r \in DOMAIN regions : StartKey(regions[r]) <= x /\ x < RegionEnd(regions[r])
  BY RegionsCover
<1>2. PICK e : e = regions[r]
  OBVIOUS
<1>3. e \in RegionEntries /\ WellFormedEntry(e, rvz.groups) /\ x \in Nat
  BY <1>2, RegionsKnown
<1>4. PICK u \in 0 .. UnitsOf(e) - 1 :
        /\ UnitOutput(e, u, rvz.groups).offset <= x
        /\ x < UnitOutput(e, u, rvz.groups).offset + UnitOutput(e, u, rvz.groups).len
  BY <1>1, <1>2, <1>3, UnitCovers
<1>5. PICK n \in DOMAIN writes : writes[n] = UnitOutput(e, u, rvz.groups)
  BY <1>2, Decoded DEF AllWritten
<1>. QED
  BY <1>4, <1>5

-----------------------------------------------------------------------------
\* Nothing that the encoder has stored is an all-zero chunk.
LEMMA GroupsStored ==
  ASSUME NEW g \in Nat, NEW b, g < Len(chunks), chunks \in Seq(Stored)
  PROVE  Source(Container.groups, g, b) = <<g, b>>
<1>1. g + 1 \in DOMAIN chunks
  BY LenProperties
<1>2. Container.groups[g + 1].zero = FALSE
  BY <1>1 DEF Container
<1>. QED
  BY <1>2 DEF Source

LEMMA PartsOfRaw ==
  ASSUME NEW e, NEW u, NEW src
  PROVE  LET o == RawOutput(e, u, src)
         IN  /\ o.tree = NoTree /\ o.offset = RawOutput(e, u, Zeros).offset
             /\ o.blocks = <<[src |-> src, ex |-> {}]>>
BY DEF RawOutput

LEMMA RawIsFaithful ==
  ASSUME OInv, pc = "done", NEW m \in DOMAIN raws, NEW u \in 0 .. UnitsOf(raws[m]) - 1
  PROVE  Faithful(UnitOutput(raws[m], u, Container.groups))
<1> DEFINE e == raws[m]
           w == UnitOutput(e, u, Container.groups)
<1>1. /\ e \in RawEntries /\ RawNamed(e) /\ e.gi \in Nat /\ e.ng \in Nat /\ e.kind = "raw"
      /\ e.gi + e.ng <= Len(chunks) /\ chunks \in Seq(Stored) /\ e.ng = CeilDiv(LogicalSize(e), Chunk)
  BY EncodedBooks, RawEntryTypes
<1>2. u \in 0 .. e.ng - 1 /\ u \in Nat
  BY <1>1 DEF UnitsOf
<1>3. e.gi + u \in Nat /\ e.gi + u < Len(chunks)
  BY <1>1, <1>2, LenProperties
<1>4. Source(Container.groups, e.gi + u, 0) = <<e.gi + u, 0>>
  BY <1>1, <1>3, GroupsStored
<1>5. w = RawOutput(e, u, <<e.gi + u, 0>>)
  BY <1>1, <1>4 DEF UnitOutput
<1>6. w.tree = NoTree /\ w.blocks = <<[src |-> <<e.gi + u, 0>>, ex |-> {}]>>
      /\ w.offset = RawOutput(e, u, Zeros).offset
  BY <1>5, PartsOfRaw
<1>7. chunks[e.gi + u + 1].from = RawOutput(e, u, Zeros).offset
  BY <1>1, <1>2, <1>3 DEF RawNamed, HasChunk, ChunkOf
<1>8. RawOutput(e, u, Zeros).offset \in Nat /\ Block \in Nat
  BY <1>1, <1>2, RawChunkInside, ConstantTypes
<1> HIDE DEF w, e
<1>9. ASSUME NEW b \in DOMAIN w.blocks
      PROVE  PlaceOf(w.blocks[b].src) = w.offset + (b - 1) * Block
  <2>1. b = 1 /\ w.blocks[b].src = <<e.gi + u, 0>>
    BY <1>6
  <2>2. PlaceOf(<<e.gi + u, 0>>) = chunks[e.gi + u + 1].from + 0 * Block
    BY DEF PlaceOf
  <2>3. 0 * Block = 0 /\ (b - 1) * Block = 0
    BY <1>8, <2>1
  <2>. QED
    BY <1>6, <1>7, <1>8, <2>1, <2>2, <2>3
<1>10. Faithful(w)
  BY <1>6, <1>9 DEF Faithful
<1>. QED
  BY <1>10 DEF w, e

-----------------------------------------------------------------------------
LEMMA WholeDiv ==
  ASSUME NEW a \in Nat, NEW d \in Nat \ {0}
  PROVE  (a * d) \div d = a
<1>1. PICK x \in Nat : x = a * d
  OBVIOUS
<1>2. PICK q \in Nat, r \in 0 .. d - 1 : q = x \div d /\ x = d * q + r
  BY DivMod
<1>3. d * q + r = d * a + 0 /\ 0 \in 0 .. d - 1
  BY <1>1, <1>2
<1>4. q = a
  BY <1>2, <1>3, DivModUnique
<1>. QED
  BY <1>1, <1>2, <1>4

\* Which data entry a place on the disc is in, and which blocks its hash
\* group has.
LEMMA GroupHashed ==
  ASSUME parts \in Seq(PartEntries), InOrder(parts), NEW m \in DOMAIN parts,
         NEW u \in Nat, u * GroupBlocks < parts[m].ns
  PROVE  LET e == parts[m]
             first == e.fs + u * GroupBlocks
         IN  HashedWith(first * Block)
               = {b \in first .. e.fs + e.ns - 1 : b < first + GroupBlocks}
<1>1. PICK e \in PartEntries : e = parts[m]
  BY ElementOfSeq
<1>2. PICK f, n, y \in Nat : f = e.fs /\ n = e.ns /\ y = u * GroupBlocks /\ y < n
  BY <1>1, ConstantTypes, PartEntryTypes
<1>3. Block \in Nat \ {0} /\ GroupBlocks \in Nat \ {0}
  BY ConstantTypes
<1> DEFINE from == (f + y) * Block
           In(d) == d.fs * Block <= from /\ from < (d.fs + d.ns) * Block
           S == {parts[x] : x \in DOMAIN parts}
<1>4. In(e)
  <2>1. PICK z, b, end \in Nat : z = f + y /\ b = Block /\ end = f + n /\ b > 0 /\ z + 1 <= end /\ f <= z
    <3>1. f + y \in Nat /\ f + n \in Nat /\ f + y + 1 <= f + n /\ f <= f + y
      BY <1>2
    <3>. QED
      BY <1>3, <3>1
  <2>2. f * b <= z * b /\ (z + 1) * b <= end * b
    BY <2>1, BlocksMonotone
  <2>3. (z + 1) * b = z * b + b /\ z * b \in Nat /\ f * b \in Nat /\ end * b \in Nat
    BY <2>1
  <2>4. f * b <= z * b /\ z * b < end * b
    BY <2>1, <2>2, <2>3
  <2>. QED
    BY <1>2, <2>1, <2>4
<1>5. ASSUME NEW x \in DOMAIN parts, In(parts[x])
      PROVE  x = m
  <2>1. DOMAIN parts = 1 .. Len(parts) /\ Len(parts) \in Nat
    BY LenProperties
  <2>2. ASSUME NEW p \in DOMAIN parts
        PROVE  /\ parts[p] \in PartEntries
               /\ StartKey(parts[p]) = parts[p].fs * Block
               /\ RegionEnd(parts[p]) = (parts[p].fs + parts[p].ns) * Block
               /\ StartKey(parts[p]) \in Nat /\ RegionEnd(parts[p]) \in Nat
    <3>1. parts[p] \in PartEntries
      BY ElementOfSeq
    <3>2. parts[p].kind = "part"
      BY <3>1, PartEntryTypes
    <3>. QED
      BY <3>1, <3>2, RegionTypes DEF StartKey, RegionEnd, Regions
  <2>3. from \in Nat
    <3>1. PICK z, b \in Nat : z = f + y /\ b = Block
      BY <1>2, <1>3
    <3>2. z * b \in Nat
      OBVIOUS
    <3>. QED
      BY <3>1, <3>2
  <2> HIDE DEF from
  <2>4. /\ StartKey(parts[x]) <= from /\ from < RegionEnd(parts[x])
        /\ StartKey(parts[m]) <= from /\ from < RegionEnd(parts[m])
    BY <1>1, <1>4, <1>5, <2>2
  <2>5. ~ (x < m)
    <3>1. x < m => RegionEnd(parts[x]) <= StartKey(parts[m])
      BY DEF InOrder
    <3>. QED
      BY <2>2, <2>3, <2>4, <3>1
  <2>6. ~ (m < x)
    <3>1. m < x => RegionEnd(parts[m]) <= StartKey(parts[x])
      BY DEF InOrder
    <3>. QED
      BY <2>2, <2>3, <2>4, <3>1
  <2>. QED
    BY <2>1, <2>5, <2>6
<1>6. (CHOOSE d \in S : In(d)) = e
  <2>1. e \in S /\ \A d \in S : In(d) => d = e
    BY <1>1, <1>5
  <2>. HIDE DEF S, In
  <2>. QED
    BY <1>4, <2>1
<1>7. from \div Block = f + y
  <2>1. f + y \in Nat
    BY <1>2
  <2>. QED
    BY <1>3, <2>1, WholeDiv
<1>8. (f + y) - f = y /\ (y \div GroupBlocks) * GroupBlocks = y
  BY <1>2, <1>3, WholeDiv
<1>9. HashedWith(from)
        = LET first == (((from \div Block) - e.fs) \div GroupBlocks) * GroupBlocks
          IN  {b \in e.fs + first .. e.fs + e.ns - 1 : b < e.fs + first + GroupBlocks}
  BY <1>6 DEF HashedWith
<1>10. ((from \div Block) - e.fs) \div GroupBlocks = y \div GroupBlocks
  BY <1>2, <1>7, <1>8
<1> HIDE DEF from
<1>11. HashedWith(from) = {b \in e.fs + y .. e.fs + e.ns - 1 : b < e.fs + y + GroupBlocks}
  BY <1>8, <1>9, <1>10
<1>. QED
  BY <1>1, <1>2, <1>11 DEF from

-----------------------------------------------------------------------------
\* Block j of a data entry is where its chunk has it.
LEMMA BlockPlaced ==
  ASSUME OInv, pc = "done", NEW m \in DOMAIN parts, NEW j \in Nat, j < parts[m].ns
  PROVE  LET e == parts[m]
             src == Source(Container.groups, e.gi + j \div ChunkBlocks, j % ChunkBlocks)
         IN  /\ src = <<e.gi + j \div ChunkBlocks, j % ChunkBlocks>>
             /\ PlaceOf(src) = (e.fs + j) * Block
<1>1. PICK e \in PartEntries : e = parts[m]
  BY EncodedBooks
<1>2. /\ e.ng = CeilDiv(e.ns, ChunkBlocks) /\ PartNamed(e) /\ e.gi + e.ng <= Len(chunks)
      /\ chunks \in Seq(Stored)
  BY <1>1, EncodedBooks
<1>3. PICK f, n, g, o \in Nat : f = e.fs /\ n = e.ns /\ g = e.ng /\ o = e.gi
  BY PartEntryTypes
<1>4. Block \in Nat \ {0} /\ ChunkBlocks \in Nat \ {0}
  BY ConstantTypes
<1>5. PICK c, d \in Nat : c = j \div ChunkBlocks /\ d = j % ChunkBlocks /\ j = ChunkBlocks * c + d
  <2>1. /\ j = ChunkBlocks * (j \div ChunkBlocks) + (j % ChunkBlocks)
        /\ j % ChunkBlocks \in 0 .. ChunkBlocks - 1 /\ j \div ChunkBlocks \in Nat
    BY <1>4, DivMod
  <2>2. j % ChunkBlocks \in Nat
    BY <1>4, <2>1
  <2>. QED
    BY <2>1, <2>2
<1>6. PICK y \in Nat : y = c * ChunkBlocks /\ j = y + d
  <2>1. c * ChunkBlocks \in Nat /\ j = c * ChunkBlocks + d
    BY <1>4, <1>5
  <2>. QED
    BY <2>1
<1>7. c < g
  <2>1. c * ChunkBlocks < n
    BY <1>1, <1>3, <1>6
  <2>2. c < CeilDiv(n, ChunkBlocks)
    BY <1>4, <2>1, CeilDivUnit
  <2>. QED
    BY <1>2, <1>3, <2>2
<1>8. c \in 0 .. e.ng - 1 /\ e.gi + c \in Nat /\ e.gi + c < Len(chunks)
  BY <1>2, <1>3, <1>7, LenProperties
<1>9. chunks[e.gi + c + 1].from = (e.fs + c * ChunkBlocks) * Block
  BY <1>2, <1>8 DEF PartNamed, HasChunk, ChunkOf
<1>10. Source(Container.groups, e.gi + c, d) = <<e.gi + c, d>>
  BY <1>2, <1>8, GroupsStored
<1>11. PlaceOf(<<e.gi + c, d>>) = chunks[e.gi + c + 1].from + d * Block
  BY DEF PlaceOf
<1>12. (f + y) * Block + d * Block = (f + j) * Block
  <2>1. (f + y) + d = f + j
    BY <1>3, <1>6
  <2>. QED
    BY <1>3, <1>4, <1>5, <1>6, <2>1, BlocksAdd
<1>. QED
  BY <1>1, <1>3, <1>5, <1>6, <1>9, <1>10, <1>11, <1>12

-----------------------------------------------------------------------------
\* What a hash group of a region has in its record.
LEMMA PartsOfRecord ==
  ASSUME NEW e, NEW first, NEW n, NEW gs, NEW key
  PROVE  LET w == RecordFrom(e, first, n, gs, key)
             src(b) == Source(gs, e.gi + (first + b) \div ChunkBlocks, (first + b) % ChunkBlocks)
         IN  /\ w.offset = (e.fs + first) * Block
             /\ DOMAIN w.blocks = 1 .. n /\ \A b \in 1 .. n : w.blocks[b].src = src(b - 1)
             /\ \A s \in Slots : w.tree[s] = IF s < n THEN src(s) ELSE Empty
BY DEF RecordFrom

LEMMA PartIsFaithful ==
  ASSUME OInv, pc = "done", NEW m \in DOMAIN parts, NEW u \in 0 .. UnitsOf(parts[m]) - 1
  PROVE  Faithful(UnitOutput(parts[m], u, Container.groups))
<1>1. PICK e \in PartEntries : e = parts[m]
  BY EncodedBooks
<1>2. PICK f, ns, y, g, b \in Nat :
        f = e.fs /\ ns = e.ns /\ y = u * GroupBlocks /\ y < ns /\ g = GroupBlocks /\ b = Block
        /\ g > 0 /\ b > 0
  <2>1. e.kind = "part" /\ e.fs \in Nat /\ e.ns \in Nat
    BY PartEntryTypes
  <2>2. u < CeilDiv(e.ns, GroupBlocks) /\ u \in Nat /\ GroupBlocks \in Nat \ {0} /\ Block \in Nat \ {0}
    <3>1. UnitsOf(e) = CeilDiv(e.ns, GroupBlocks) /\ CeilDiv(e.ns, GroupBlocks) \in Nat
          /\ GroupBlocks \in Nat \ {0} /\ Block \in Nat \ {0}
      BY <2>1, ConstantTypes, CeilDivBounds DEF UnitsOf
    <3>. QED
      BY <1>1, <3>1
  <2>3. u * GroupBlocks < e.ns /\ u * GroupBlocks \in Nat
    BY <2>1, <2>2, CeilDivUnit
  <2>. QED
    BY <2>1, <2>2, <2>3
<1>3. PICK n \in Nat : n = Lesser(g, ns - y) /\ n > 0 /\ n <= g /\ y + n <= ns
                       /\ (n = g \/ y + n = ns)
  BY <1>2 DEF Lesser
<1> DEFINE gs == Container.groups
           w == RecordFrom(e, y, n, gs, NoKey)
           src(s) == Source(gs, e.gi + (y + s) \div ChunkBlocks, (y + s) % ChunkBlocks)
<1>4. UnitOutput(parts[m], u, gs) = w
  <2>1. e.kind = "part"
    BY PartEntryTypes
  <2>. QED
    BY <1>1, <1>2, <1>3, <2>1 DEF UnitOutput, GroupRecord
<1>5. ASSUME NEW s \in 0 .. n - 1
      PROVE  /\ src(s) # Empty /\ PlaceOf(src(s)) = (f + y + s) * b
  <2>1. PICK j \in Nat : j = y + s /\ j < ns
    <3>1. y + s \in Nat /\ y + s < ns
      BY <1>3, <1>2
    <3>. QED
      BY <3>1
  <2>2. /\ Source(gs, e.gi + j \div ChunkBlocks, j % ChunkBlocks)
             = <<e.gi + j \div ChunkBlocks, j % ChunkBlocks>>
        /\ PlaceOf(Source(gs, e.gi + j \div ChunkBlocks, j % ChunkBlocks)) = (e.fs + j) * Block
    BY <1>1, <1>2, <2>1, BlockPlaced
  <2>3. src(s) = Source(gs, e.gi + j \div ChunkBlocks, j % ChunkBlocks)
    BY <2>1
  <2>4. f + j = f + y + s
    BY <1>2, <2>1
  <2>5. <<e.gi + j \div ChunkBlocks, j % ChunkBlocks>> # Empty
    BY DEF Empty
  <2>. QED
    BY <1>2, <2>2, <2>3, <2>4, <2>5
<1>6. /\ w.offset = (f + y) * b
      /\ DOMAIN w.blocks = 1 .. n /\ \A x \in 1 .. n : w.blocks[x].src = src(x - 1)
      /\ \A s \in Slots : w.tree[s] = IF s < n THEN src(s) ELSE Empty
  BY <1>2, PartsOfRecord
<1> HIDE DEF src, w, gs
<1>7. ASSUME NEW x \in DOMAIN w.blocks
      PROVE  PlaceOf(w.blocks[x].src) = w.offset + (x - 1) * Block
  <2>1. PICK s \in 0 .. n - 1 : s = x - 1 /\ x \in 1 .. n
    BY <1>6
  <2>2. PlaceOf(w.blocks[x].src) = (f + y + s) * b
    BY <1>5, <1>6, <2>1
  <2>3. (f + y) * b + s * b = (f + y + s) * b
    <3>1. f + y \in Nat /\ s \in Nat
      BY <1>2
    <3>. QED
      BY <1>2, <3>1, BlocksAdd
  <2>. QED
    BY <1>2, <1>6, <2>1, <2>2, <2>3
<1> DEFINE T == {f + y + s : s \in 0 .. n - 1}
<1>8. {PlaceOf(w.tree[s]) \div Block : s \in {t \in Slots : w.tree[t] # Empty}} = T
  <2>1. {t \in Slots : w.tree[t] # Empty} = 0 .. n - 1
    <3>1. ASSUME NEW t \in Slots
          PROVE  w.tree[t] # Empty <=> t \in 0 .. n - 1
      <4>1. t \in Nat /\ t < g
        BY <1>2 DEF Slots
      <4>2. t < n <=> t \in 0 .. n - 1
        BY <1>3, <4>1
      <4>. QED
        BY <1>5, <1>6, <4>2
    <3>2. 0 .. n - 1 \subseteq Slots
      BY <1>2, <1>3 DEF Slots
    <3>. QED
      BY <3>1, <3>2
  <2>2. ASSUME NEW s \in 0 .. n - 1
        PROVE  PlaceOf(w.tree[s]) \div Block = f + y + s
    <3>1. s \in Slots /\ s < n
      BY <1>2, <1>3 DEF Slots
    <3>2. w.tree[s] = src(s)
      BY <1>6, <3>1
    <3>3. f + y + s \in Nat
      BY <1>2
    <3>4. ((f + y + s) * b) \div b = f + y + s
      BY <1>2, <3>3, WholeDiv
    <3>. QED
      BY <1>2, <1>5, <3>2, <3>4
  <2>. QED
    BY <2>1, <2>2
<1>9. HashedWith(w.offset) = T
  <2>1. HashedWith((f + y) * b) = {x \in f + y .. f + ns - 1 : x < f + y + g}
    <3>1. parts \in Seq(PartEntries) /\ InOrder(parts) /\ u \in Nat
      BY <1>1, EncodedBooks DEF OInv, AInv, PartsApart
    <3>2. u * GroupBlocks < parts[m].ns
      BY <1>1, <1>2
    <3>3. HashedWith((parts[m].fs + u * GroupBlocks) * Block)
            = {x \in parts[m].fs + u * GroupBlocks .. parts[m].fs + parts[m].ns - 1 :
                 x < parts[m].fs + u * GroupBlocks + GroupBlocks}
      BY <3>1, <3>2, GroupHashed
    <3>. QED
      BY <1>1, <1>2, <3>3
  <2>2. ASSUME NEW x
        PROVE  x \in T <=> x \in f + y .. f + ns - 1 /\ x < f + y + g
    <3>1. x \in T => x \in f + y .. f + ns - 1 /\ x < f + y + g
      BY <1>2, <1>3
    <3>2. ASSUME x \in f + y .. f + ns - 1, x < f + y + g
          PROVE  x \in T
      <4>1. x - (f + y) \in 0 .. n - 1
        BY <1>2, <1>3, <3>2
      <4>2. f + y + (x - (f + y)) = x
        BY <1>2, <3>2
      <4>. QED
        BY <4>1, <4>2
    <3>. QED
      BY <3>1, <3>2
  <2> HIDE DEF T
  <2>3. T = {x \in f + y .. f + ns - 1 : x < f + y + g}
    BY <2>2
  <2>. QED
    BY <1>6, <2>1, <2>3
<1>. QED
  BY <1>4, <1>7, <1>8, <1>9 DEF Faithful, gs

-----------------------------------------------------------------------------
LEMMA RoundTripInvariant ==
  ASSUME CodeRanges
  PROVE  CliSpec => []OInv
<1>1. CliInit => OInv
  BY InitOInv
<1>2. OInv /\ [CliNext]_cliVars => OInv'
  BY CommandKeepsOInv
<1>. QED
  BY <1>1, <1>2, PTL DEF CliSpec

(* What was encoded is decoded to the disc again: every byte of it is      *)
(* written, every block that is written comes from its own place on the    *)
(* disc, and the hash tree of partition data from the blocks that the      *)
(* encoder hashed together (README.md:16).                                 *)
THEOREM RestoresImage ==
  ASSUME CodeRanges
  PROVE  CliSpec => []ImageRestored
<1>1. OInv => ImageRestored
  <2> SUFFICES ASSUME OInv, result = "ok", iso.size > DiscHeader
               PROVE  /\ \A n \in DOMAIN writes : Faithful(writes[n])
                      /\ \A x \in 0 .. iso.size - 1 : \E n \in DOMAIN writes :
                           writes[n].offset <= x /\ x < writes[n].offset + writes[n].len
    BY DEF ImageRestored
  <2>1. pc = "done" /\ rvz = Container /\ regions \in Orders(parts, raws) /\ AllWritten
    BY Decoded
  <2>2. parts \in Seq(PartEntries) /\ raws \in Seq(RawEntries)
    BY <2>1, EncodedBooks
  <2>3. ASSUME NEW n \in DOMAIN writes
        PROVE  Faithful(writes[n])
    <3>1. PICK r \in DOMAIN regions : \E u \in 0 .. UnitsOf(regions[r]) - 1 :
            writes[n] = UnitOutput(regions[r], u, Container.groups)
      BY <2>1 DEF AllWritten
    <3>2. \/ \E m \in DOMAIN parts : regions[r] = parts[m]
          \/ \E m \in DOMAIN raws : regions[r] = raws[m]
      BY <2>1, <2>2, RegionsAreEntries
    <3>3. CASE \E m \in DOMAIN parts : regions[r] = parts[m]
      BY <2>1, <3>1, <3>3, PartIsFaithful
    <3>4. CASE \E m \in DOMAIN raws : regions[r] = raws[m]
      BY <2>1, <3>1, <3>4, RawIsFaithful
    <3>. QED
      BY <3>2, <3>3, <3>4
  <2>. QED
    BY <2>3, BytesWritten
<1>. QED
  BY <1>1, RoundTripInvariant, PTL

-----------------------------------------------------------------------------
(* The order of the output.                                                *)

\* Regions that do not overlap follow each other.
Following == \A l, m \in DOMAIN regions : l < m => RegionEnd(regions[l]) <= StartKey(regions[m])

LEMMA EntriesEnd ==
  ASSUME OInv, pc = "done", Aligned(iso)
  PROVE  /\ Below(raws, iso.size) /\ Below(parts, iso.size)
         /\ InOrder(parts) /\ InOrder(raws) /\ AllClear(raws, parts)
BY DEF OInv, AInv, PartsApart, RawsApart, Behind, Front

LEMMA RegionsFollow ==
  ASSUME OInv, result = "ok", Aligned(iso)
  PROVE  /\ Following
         /\ \A r \in DOMAIN regions :
              /\ StartKey(regions[r]) \in Nat /\ RegionEnd(regions[r]) \in Nat
              /\ StartKey(regions[r]) < RegionEnd(regions[r]) /\ RegionEnd(regions[r]) <= iso.size
<1>1. pc = "done" /\ regions \in Orders(parts, raws)
  BY Decoded
<1>2. /\ parts \in Seq(PartEntries) /\ raws \in Seq(RawEntries)
      /\ \A n \in DOMAIN raws : raws[n] \in RawEntries /\ raws[n].size > 0
      /\ \A n \in DOMAIN parts : parts[n] \in PartEntries
  BY <1>1, EncodedBooks
<1>3. /\ Below(raws, iso.size) /\ Below(parts, iso.size)
      /\ InOrder(parts) /\ InOrder(raws) /\ AllClear(raws, parts)
  BY <1>1, EntriesEnd
<1>4. ASSUME NEW n \in DOMAIN raws
      PROVE  /\ StartKey(raws[n]) \in Nat /\ RegionEnd(raws[n]) \in Nat
             /\ StartKey(raws[n]) < RegionEnd(raws[n]) /\ RegionEnd(raws[n]) <= iso.size
  <2>1. raws[n] \in RawEntries /\ raws[n].size > 0
    BY <1>2
  <2>2. StartKey(raws[n]) \in Nat /\ RegionEnd(raws[n]) \in Nat
    BY <2>1, RegionTypes DEF Regions
  <2>3. /\ raws[n].kind = "raw" /\ raws[n].offset \in Nat /\ raws[n].size \in Nat
        /\ AlignDown(raws[n].offset) \in Nat /\ AlignDown(raws[n].offset) <= raws[n].offset
    BY <2>1, RawEntryTypes, AlignDownBelow
  <2>4. StartKey(raws[n]) < RegionEnd(raws[n])
    BY <2>1, <2>3 DEF StartKey, RegionEnd
  <2>. QED
    BY <1>3, <2>2, <2>4 DEF Below
<1>5. ASSUME NEW n \in DOMAIN parts, parts[n].ns # 0
      PROVE  /\ StartKey(parts[n]) \in Nat /\ RegionEnd(parts[n]) \in Nat
             /\ StartKey(parts[n]) < RegionEnd(parts[n]) /\ RegionEnd(parts[n]) <= iso.size
  <2>1. PICK f, s, b \in Nat : /\ f = parts[n].fs /\ s = parts[n].ns /\ b = Block
                               /\ s > 0 /\ b > 0 /\ parts[n].kind = "part"
    BY <1>2, <1>5, PartEntryTypes, ConstantTypes
  <2>2. StartKey(parts[n]) \in Nat /\ RegionEnd(parts[n]) \in Nat
    BY <1>2, RegionTypes DEF Regions
  <2>3. f * b < (f + s) * b
    <3>1. (f + 1) * b <= (f + s) * b
      BY <2>1, BlocksMonotone
    <3>2. (f + 1) * b = f * b + b /\ f * b \in Nat /\ (f + s) * b \in Nat
      BY <2>1
    <3>. QED
      BY <2>1, <3>1, <3>2
  <2>4. StartKey(parts[n]) < RegionEnd(parts[n])
    BY <2>1, <2>3 DEF StartKey, RegionEnd
  <2>. QED
    BY <1>3, <2>2, <2>4 DEF Below
<1>6. ASSUME NEW r \in DOMAIN regions
      PROVE  /\ StartKey(regions[r]) \in Nat /\ RegionEnd(regions[r]) \in Nat
             /\ StartKey(regions[r]) < RegionEnd(regions[r]) /\ RegionEnd(regions[r]) <= iso.size
  <2>1. \/ \E n \in DOMAIN parts : parts[n].ns # 0 /\ regions[r] = parts[n]
        \/ \E n \in DOMAIN raws : regions[r] = raws[n]
    BY <1>1, <1>2, RegionsAreEntries
  <2>. QED
    BY <1>4, <1>5, <2>1
<1>7. PICK q : Sorted(parts, raws, regions, q)
  BY <1>1, <1>2, OrdersComplete
<1>8. ASSUME NEW l \in DOMAIN regions, NEW m \in DOMAIN regions, l < m
      PROVE  RegionEnd(regions[l]) <= StartKey(regions[m])
  <2>1. /\ q[l] \in Candidates(parts, raws) /\ regions[l] = EntryAt(parts, raws, q[l])
        /\ q[m] \in Candidates(parts, raws) /\ regions[m] = EntryAt(parts, raws, q[m])
        /\ Before(parts, raws, q[l], q[m])
    BY <1>7, <1>8 DEF Sorted
  <2>2. PICK c, d : c = q[l] /\ d = q[m]
    OBVIOUS
  <2>3. StartKey(regions[l]) <= StartKey(regions[m]) /\ StartKey(regions[m]) < RegionEnd(regions[m])
        /\ StartKey(regions[m]) \in Nat /\ RegionEnd(regions[m]) \in Nat /\ StartKey(regions[l]) \in Nat
    BY <1>1, <1>2, <1>6, <1>8, RegionsAreEntries
  <2>4. ~ (RegionEnd(regions[m]) <= StartKey(regions[l]))
    BY <2>3
  <2>5. c # d
    <3>1. Before(parts, raws, c, d) /\ c \in Candidates(parts, raws)
      BY <2>1, <2>2
    <3>2. c[1] \in {0, 1} /\ c[2] \in Nat /\ StartKey(EntryAt(parts, raws, c)) \in Nat
      BY <1>2, <3>1, CandidateTypes
    <3>. QED
      BY <3>1, <3>2 DEF Before
  <2>6. Clear(regions[l], regions[m])
    <3>1. \/ \E n \in DOMAIN parts : c = <<0, n>> /\ regions[l] = parts[n]
          \/ \E n \in DOMAIN raws : c = <<1, n>> /\ regions[l] = raws[n]
      BY <2>1, <2>2 DEF Candidates, EntryAt
    <3>2. \/ \E n \in DOMAIN parts : d = <<0, n>> /\ regions[m] = parts[n]
          \/ \E n \in DOMAIN raws : d = <<1, n>> /\ regions[m] = raws[n]
      BY <2>1, <2>2 DEF Candidates, EntryAt
    <3>3. DOMAIN parts \subseteq Nat /\ DOMAIN raws \subseteq Nat
      BY <1>2, LenProperties
    <3>4. ASSUME NEW x \in DOMAIN parts, NEW y \in DOMAIN parts, x # y
          PROVE  Clear(parts[x], parts[y])
      BY <1>3, <3>3, <3>4 DEF InOrder, Clear
    <3>5. ASSUME NEW x \in DOMAIN raws, NEW y \in DOMAIN raws, x # y
          PROVE  Clear(raws[x], raws[y])
      BY <1>3, <3>3, <3>5 DEF InOrder, Clear
    <3>6. ASSUME NEW x \in DOMAIN raws, NEW y \in DOMAIN parts
          PROVE  Clear(raws[x], parts[y]) /\ Clear(parts[y], raws[x])
      BY <1>3 DEF AllClear, Clear
    <3>. QED
      BY <2>5, <3>1, <3>2, <3>4, <3>5, <3>6
  <2>. QED
    BY <2>4, <2>6 DEF Clear
<1>. QED
  BY <1>6, <1>8 DEF Following

-----------------------------------------------------------------------------
\* Nothing of an aligned disc is left between its regions, or behind them.
LEMMA RegionsSeamless ==
  ASSUME OInv, result = "ok", iso.size > DiscHeader, Aligned(iso)
  PROVE  /\ Seamless(regions)
         /\ regions # <<>> /\ RegionEnd(regions[Len(regions)]) = iso.size
<1>1. PICK l, size \in Nat : /\ l = Len(regions) /\ DOMAIN regions = 1 .. l
                             /\ size = iso.size /\ size > 0
  <2>1. regions \in Seq(PartEntries \cup RawEntries)
    BY Decoded, EncodedBooks, OrdersType
  <2>2. iso.size \in Nat /\ DiscHeader \in Nat
    BY Decoded, EncodedBooks
  <2>. QED
    BY <2>1, <2>2, LenProperties
<1>2. /\ \A r \in 1 .. l : /\ StartKey(regions[r]) \in Nat /\ RegionEnd(regions[r]) \in Nat
                           /\ StartKey(regions[r]) < RegionEnd(regions[r])
                           /\ RegionEnd(regions[r]) <= size
      /\ \A r, s \in 1 .. l : r < s => RegionEnd(regions[r]) <= StartKey(regions[s])
  BY <1>1, RegionsFollow DEF Following
<1>3. \A x \in 0 .. size - 1 : \E r \in 1 .. l : StartKey(regions[r]) <= x /\ x < RegionEnd(regions[r])
  BY <1>1, RegionsCover
<1>4. PICK z \in 1 .. l : StartKey(regions[z]) <= 0 /\ 0 < RegionEnd(regions[z])
  <2>1. 0 \in 0 .. size - 1
    BY <1>1
  <2>. QED
    BY <1>3, <2>1
<1>5. StartKey(regions[1]) = 0
  <2>1. 1 \in 1 .. l /\ (z = 1 \/ 1 < z)
    BY <1>1, <1>4
  <2>. QED
    BY <1>2, <1>4, <2>1
<1>6. ASSUME NEW r \in 1 .. l, r # 1
      PROVE  StartKey(regions[r]) = RegionEnd(regions[r - 1])
  <2>1. PICK p \in 1 .. l : p = r - 1 /\ p < r /\ \A s \in 1 .. l : s < p \/ s = p \/ s = r \/ r < s
    <3>1. r - 1 \in 1 .. l /\ r - 1 < r /\ \A s \in 1 .. l : s < r - 1 \/ s = r - 1 \/ s = r \/ r < s
      BY <1>1, <1>6
    <3>. QED
      BY <3>1
  <2>2. PICK a \in Nat : a = RegionEnd(regions[p]) /\ a <= StartKey(regions[r]) /\ a < size
    <3>1. RegionEnd(regions[p]) \in Nat /\ RegionEnd(regions[p]) <= StartKey(regions[r])
      BY <1>2, <2>1
    <3>2. /\ StartKey(regions[r]) \in Nat /\ RegionEnd(regions[r]) \in Nat
          /\ StartKey(regions[r]) < RegionEnd(regions[r]) /\ RegionEnd(regions[r]) <= size
      BY <1>2
    <3>. QED
      BY <1>1, <3>1, <3>2
  <2>3. PICK s \in 1 .. l : StartKey(regions[s]) <= a /\ a < RegionEnd(regions[s])
    <3>1. a \in 0 .. size - 1
      BY <1>1, <2>2
    <3>. QED
      BY <1>3, <3>1
  <2>4. s # p
    BY <1>2, <2>2, <2>3
  <2>5. ~ (s < p)
    <3>1. s < p => RegionEnd(regions[s]) <= StartKey(regions[p]) /\ StartKey(regions[p]) < a
      BY <1>2, <2>2
    <3>2. StartKey(regions[p]) \in Nat /\ RegionEnd(regions[s]) \in Nat
      BY <1>2
    <3>. QED
      BY <2>2, <2>3, <3>1, <3>2
  <2>6. ~ (r < s)
    <3>1. r < s => RegionEnd(regions[r]) <= StartKey(regions[s])
      BY <1>2
    <3>2. /\ StartKey(regions[s]) \in Nat /\ RegionEnd(regions[r]) \in Nat
          /\ StartKey(regions[r]) \in Nat /\ StartKey(regions[r]) < RegionEnd(regions[r])
      BY <1>2
    <3>. QED
      BY <2>2, <2>3, <3>1, <3>2
  <2>7. StartKey(regions[r]) <= a /\ StartKey(regions[r]) \in Nat
    BY <1>2, <2>1, <2>3, <2>4, <2>5, <2>6
  <2>. QED
    BY <2>1, <2>2, <2>7
<1>7. ASSUME NEW r \in 1 .. l
      PROVE  UnitsOf(regions[r]) > 0
  <2>1. regions[r] \in RegionEntries /\ WellFormedEntry(regions[r], rvz.groups)
    BY <1>1, RegionsKnown
  <2>. QED
    BY <1>2, <2>1, UnitsNumber
<1>8. Seamless(regions)
  BY <1>1, <1>5, <1>6, <1>7 DEF Seamless
<1>9. l \in 1 .. l
  BY <1>1, <1>4
<1>10. RegionEnd(regions[l]) = size
  <2>. SUFFICES ASSUME RegionEnd(regions[l]) < size
                PROVE  FALSE
    BY <1>1, <1>2, <1>9
  <2>1. PICK a \in Nat : a = RegionEnd(regions[l]) /\ a \in 0 .. size - 1
    BY <1>1, <1>2, <1>9
  <2>2. PICK s \in 1 .. l : StartKey(regions[s]) <= a /\ a < RegionEnd(regions[s])
    BY <1>3, <2>1
  <2>3. s < l
    BY <1>1, <1>2, <2>1, <2>2
  <2>4. /\ RegionEnd(regions[s]) <= StartKey(regions[l]) /\ StartKey(regions[l]) < a
        /\ StartKey(regions[l]) \in Nat /\ RegionEnd(regions[s]) \in Nat
    BY <1>2, <1>9, <2>1, <2>3
  <2>. QED
    BY <2>1, <2>2, <2>4
<1>. QED
  BY <1>1, <1>8, <1>9, <1>10

-----------------------------------------------------------------------------
\* The sink has counted what ends where the output does.
LEMMA WritesTypes ==
  ASSUME OInv
  PROVE  /\ writes \in Seq(OutputRecords)
         /\ \A n \in DOMAIN writes : writes[n].offset \in Nat /\ writes[n].len \in Nat
<1>1. P!TypeOK
  BY DEF OInv, DInv, P!IInv
<1>2. writes \in Seq(OutputRecords)
  BY <1>1, OutputsAgree, Zenon DEF P!TypeOK
<1>3. \A o \in OutputRecords : o.offset \in Nat /\ o.len \in Nat
  BY DEF OutputRecords
<1>. QED
  BY <1>2, <1>3, ElementOfSeq

LEMMA SinkFollows ==
  ASSUME OInv, \A n \in DOMAIN writes : writes[n].offset = EndBefore(n - 1)
  PROVE  \A n \in 0 .. Len(writes) : SinkPos(n) = EndBefore(n)
<1>1. PICK l \in Nat : l = Len(writes) /\ DOMAIN writes = 1 .. l
  BY WritesTypes, LenProperties
<1>2. \A n \in 1 .. l : writes[n].offset \in Nat /\ writes[n].len \in Nat
  BY <1>1, WritesTypes
<1> DEFINE C == {n \in 0 .. l : SinkPos(n) # EndBefore(n)}
<1>3. C = {}
  <2>. SUFFICES ASSUME C # {}
                PROVE  FALSE
    OBVIOUS
  <2>1. PICK n \in C : \A c \in C : n <= c
    <3>. HIDE DEF C
    <3>1. C \subseteq Nat
      BY DEF C
    <3>. QED
      BY <3>1, LeastNumber
  <2>2. n # 0
    <3> DEFINE f == [m \in 1 .. 0 |-> writes[m].len]
    <3>1. Sum(f) = 0
      <4>1. DOMAIN f = {}
        OBVIOUS
      <4>. HIDE DEF f
      <4>. QED
        BY <4>1, SumOfNothing
    <3>2. SinkPos(0) = 0
      BY <3>1 DEF SinkPos, Sum
    <3>3. EndBefore(0) = 0
      BY DEF EndBefore
    <3>. QED
      BY <3>2, <3>3
  <2>3. PICK p \in 0 .. l : p = n - 1 /\ n = p + 1 /\ n \in 1 .. l /\ p \in Nat
    <3>1. n - 1 \in 0 .. l /\ n = (n - 1) + 1 /\ n \in 1 .. l /\ n - 1 \in Nat
      BY <1>1, <2>2
    <3>. QED
      BY <3>1
  <2>4. SinkPos(p) = EndBefore(p)
    <3>1. p \notin C
      BY <1>1, <2>1, <2>3
    <3>. QED
      BY <3>1
  <2>5. SinkPos(p + 1) = SinkPos(p) + writes[p + 1].len
    <3> DEFINE f == [m \in 1 .. p |-> writes[m].len]
               g == [m \in 1 .. p + 1 |-> writes[m].len]
    <3>1. /\ DOMAIN f = 1 .. p /\ DOMAIN g = 1 .. p + 1
          /\ \A x \in 1 .. p + 1 : g[x] \in Int
          /\ \A x \in 1 .. p : f[x] = g[x]
      BY <1>2, <2>3
    <3>2. g[p + 1] = writes[p + 1].len
      BY <2>3
    <3>3. SinkPos(p) = Sum(f) /\ SinkPos(p + 1) = Sum(g)
      BY DEF SinkPos, Sum
    <3>. HIDE DEF f, g
    <3>4. Sum(g) = Sum(f) + g[p + 1]
      BY <2>3, <3>1, SumGrows
    <3>. QED
      BY <3>2, <3>3, <3>4
  <2>6. EndBefore(n) = EndBefore(p) + writes[n].len
    <3>1. writes[n].offset = EndBefore(p)
      BY <1>1, <2>3
    <3>2. n # 0
      BY <2>2
    <3>. QED
      BY <3>1, <3>2 DEF EndBefore
  <2>7. SinkPos(n) = EndBefore(n)
    BY <2>3, <2>4, <2>5, <2>6
  <2>. QED
    BY <2>7
<1>. QED
  BY <1>1, <1>3

(* The MD5 sum that `decode --md5' prints is that of the disc: what the    *)
(* sink is given follows on without a gap from the first byte of the disc  *)
(* to the last (Md5Sink, main.rs), when the partitions begin at blocks.    *)
THEOREM DigestOfImage ==
  ASSUME CodeRanges
  PROVE  CliSpec => []DigestIsOfImage
<1>1. OInv => DigestIsOfImage
  <2> SUFFICES ASSUME OInv, result = "ok", iso.size > DiscHeader, Aligned(iso)
               PROVE  Contiguous /\ SinkPos(Len(writes)) = iso.size
    BY DEF DigestIsOfImage, Aligned
  <2>1. Seamless(regions) /\ regions # <<>> /\ RegionEnd(regions[Len(regions)]) = iso.size
    BY RegionsSeamless
  <2>2. /\ \A n \in DOMAIN writes : writes[n].offset = EndBefore(n - 1)
        /\ EndBefore(Len(writes)) = iso.size
    BY <2>1, Decoded DEF AllInARow
  <2>3. \A n \in 0 .. Len(writes) : SinkPos(n) = EndBefore(n)
    BY <2>2, SinkFollows
  <2>4. DOMAIN writes = 1 .. Len(writes) /\ Len(writes) \in Nat
    BY WritesTypes, LenProperties
  <2>5. Contiguous
    BY <2>2, <2>3, <2>4 DEF Contiguous
  <2>6. SinkPos(Len(writes)) = iso.size
    BY <2>2, <2>3, <2>4
  <2>. QED
    BY <2>5, <2>6
<1>. QED
  BY <1>1, RoundTripInvariant, PTL
=============================================================================
