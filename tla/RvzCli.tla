------------------------------- MODULE RvzCli -------------------------------
(***************************************************************************)
(* The command line (crates/rvz-cli/src/main.rs): a disc is encoded, from  *)
(* a file or while a drive is still writing it (--follow), and the         *)
(* container decoded into an MD5 sum.  The encoder is IsoEncoder, its      *)
(* reads those of FileReader or FollowReader; the decoder is PullDecoder.  *)
(* Time passes in ticks of a poll (200 ms).                                *)
(***************************************************************************)
EXTENDS IsoEncoder, Functions

CONSTANTS Modes,         \* "file", "follow" or "sized" (--follow --iso-size)
          Patience,      \* ticks FollowReader waits for growth: 300 s
          StartPatience  \* ticks cmd_encode waits for the file: 600 s

ASSUME CliAssumption ==
  /\ Modes \subseteq {"file", "follow", "sized"}
  /\ Patience \in Nat /\ StartPatience \in Nat

VARIABLES mode,
          cmd,     \* "appear", "encode", "decode", "end"
          exists,  \* the input file is there
          reader,  \* "idle", "poll" or "sleep"
          last,    \* size when it last changed
          since,   \* ticks since last_change (at most Cap)
          quiet,   \* ticks since the drive last wrote (at most Cap)
          gaveUp,  \* "no", or why the command stopped waiting, last
          rvz,     \* the container that is decoded
          dpc, dparts, draws, dgroups, regions, regionIdx, i, buffers, writes, result

follow == <<reader, last, since>>
drive == <<exists, quiet>>
decoder == <<rvz, dpc, dparts, draws, dgroups, regions, regionIdx, i, buffers, writes, result>>
cliVars == <<vars, mode, cmd, drive, follow, gaveUp, decoder>>

Pull == INSTANCE PullDecoder WITH
  Files <- {}, file <- rvz, pc <- dpc, parts <- dparts, rawEntries <- draws,
  groups <- dgroups, part <- buffers

Cap == Patience + StartPatience + 1

CliInit ==
  /\ mode \in Modes
  /\ iso \in Isos
  /\ available = IF mode = "file" THEN iso.size ELSE 0
  /\ pc = "begin"
  /\ table = <<>> /\ part = NoPartition /\ lastEnd = 0
  /\ groupIndex = 0 /\ raws = <<>> /\ parts = <<>>
  /\ region = NoRegion /\ k = 0
  /\ chunks = <<>> /\ bytesDone = 0 /\ reported = 0
  /\ pos = HeaderArea /\ tables = <<>> /\ header = "none"
  /\ exists = (mode = "file")
  /\ cmd = IF mode = "file" THEN "encode" ELSE "appear"
  /\ reader = IF mode = "file" THEN "idle" ELSE "poll"
  /\ last = 0 /\ since = 0 /\ quiet = 0 /\ gaveUp = "no"
  /\ rvz = [parts |-> <<>>, raws |-> <<>>, groups |-> <<>>]
  /\ dpc = "header" /\ dparts = <<>> /\ draws = <<>> /\ dgroups = <<>>
  /\ regions = <<>> /\ regionIdx = 1 /\ i = 0
  /\ buffers = Pull!NoPart /\ writes = <<>> /\ result = ""

-----------------------------------------------------------------------------
(* The drive that dumps the disc, and time.                                *)

CreateFile ==
  /\ ~exists
  /\ exists' = TRUE /\ quiet' = 0
  /\ UNCHANGED <<vars, mode, cmd, follow, gaveUp, decoder>>

WriteFile ==
  /\ exists /\ Grow
  /\ quiet' = 0
  /\ UNCHANGED <<mode, cmd, exists, follow, gaveUp, decoder>>

\* A poll sleeps for a tick, or longer when the machine is busy.
Tick ==
  /\ reader # "idle" /\ (reader = "sleep" \/ since < Cap \/ quiet < Cap)
  /\ reader' = "poll"
  /\ since' = Lesser(since + 1, Cap) /\ quiet' = Lesser(quiet + 1, Cap)
  /\ UNCHANGED <<vars, mode, cmd, exists, last, gaveUp, decoder>>

-----------------------------------------------------------------------------
(* Encoding.                                                               *)

Stops(why) == gaveUp' = why /\ cmd' = "end"

\* cmd_encode waits for the file; without --iso-size the size that it has
\* when it is there is that of the disc.
AwaitFile ==
  /\ cmd = "appear" /\ reader = "poll"
  /\ \/ /\ exists
        /\ cmd' = "encode" /\ reader' = "idle"
        /\ iso' = IF mode = "sized" THEN iso
                  ELSE [iso EXCEPT !.size = available, !.wii = @ /\ available >= DiscHeader]
        /\ UNCHANGED gaveUp
     \/ /\ ~exists /\ since > StartPatience
        /\ Stops("file") /\ reader' = "idle"
        /\ UNCHANGED iso
     \/ /\ ~exists /\ since <= StartPatience
        /\ reader' = "sleep"
        /\ UNCHANGED <<iso, cmd, gaveUp>>
  /\ UNCHANGED <<available, pc, plan, allotted, cursor, stored, container>>
  /\ UNCHANGED <<mode, drive, last, since, decoder>>

\* The encoder reads beyond what there is of the file.
Waits ==
  /\ ~Stopped /\ ~Readable
  /\ pc = "detect" => iso.size >= TableEnd
  /\ pc = "setup" => Head(table).offset + PartHeader <= iso.size

EncodeStep ==
  /\ cmd = "encode" /\ reader = "idle" /\ ~Waits
  /\ Encode
  /\ UNCHANGED <<mode, cmd, drive, follow, gaveUp, decoder>>

\* FollowReader::read_at begins to wait.
StartToWait ==
  /\ cmd = "encode" /\ reader = "idle" /\ Waits
  /\ reader' = "poll" /\ last' = 0 /\ since' = 0
  /\ UNCHANGED <<vars, mode, cmd, drive, gaveUp, decoder>>

\* Seeded bug: every poll starts the timeout again.
UnchangedRestarted == 0

\* The ticks without growth as the loop counts them.
Unchanged == IF available # last THEN 0 ELSE since

\* Seeded bug: the time is compared before the growth is noticed.
ExpiredUnnoticed == since > Patience
Expired == Unchanged > Patience

\* compress_iso goes on without a partition table or an FST that it cannot read.
DoesWithout == pc = "fst" \/ (pc = "detect" /\ available >= TableInfo)

\* read_at returns an error.
ReadFails(why) ==
  /\ reader' = "idle" /\ UNCHANGED <<last, since>>
  /\ \/ DoesWithout /\ (Detect \/ ReadFst) /\ gaveUp' = why /\ UNCHANGED cmd
     \/ ~DoesWithout /\ Fail /\ Stops(why)

\* A turn of the loop of read_at.
Poll ==
  /\ cmd = "encode" /\ reader = "poll"
  /\ \/ /\ Readable
        /\ reader' = "idle"
        /\ UNCHANGED <<vars, cmd, last, since, gaveUp>>
     \/ /\ ~Readable /\ ~Expired
        /\ reader' = "sleep" /\ last' = available /\ since' = Unchanged
        /\ UNCHANGED <<vars, cmd, gaveUp>>
     \/ ~Readable /\ Expired /\ ReadFails("timeout")
  /\ UNCHANGED <<mode, drive, decoder>>

\* The size of the file cannot be had.
PollFails ==
  /\ cmd = "encode" /\ reader = "poll" /\ ~Readable
  /\ ReadFails("error")
  /\ UNCHANGED <<mode, drive, decoder>>

\* A read of what is there, or a write, fails.
EncodeFails ==
  /\ cmd = "encode" /\ reader = "idle"
  /\ Fail /\ Stops("error")
  /\ UNCHANGED <<mode, drive, follow, decoder>>

EncodePanics ==
  /\ cmd = "encode" /\ pc = "panic"
  /\ Stops("panic")
  /\ UNCHANGED <<vars, mode, drive, follow, decoder>>

-----------------------------------------------------------------------------
(* Decoding.                                                               *)

\* cmd_decode of the container that encode has left; its groups are named by
\* their place in the group table.
StartDecode ==
  /\ cmd = "encode" /\ pc = "done"
  /\ cmd' = "decode"
  /\ rvz' = [parts |-> parts, raws |-> raws,
             groups |-> [n \in DOMAIN chunks |-> [zero |-> FALSE, bad |-> FALSE, ex |-> {}]]]
  /\ UNCHANGED <<dpc, dparts, draws, dgroups, regions, regionIdx, i, buffers, writes, result>>
  /\ UNCHANGED <<vars, mode, drive, follow, gaveUp>>

DecodeStep ==
  /\ cmd = "decode" /\ Pull!Next
  /\ UNCHANGED <<vars, mode, cmd, drive, follow, gaveUp>>

DecodeEnds ==
  /\ cmd = "decode" /\ result # ""
  /\ cmd' = "end"
  /\ UNCHANGED <<vars, mode, drive, follow, gaveUp, decoder>>

\* Md5Sink: bytes written after n writes, and whether they were in order.
SinkPos(n) == FoldFunction(+, 0, [m \in 1 .. n |-> writes[m].len])
Contiguous == \A n \in DOMAIN writes : writes[n].offset = SinkPos(n - 1)

Command ==
  \/ AwaitFile \/ EncodeStep \/ StartToWait \/ Poll \/ EncodePanics
  \/ StartDecode \/ DecodeStep \/ DecodeEnds

CliNext == Command \/ EncodeFails \/ PollFails \/ CreateFile \/ WriteFile \/ Tick

\* The command and the clock go on; the drive may stop at any time.
CliSpec == CliInit /\ [][CliNext]_cliVars /\ WF_cliVars(Command) /\ WF_cliVars(Tick)
=============================================================================
