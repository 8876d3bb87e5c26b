----------------------------- MODULE RvzCliProps -----------------------------
(* What the command line promises of a disc, whatever drive writes it.     *)
EXTENDS RvzCli

\* The state of the command, its reader and its decoder has its types, and
\* so have the entries of the container.
CliTypeOK ==
  /\ mode \in Modes /\ cmd \in {"appear", "encode", "decode", "end"} /\ exists \in BOOLEAN
  /\ reader \in {"idle", "poll", "sleep"}
  /\ last \in 0 .. available /\ since \in 0 .. Cap /\ quiet \in 0 .. Cap
  /\ gaveUp \in {"no", "file", "timeout", "error", "panic"}
  /\ parts \in Seq(PartEntries) /\ raws \in Seq(RawEntries)
  /\ rvz \in Containers /\ regionIdx \in Nat /\ i \in Nat /\ writes \in Seq(OutputRecords)
  /\ result \in {"", "ok", "BadHeader", "MissingGroup", "SizeMismatch", "BadRecord"}

\* Where on the disc block b of payload g lies.
PlaceOf(src) == chunks[src[1] + 1].from + src[2] * Block

\* The blocks that the encoder hashed together with the chunk at `from'.
HashedWith(from) ==
  LET e == CHOOSE d \in {parts[n] : n \in DOMAIN parts} :
             d.fs * Block <= from /\ from < (d.fs + d.ns) * Block
      first == (((from \div Block) - e.fs) \div GroupBlocks) * GroupBlocks
  IN  {b \in e.fs + first .. e.fs + e.ns - 1 : b < e.fs + first + GroupBlocks}

\* Every block of the output comes from its place on the disc, and the hash
\* tree of partition data from the blocks the encoder computed it from.
Faithful(w) ==
  /\ \A b \in DOMAIN w.blocks : PlaceOf(w.blocks[b].src) = w.offset + (b - 1) * Block
  /\ w.tree # NoTree =>
       {PlaceOf(w.tree[s]) \div Block : s \in {t \in Slots : w.tree[t] # Empty}}
         = HashedWith(w.offset)

\* What was encoded, followed or not, is decoded to the disc again, byte for
\* byte and with the hashes the exceptions were collected against
\* (README.md:16).
ImageRestored ==
  result = "ok" /\ iso.size > DiscHeader =>
    /\ \A n \in DOMAIN writes : Faithful(writes[n])
    /\ \A x \in 0 .. iso.size - 1 : \E n \in DOMAIN writes :
         writes[n].offset <= x /\ x < writes[n].offset + writes[n].len

\* The MD5 sum is that of the disc, of every byte once and in order, when its
\* partitions begin at block boundaries (main.rs:61, README.md:24).
DigestIsOfImage ==
  result = "ok" /\ iso.size > DiscHeader
    /\ (\A n \in DOMAIN iso.table : iso.table[n].offset % Block = 0) =>
      Contiguous /\ SinkPos(Len(writes)) = iso.size

\* The reader gives up, whichever read it is and however often it has before,
\* only on a drive that has written nothing for longer than the timeout,
\* however late the reader itself is polled (main.rs:197).  An error of the
\* file system is no giving up.
PatientReader ==
  [][(/\ cmd = "encode" /\ reader = "poll" /\ reader' = "idle"
      /\ ~Readable /\ gaveUp' # "error") => quiet > Patience]_cliVars

\* The command comes to an end, also when the drive stops or never starts.
CommandEnds == <>(cmd = "end")
=============================================================================
