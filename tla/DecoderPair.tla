---------------------------- MODULE DecoderPair ----------------------------
(***************************************************************************)
(* Both decoders on the same container: the push decoder with its caller,  *)
(* and a call of decompress_rvz.                                           *)
(***************************************************************************)
EXTENDS PushDecoder

VARIABLES pc, pullParts, pullRaws, pullGroups, pullRegions, pullIdx, i, buffers,
          writes, result

Pull == INSTANCE PullDecoder WITH
  parts <- pullParts, rawEntries <- pullRaws, groups <- pullGroups,
  regions <- pullRegions, regionIdx <- pullIdx, part <- buffers

pullVars == <<pc, pullParts, pullRaws, pullGroups, pullRegions, pullIdx, i, buffers,
              writes, result>>

PairInit == Init /\ Pull!Init

\* The pull decoder runs first and reads what it asks for; the push decoder
\* is fed in turn.  Neither touches the other's state.
PairNext ==
  \/ Pull!Next /\ UNCHANGED vars
  \/ result # "" /\ Feed /\ UNCHANGED pullVars

PairSpec == PairInit /\ [][PairNext]_<<vars, pullVars>>

(* push.rs:7 says that its decoding logic is the same as decoder.rs's: a   *)
(* container that the push decoder takes to the end is not refused by the  *)
(* pull decoder.                                                           *)
SameVerdict == stage = "done" => result \in {"ok", "BadHeader"}
=============================================================================
