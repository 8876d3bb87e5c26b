-------------------------- MODULE DescramblerProps --------------------------
(* What the processes must not get wrong, whoever writes the seed cache.   *)
EXTENDS Descrambler

Optional(S) == {{}} \cup {{s} : s \in S}
Maps == [Phases -> Optional(0 .. Mask)]
Contents == [state : {"empty", "torn", "whole"}, map : Maps]
Calls == [name : {"none", "find", "unscramble"}, phase : Phases, damaged : SUBSET Phases,
          verify : BOOLEAN]
Outcomes == {"none", "found", "data", "SeedNotFound", "EdcMismatch", "RawTooShort"}

TypeOK ==
  /\ disc \in [Procs -> Discs] /\ limit \in [Procs -> Limits] /\ cached \in [Procs -> BOOLEAN]
  /\ seeds \in [Procs -> Maps] /\ cipher \in [Procs -> Maps]
  /\ pc \in [Procs -> {"off", "idle", "open", "write", "rename", "decode", "done"}]
  /\ call \in [Procs -> Calls] /\ outcome \in [Procs -> Outcomes]
  /\ path \in Optional(Inodes) /\ tmp \in Optional(Inodes)
  /\ content \in [Inodes -> Contents] /\ fd \in [Procs -> Optional(Inodes)]
  /\ trusted \in BOOLEAN /\ overlapped \in BOOLEAN

\* A block is decoded with the seed of its disc and phase whenever it was
\* verified, and also without the check as long as every process read the
\* same disc, whatever was found, cached, lost or written at once
\* (lib.rs:180, lib.rs:198).
OutputIsRight ==
  \A p \in Procs :
    pc[p] = "done" /\ outcome[p] = "data" =>
      /\ call[p].verify => call[p].damaged = {}
      /\ call[p].verify \/ trusted => cipher[p][call[p].phase] = {Right(p, call[p].phase)}

\* An undamaged block is refused only for a seed of another disc, or when its
\* seed is beyond the search.
RefusedWithCause ==
  \A p \in Procs :
    pc[p] = "done" /\ outcome[p] \in {"EdcMismatch", "SeedNotFound"} /\ call[p].damaged = {} =>
      \/ ~trusted
      \/ outcome[p] = "SeedNotFound" /\ Right(p, call[p].phase) >= limit[p]

\* A search that succeeds heals a process that took the seed of another disc
\* from the cache: the next verified, undamaged block of the phase is decoded
\* (lib.rs:142).
SearchHeals ==
  [][\A p \in Procs :
       (pc[p] = "decode" /\ pc'[p] = "done" /\ call[p].damaged = {}
        /\ seeds[p][call[p].phase] = {Right(p, call[p].phase)}) => outcome'[p] = "data"]_vars

\* The cache file is whole, whatever process stopped at whatever point and
\* whatever write failed, unless two processes wrote at once (lib.rs:242).
CacheIsWhole == ~overlapped => \A i \in path : content[i].state = "whole"
=============================================================================
