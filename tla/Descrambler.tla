---------------------------- MODULE Descrambler ----------------------------
(***************************************************************************)
(* Processes that take the scrambling off the raw blocks of GameCube discs *)
(* (Descrambler, crates/gc-disc/src/lib.rs) and keep the seeds they found  *)
(* in one cache file.  A file is an inode with a content; a name refers to *)
(* one inode or to none.  Optional values are sets of at most one element. *)
(* EDCs tell the seed of a sector: a sector passes the check with its own  *)
(* seed, unless it is damaged (external: edc_calc and the real discs).     *)
(***************************************************************************)
EXTENDS Integers

CONSTANTS Procs,
          Discs,
          SeedOf,   \* the seed of each disc and phase
          Period,   \* SECTORS_PER_BLOCK: sectors of a block, and phases
          Mask,     \* 0x7FFF
          Limits,   \* arguments of set_max_seed_search
          Sectors,  \* sector numbers of blocks
          Damages,  \* sectors of a block that do not pass their EDC
          Words,    \* arguments of set_seed
          Inodes,
          Budget    \* bound: starts of processes and calls of theirs

Phases == 0 .. Period - 1

ASSUME DescramblerAssumption ==
  /\ Period \in Nat \ {0} /\ Mask \in Nat
  /\ SeedOf \in [Discs -> [Phases -> 0 .. Mask]]
  /\ Limits \subseteq 0 .. Mask + 1 /\ Mask \in Limits
  /\ Sectors \subseteq Nat /\ Words \subseteq Nat /\ Budget \in Nat
  /\ Damages \subseteq SUBSET Phases

VARIABLES disc,    \* the disc in the drive of each process
          seeds,   \* seeds, for each process and phase
          cipher,  \* the seeds that the cached ciphers were made from
          limit,   \* max_seed_search
          cached,  \* whether there is a cache_path
          pc,      \* "off", "idle", "open", "write", "rename", "decode", "done"
          call,    \* the call under way
          outcome, \* what it returns
          path,    \* the inode of the cache file
          tmp,     \* and of the file it is written to
          content, \* of each inode
          fd,      \* the inode each process is writing
          spent,   \* starts and calls so far (bounded by Budget)
          trusted, \* whether all seeds so far were of one disc (history)
          overlapped  \* whether two processes wrote at once (history)

drive == <<disc, limit, cached>>
cipherVars == <<seeds, cipher>>
calls == <<call, outcome>>
files == <<path, tmp, content, fd>>
history == <<trusted, overlapped>>
vars == <<drive, cipherVars, pc, calls, files, spent, history>>

NoSeeds == [ph \in Phases |-> {}]
NoCall == [name |-> "none", phase |-> 0, damaged |-> {}, verify |-> FALSE]
Empty == [state |-> "empty", map |-> NoSeeds]
Torn == [state |-> "torn", map |-> NoSeeds]
Whole(map) == [state |-> "whole", map |-> map]

Init ==
  /\ \E d \in Discs : disc = [p \in Procs |-> d]
  /\ seeds = [p \in Procs |-> NoSeeds] /\ cipher = [p \in Procs |-> NoSeeds]
  /\ limit = [p \in Procs |-> Mask] /\ cached = [p \in Procs |-> FALSE]
  /\ pc = [p \in Procs |-> "off"]
  /\ call = [p \in Procs |-> NoCall] /\ outcome = [p \in Procs |-> "none"]
  /\ path = {} /\ tmp = {} /\ content = [i \in Inodes |-> Empty]
  /\ fd = [p \in Procs |-> {}]
  /\ spent = 0 /\ trusted = TRUE /\ overlapped = FALSE

Spend == spent < Budget /\ spent' = spent + 1

-----------------------------------------------------------------------------
(* Processes come and go, at any point of a call.                          *)

\* load: what does not parse is no cache.
Loaded == UNION {IF content[i].state = "whole" THEN {content[i].map} ELSE {} : i \in path}

New(p) ==
  /\ pc[p] = "off" /\ Spend
  /\ \E d \in Discs, c \in BOOLEAN :
       /\ disc' = [disc EXCEPT ![p] = d]
       /\ cached' = [cached EXCEPT ![p] = c]
       /\ trusted' = (trusted /\ d = disc[p])
       /\ \/ /\ c /\ \E m \in Loaded : seeds' = [seeds EXCEPT ![p] = m]
          \/ /\ ~c \/ Loaded = {}
             /\ seeds' = [seeds EXCEPT ![p] = NoSeeds]
  /\ cipher' = [cipher EXCEPT ![p] = NoSeeds]
  /\ limit' = [limit EXCEPT ![p] = Mask]
  /\ pc' = [pc EXCEPT ![p] = "idle"]
  /\ UNCHANGED <<calls, files, overlapped>>

Exit(p) ==
  /\ pc[p] # "off"
  /\ pc' = [pc EXCEPT ![p] = "off"]
  /\ fd' = [fd EXCEPT ![p] = {}]
  /\ seeds' = [seeds EXCEPT ![p] = NoSeeds]
  /\ cipher' = [cipher EXCEPT ![p] = NoSeeds]
  /\ limit' = [limit EXCEPT ![p] = Mask]
  /\ cached' = [cached EXCEPT ![p] = FALSE]
  /\ call' = [call EXCEPT ![p] = NoCall]
  /\ outcome' = [outcome EXCEPT ![p] = "none"]
  /\ UNCHANGED <<disc, path, tmp, content, history, spent>>

-----------------------------------------------------------------------------
(* Seeds.                                                                  *)

Right(p, ph) == SeedOf[disc[p]][ph]

\* Seeded bug: the cipher of the seed before stays.
RegisterKeepingCipher(p, ph, word) ==
  /\ seeds' = [seeds EXCEPT ![p] = [@ EXCEPT ![ph] = {word % (Mask + 1)}]]
  /\ cipher' = cipher

\* Seeded bug: the seed is not masked.
RegisterUnmasked(p, ph, word) ==
  /\ seeds' = [seeds EXCEPT ![p] = [@ EXCEPT ![ph] = {word}]]
  /\ cipher' = [cipher EXCEPT ![p] = [@ EXCEPT ![ph] = {}]]

RegisterSeed(p, ph, word) ==
  /\ seeds' = [seeds EXCEPT ![p] = [@ EXCEPT ![ph] = {word % (Mask + 1)}]]
  /\ cipher' = [cipher EXCEPT ![p] = [@ EXCEPT ![ph] = {}]]

\* set_seed by the client.
SetSeed(p) ==
  /\ pc[p] = "idle" /\ Spend
  /\ \E ph \in 0 .. 2 * Period - 1, word \in Words :
       /\ RegisterSeed(p, ph % Period, word)
       /\ trusted' = (trusted /\ word % (Mask + 1) = Right(p, ph % Period))
  /\ UNCHANGED <<drive, pc, calls, files, overlapped>>

SetMaxSeedSearch(p) ==
  /\ pc[p] = "idle" /\ Spend
  /\ \E n \in Limits : limit' = [limit EXCEPT ![p] = n]
  /\ UNCHANGED <<disc, cached, cipherVars, pc, calls, files, history>>

\* test_seed on sector k of a block of the phase with these damages.
Passes(p, ph, damaged, k, seed) == k \notin damaged /\ seed = Right(p, ph)

\* Seeded bug: the search stops one seed short.
CandidatesShort(p, ph, damaged) ==
  {c \in 0 .. limit[p] - 2 :
    /\ Passes(p, ph, damaged, 0, c)
    /\ \A b \in 0 .. c - 1 : ~Passes(p, ph, damaged, 0, b)}

\* The seeds the search meets first: none or one.
Candidates(p, ph, damaged) ==
  {c \in 0 .. limit[p] - 1 :
    /\ Passes(p, ph, damaged, 0, c)
    /\ \A b \in 0 .. c - 1 : ~Passes(p, ph, damaged, 0, b)}

Begin(p, c, next) ==
  /\ call' = [call EXCEPT ![p] = c]
  /\ pc' = [pc EXCEPT ![p] = next]

Returns(p, o) == outcome' = [outcome EXCEPT ![p] = o]

\* find_seed with a block: the seed is registered, and the cache saved before
\* the call goes on.
Search(p, c, after) ==
  \/ \E s \in Candidates(p, c.phase, c.damaged) :
       /\ RegisterSeed(p, c.phase, s)
       /\ Begin(p, c, IF cached[p] THEN "open" ELSE after)
       /\ Returns(p, IF after = "done" THEN "found" ELSE "none")
  \/ /\ Candidates(p, c.phase, c.damaged) = {}
     /\ Begin(p, c, "done")
     /\ Returns(p, "SeedNotFound")
     /\ UNCHANGED cipherVars

Verifies(name) == IF name = "unscramble" THEN BOOLEAN ELSE {FALSE}
Blocks(name) ==
  {[name |-> name, phase |-> (s \div Period) % Period, damaged |-> d, verify |-> v] :
    s \in Sectors, d \in Damages, v \in Verifies(name)}

FindSeed(p) ==
  /\ pc[p] = "idle" /\ Spend
  /\ \E c \in Blocks("find") : Search(p, c, "done")
  /\ UNCHANGED <<drive, files, history>>

\* unscramble_block.
Unscramble(p) ==
  /\ pc[p] = "idle" /\ Spend
  /\ \E c \in Blocks("unscramble") :
       \/ seeds[p][c.phase] = {} /\ Search(p, c, "decode")
       \/ /\ seeds[p][c.phase] # {}
          /\ Begin(p, c, "decode")
          /\ UNCHANGED <<cipherVars, outcome>>
  /\ UNCHANGED <<drive, files, history>>

UnscrambleTooShort(p) ==
  /\ pc[p] = "idle" /\ Spend
  /\ Begin(p, NoCall, "done")
  /\ Returns(p, "RawTooShort")
  /\ UNCHANGED <<drive, cipherVars, files, history>>

\* cipher_for: lfsr_stream masks the seed.
Cipher(p, ph) ==
  IF cipher[p][ph] # {} THEN cipher[p][ph] ELSE {s % (Mask + 1) : s \in seeds[p][ph]}

\* Seeded bug: only the first sector is verified.
VerifiedFirst(p) ==
  \A s \in Cipher(p, call[p].phase) : Passes(p, call[p].phase, call[p].damaged, 0, s)

Verified(p) ==
  \A k \in Phases, s \in Cipher(p, call[p].phase) :
    Passes(p, call[p].phase, call[p].damaged, k, s)

Decode(p) ==
  /\ pc[p] = "decode"
  /\ cipher' = [cipher EXCEPT ![p] = [@ EXCEPT ![call[p].phase] = Cipher(p, call[p].phase)]]
  /\ \/ (call[p].verify => Verified(p)) /\ Returns(p, "data")
     \/ call[p].verify /\ ~Verified(p) /\ Returns(p, "EdcMismatch")
  /\ pc' = [pc EXCEPT ![p] = "done"]
  /\ UNCHANGED <<drive, seeds, call, files, history, spent>>

Return(p) ==
  /\ pc[p] = "done"
  /\ pc' = [pc EXCEPT ![p] = "idle"]
  /\ call' = [call EXCEPT ![p] = NoCall]
  /\ outcome' = [outcome EXCEPT ![p] = "none"]
  /\ UNCHANGED <<drive, cipherVars, files, history, spent>>

-----------------------------------------------------------------------------
(* The cache file.                                                         *)

\* save by the client.
Save(p) ==
  /\ pc[p] = "idle" /\ cached[p] /\ Spend
  /\ Begin(p, NoCall, "open")
  /\ UNCHANGED <<drive, cipherVars, outcome, files, history>>

InUse == path \cup tmp \cup UNION {fd[p] : p \in Procs}

AfterSave(p) == IF call[p].name = "unscramble" THEN "decode" ELSE "done"

\* The file is created or, when it is there, truncated.
Open(p) ==
  /\ pc[p] = "open"
  /\ \/ /\ \E i \in IF tmp # {} THEN tmp ELSE Inodes \ InUse :
            /\ tmp' = {i}
            /\ content' = [content EXCEPT ![i] = Empty]
            /\ fd' = [fd EXCEPT ![p] = {i}]
       /\ overlapped' = (overlapped \/ \E q \in Procs \ {p} : pc[q] \in {"write", "rename"})
       /\ pc' = [pc EXCEPT ![p] = "write"]
     \/ /\ pc' = [pc EXCEPT ![p] = AfterSave(p)]
       /\ UNCHANGED <<tmp, content, fd, overlapped>>
  /\ UNCHANGED <<drive, cipherVars, calls, path, trusted, spent>>

\* A text written over a longer one leaves the end of that.
Overwritten(old, map) ==
  {Whole(map)} \cup (IF old.state = "empty" \/ old = Whole(map) THEN {} ELSE {Torn})

\* Seeded bug: the file is renamed though the write failed.
AfterWriteAnyway(p, ok) == "rename"
AfterWrite(p, ok) == IF ok THEN "rename" ELSE AfterSave(p)

Write(p) ==
  /\ pc[p] = "write"
  /\ \E i \in fd[p] :
       \/ /\ \E c \in Overwritten(content[i], seeds[p]) : content' = [content EXCEPT ![i] = c]
          /\ pc' = [pc EXCEPT ![p] = AfterWrite(p, TRUE)]
       \/ /\ content' = [content EXCEPT ![i] = Torn]
          /\ pc' = [pc EXCEPT ![p] = AfterWrite(p, FALSE)]
  /\ fd' = [fd EXCEPT ![p] = {}]
  /\ UNCHANGED <<drive, cipherVars, calls, path, tmp, history, spent>>

\* Fails also when another process has renamed the file.
Rename(p) ==
  /\ pc[p] = "rename"
  /\ \/ tmp # {} /\ path' = tmp /\ tmp' = {}
     \/ UNCHANGED <<path, tmp>>
  /\ pc' = [pc EXCEPT ![p] = AfterSave(p)]
  /\ UNCHANGED <<drive, cipherVars, calls, content, fd, history, spent>>

Step(p) ==
  \/ New(p) \/ Exit(p)
  \/ SetSeed(p) \/ SetMaxSeedSearch(p) \/ FindSeed(p)
  \/ Unscramble(p) \/ UnscrambleTooShort(p) \/ Decode(p) \/ Return(p)
  \/ Save(p) \/ Open(p) \/ Write(p) \/ Rename(p)

Next == \E p \in Procs : Step(p)
Spec == Init /\ [][Next]_vars
=============================================================================
