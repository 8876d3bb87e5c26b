---------------------------- MODULE PackingProps ----------------------------
(* What packing a chunk and unpacking it again must and must not do.       *)
EXTENDS Packing

CONSTANT Pads  \* stretches of chunks that are padding of a disc

\* Padding is the stream of a seed, which starts over in each block.
ASSUME PadsAssumption ==
  \A d \in Pads :
    /\ d.from \in Nat /\ d.to \in Nat
    /\ \E s \in Seeds : \A x \in d.from .. d.to - 1 :
         d.bytes[x] = Stream(s, (d.offset + x) % Block)

Runs == [from : Nat, to : Nat, seed : Seeds]
Verdicts == {"none", "ok", "PaddingOverflow", "BadRecord", "UnconsumedInput", "SizeMismatch",
             "PackingSizeMismatch", "panic"}

TypeOK ==
  /\ size \in Nat \ {0} /\ data \in [0 .. size - 1 -> Bit] /\ offset \in Nat
  /\ pc \in {"scan", "emit", "unpack", "done"}
  /\ position \in 0 .. size /\ junk \in Seq(Runs)
  /\ current \in 0 .. size /\ packed \in Nat
  /\ starts \in Seq(Nat)
  /\ \A i \in DOMAIN parts : /\ parts[i].junk \in BOOLEAN /\ parts[i].size \in Nat
                            /\ parts[i].seed \in Seeds
  /\ claimed \in Nat /\ expected \in Nat
  /\ read \in Nat /\ written \in 0 .. expected
  /\ output \in [0 .. expected - 1 -> Bit]
  /\ verdict \in Verdicts

\* The run begins in the last word of a generation, behind its first byte:
\* get_seed counts the generation from the next whole word (lfg.rs:245) and
\* compares the bytes before it with those of the wrong generation.
Straddles(r) == ComparedFrom(Phase(r.from)) # Phase(r.from)

\* The chunk is restored byte by byte but for bytes that were taken for
\* padding in a run that straddles two generations.
UnpackRestores ==
  verdict = "ok" /\ expected = size =>
    \A x \in 0 .. size - 1 :
      \/ output[x] = data[x]
      \/ \E i \in DOMAIN junk : Straddles(junk[i]) /\ x \in junk[i].from .. junk[i].to - 1

\* What tests/pack_unpack.rs:87 asserts of packing and unpacking.
RoundTrip == verdict = "ok" /\ expected = size => output = data

\* unpack accepts a packed chunk exactly when the tables agree with its size
\* and its packed size, which is counted apart from its records: no record
\* is lost, cut or left over, however runs and literal bytes are mixed.
AcceptsItsSize ==
  pc = "done" /\ packed # 0 => (verdict = "ok" <=> (expected = size /\ claimed = packed))

\* A window that is padding throughout is found as one run, to its end,
\* with a seed that reproduces it: the backward steps of the search undo
\* the forward steps of the reader.
PaddingIsFound ==
  [][\A d \in {e \in Pads : e.offset = offset /\ e.bytes = data}, p \in position .. size - 1 :
       (/\ pc = "scan" /\ pc' = "scan" /\ AfterZeroes(p)
        /\ d.from <= p /\ p + WindowLength(p) <= d.to
        /\ WindowLength(p) >= Skip(Phase(p)) + Cells
        /\ ComparedFrom(Phase(p)) = Phase(p))
       => \E s \in Seeds :
            junk' = Append(junk, [from |-> p, to |-> p + WindowLength(p), seed |-> s])]_vars

\* Packing comes to an end: every turn of its loops takes bytes off the rest.
Packs == <>(pc = "done")
=============================================================================
