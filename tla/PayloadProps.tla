---------------------------- MODULE PayloadProps ----------------------------
(* What the payload of a chunk of partition data has to bring along.       *)
EXTENDS Payload, PackingProps

\* Every byte of a hash header is that of the disc again: one that is not
\* as recomputed came with an exception, and exceptions that overlap or
\* belong to other blocks of the chunk spoil none (encoder.rs:350,
\* decoder.rs:419, decoder.rs:323).
HeadersRestored ==
  stage = "end" /\ verdict = "ok" =>
    \A b \in {c \in Blocks : c < expected \div BlockData} : \A y \in 0 .. HeaderSize - 1 :
      \/ headers[b][y] = <<b, y>>
      \/ headers[b][y] = Computed /\ y \notin differs[b]

\* The reader takes the data of the chunk from where the encoder put them,
\* though both work out by themselves whether the list is padded
\* (encoder.rs:561, decoder.rs:400).
DataIsFound == stage \in {"unpack", "apply"} => mainAt = stored.list + stored.pad
=============================================================================
