---------------------------- MODULE WasmDecoder ----------------------------
(***************************************************************************)
(* The push decoder behind its WebAssembly binding (crates/rvz-wasm): the  *)
(* client feeds it and copies each output into a buffer of its own, which  *)
(* may be too small; it then takes a larger one and tries again.           *)
(***************************************************************************)
EXTENDS PushDecoder

CONSTANT Capacities      \* sizes of the client's first buffer

VARIABLES
  cap,       \* the buffer of the client
  received,  \* outputs copied to the client, in order
  refused    \* the output that did not fit, until something else is copied

client == <<cap, received, refused>>

WasmInit ==
  /\ Init
  /\ cap \in Capacities
  /\ received = <<>>
  /\ refused = <<>>

WasmFeed == (Feed \/ Refused) /\ UNCHANGED client

\* rvz_decoder_take_output: the output leaves the queue before its length is
\* compared with the buffer.
WasmTake ==
  /\ TakeOutput
  /\ \/ /\ outputs = <<>>
        /\ UNCHANGED client
     \/ /\ outputs # <<>> /\ Head(outputs).len <= cap
        /\ received' = Append(received, Head(outputs))
        /\ refused' = <<>>
        /\ UNCHANGED cap
     \/ /\ outputs # <<>> /\ Head(outputs).len > cap
        /\ refused' = <<Head(outputs)>>
        /\ cap' = Head(outputs).len
        /\ UNCHANGED received

WasmNext == WasmFeed \/ WasmTake

WasmSpec == WasmInit /\ [][WasmNext]_<<vars, client>>

(* rvz-wasm/src/lib.rs:140 says that a caller whose buffer was too small   *)
(* can try again with a larger one: the output that did not fit is then    *)
(* the next one to be taken.                                               *)
RefusedOutputComesNext == refused # <<>> => outputs # <<>> /\ Head(outputs) = refused[1]
=============================================================================
