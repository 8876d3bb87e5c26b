--------------------------- MODULE MCWasmDecoder ---------------------------
(* The binding on the containers of MCContainers, with a buffer smaller    *)
(* than a chunk.                                                           *)
EXTENDS WasmDecoder, MCContainers
=============================================================================
