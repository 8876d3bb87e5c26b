--------------------------- MODULE MCPullDecoder ---------------------------
(* PullDecoder on the containers of MCContainers.                          *)
EXTENDS PullDecoderProps, MCContainers
=============================================================================
