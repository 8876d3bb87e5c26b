--------------------------- MODULE MCPushDecoder ---------------------------
(* PushDecoder on the containers of MCContainers.                          *)
EXTENDS PushDecoderProps, MCContainers
=============================================================================
