--------------------------- MODULE MCDecoderPair ---------------------------
(* Both decoders on the containers of MCContainers.                        *)
EXTENDS DecoderPair, MCContainers
=============================================================================
