--------------------------- MODULE MCNoiseSession ---------------------------
(* Keys rotate after three operations, in the middle of every other message,    *)
(* and a Write of three bytes is cut into two messages.                       *)
EXTENDS NoiseSession
=============================================================================
