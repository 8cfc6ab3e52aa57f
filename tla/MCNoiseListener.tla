-------------------------- MODULE MCNoiseListener --------------------------
(* Three connections compete for two slots; every action of the listener, of  *)
(* the handshakes and of closing interleaves.                                 *)
EXTENDS NoiseListener
=============================================================================
