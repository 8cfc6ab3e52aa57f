---------------------------- MODULE MCIngestLock ----------------------------
(* Instances of IngestLock for TLC.                                         *)
EXTENDS IngestLock

AllHandlers == DOMAIN Sections
=============================================================================
