---------------------------- MODULE MCReplayHistory ----------------------------
(* Instances of ReplayHistory for TLC: an outbox of one place, so that every *)
(* message has to wait for the client to read the one before.                *)
EXTENDS ReplayHistory
==============================================================================
