----------------------------- MODULE MCReplayFiles -----------------------------
(* Instances of ReplayFiles for TLC: a socket that holds one or two messages *)
(* and a midnight, so that messages are dropped and two files are written.   *)
EXTENDS ReplayFiles
==============================================================================
