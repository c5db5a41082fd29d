---------------------------- MODULE MCReplayConfig ----------------------------
(* Instances of ReplayConfig for TLC.                                       *)
EXTENDS ReplayConfig
==============================================================================
