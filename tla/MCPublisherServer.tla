-------------------------- MODULE MCPublisherServer --------------------------
(* Instances of PublisherServer for TLC: the constants are model values and *)
(* small numbers given in the .cfg files.                                   *)
EXTENDS PublisherServer
==============================================================================
