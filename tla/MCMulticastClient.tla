--------------------------- MODULE MCMulticastClient ---------------------------
(* Instances of MulticastClient for TLC: datagrams up to one cell longer than
   the buffer.                                                             *)
EXTENDS MulticastClient
==============================================================================
