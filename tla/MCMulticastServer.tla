-------------------------- MODULE MCMulticastServer --------------------------
(* Instances of MulticastServer for TLC.                                    *)
EXTENDS MulticastServer

(* Files with up to two entries, the same url twice included.              *)
SmallConfigs == SeqOf(Types \X Urls, 2)
==============================================================================
