--------------------------- MODULE MCPublisherConnect ---------------------------
(* Instances of PublisherConnect for TLC.                                   *)
EXTENDS PublisherConnect

(* A network without faults, for liveness, and the worst one, which does all
   that any other does.                                                     *)
BestAndWorst == {{}, Faults}
==============================================================================
