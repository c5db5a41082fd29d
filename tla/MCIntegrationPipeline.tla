------------------------- MODULE MCIntegrationPipeline -------------------------
(* Instances of IntegrationPipeline for TLC: one type of message for each   *)
(* way crawl() has to start its crawler and the writer to treat a message.  *)
EXTENDS IntegrationPipeline
==============================================================================
