------------------------ MODULE MCProducerConsumer --------------------------
(* Seven items, urging from a lag of two: the producer urges, is caught up *)
(* with, and scans a queue that is still being consumed.                   *)
EXTENDS ProducerConsumer

MCworkload == 7
MCGap == 2
=============================================================================
