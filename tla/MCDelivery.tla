----------------------------- MODULE MCDelivery -----------------------------
(* The message stream on small instances: MaxSeq messages, an inbox that    *)
(* keeps only the newest one, and the shortest outbound queues.             *)
EXTENDS Delivery

CONSTANT MaxSeq

MCSeqs == 1..MaxSeq
=============================================================================
