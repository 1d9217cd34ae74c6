---------------------------- MODULE MCClientSync ----------------------------
(* A client and its daemon on small instances: MaxSeq messages in two       *)
(* conversations, one of which the user may dismiss.                        *)
EXTENDS ClientSync

CONSTANT MaxSeq

MCSeqs == 1..MaxSeq
=============================================================================
