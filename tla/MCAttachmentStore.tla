------------------------- MODULE MCAttachmentStore --------------------------
(* Four transfers of different lengths and chunk sizes, one of which needs  *)
(* the room of several others.  Transfers 1 and 2 are sent interleaved, so  *)
(* that which of them is older depends on the chunks that are held; 3 and 4 *)
(* have one age.                                                            *)
EXTENDS AttachmentStore

MCTotal == [t \in 1..4 |-> IF t = 4 THEN 1 ELSE IF t = 3 THEN 3 ELSE 2]
MCSize == [t \in 1..4 |-> IF t = 4 THEN 4 ELSE IF t = 3 THEN 2 ELSE 1]
MCTs == [c \in Chunks |-> IF c[1] <= 2 THEN 2 * c[2] + c[1] ELSE 9]
=============================================================================
