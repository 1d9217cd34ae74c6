--------------------------- MODULE MCAttachments ----------------------------
(* Two transfers, of two chunks and of one, that do not fit together.       *)
EXTENDS Attachments

MCTotal == [t \in 1..2 |-> 3 - t]
MCSize == [t \in 1..2 |-> t]
MCTs == [c \in Chunks |-> 2 * c[1] + c[2]]
=============================================================================
