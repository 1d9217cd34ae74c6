-------------------------- MODULE MCDeliveryTicks ---------------------------
(* A text and a file of two chunks, each to a room of two other members.    *)
EXTENDS DeliveryTicks

CONSTANTS text, picture, ann, bob, a0, b0, a1, a2, b1, b2

MCKeysOf == [m \in {text, picture} |-> IF m = text THEN {a0, b0} ELSE {a1, a2, b1, b2}]
MCRecipientOf == [k \in {a0, a1, a2, b0, b1, b2} |-> IF k \in {a0, a1, a2} THEN ann ELSE bob]
=============================================================================
