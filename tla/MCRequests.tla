----------------------------- MODULE MCRequests -----------------------------
(* Calls of one client: those up to Before have timed out, those above     *)
(* SameOp ask for another operation.                                       *)
EXTENDS Requests

CONSTANTS Calls, SameOp, Before

MCReqs == 1..Calls
MCGivenUp == 1..Before
MCOp == [r \in MCReqs |-> IF r <= SameOp THEN "send" ELSE "history"]
=============================================================================
