---------------------------- MODULE MCInboxStore ----------------------------
(* The receive log on its own: twelve messages arriving in any order and    *)
(* any number of times, against a capacity of two (a guard of eight), so    *)
(* that both windows overflow.                                              *)
EXTENDS InboxStore

MCSeqs == 1..12
=============================================================================
