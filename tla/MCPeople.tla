------------------------------ MODULE MCPeople ------------------------------
(* Two people, one of whom is followed on the contact list.                *)
EXTENDS People
=============================================================================
