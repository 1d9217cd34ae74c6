------------------------------- MODULE MCApp --------------------------------
(* The application with a few processes of each kind.                      *)
EXTENDS App

CONSTANTS MaxPid, MaxDaemon

MCPids == 1..MaxPid
MCDaemonlings == 1..MaxDaemon
=============================================================================
