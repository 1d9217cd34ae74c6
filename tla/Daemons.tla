------------------------------ MODULE Daemons -------------------------------
(***************************************************************************)
(* Local daemon processes (daemon/main.go, daemon/api.go) and what the     *)
(* application knows of them: the socket path, aimlessd.pid and a child    *)
(* handle (gtkui.py, class DaemonSupervisor).                              *)
(*                                                                         *)
(* A daemon takes the lock of its data directory, opens the database, and  *)
(* listens.  It closes the listener first when it is told to end, and the  *)
(* database and the overlay afterwards.  The lock file's handle is local   *)
(* to acquireLock, so the runtime closes it, and gives the lock up, when   *)
(* it collects the handle.                                                 *)
(***************************************************************************)
EXTENDS Naturals, FiniteSets

CONSTANT Daemonlings  \* identifiers of daemon processes

ASSUME DaemonlingsAssumption == Daemonlings \subseteq Nat \ {0}

VARIABLES dstate,      \* what each daemon process does
          dlock,       \* processes that hold the data directory's lock
          term,        \* processes with a SIGTERM pending
          apiSock,     \* the process that bound the path last, 0 for no file
          dpid,        \* aimlessd.pid, 0 for none
          dchild       \* the application's child handle, 0 for None

daemonVars == <<dstate, dlock, term, apiSock, dpid, dchild>>

DaemonsInit == /\ dstate = [d \in Daemonlings |-> "none"]
               /\ dlock = {} /\ term = {}
               /\ apiSock = 0 /\ dpid = 0 /\ dchild = 0

LiveDaemons == {d \in Daemonlings : dstate[d] # "none"}

\* Daemons that have passed acquireLock and so use the data directory.
Users == {d \in Daemonlings : dstate[d] \in {"locked", "up", "closing"}}

\* is_running: somebody listens at the path.
Listening == apiSock # 0 /\ dstate[apiSock] = "up"

-----------------------------------------------------------------------------
\* A daemon process.

DaemonGone(d) == /\ dstate' = [dstate EXCEPT ![d] = "none"]
                 /\ dlock' = dlock \ {d} /\ term' = term \ {d}

\* acquireLock: without the lock the daemon ends at once.
TakeLock(d) == /\ dstate[d] = "boot" /\ d \notin term
               /\ IF dlock = {}
                  THEN /\ dlock' = {d}
                       /\ dstate' = [dstate EXCEPT ![d] = "locked"]
                       /\ UNCHANGED term
                  ELSE DaemonGone(d)
               /\ UNCHANGED <<apiSock, dpid, dchild>>

\* NewAPIServer removes what is at the path and listens.
Listen(d) == /\ dstate[d] = "locked" /\ d \notin term
             /\ dstate' = [dstate EXCEPT ![d] = "up"]
             /\ apiSock' = d
             /\ UNCHANGED <<dlock, term, dpid, dchild>>

\* SIGTERM ends a daemon that does not listen yet; afterwards it closes its
\* listener, which removes the path, whoever has bound it since.
Obey(d) == /\ d \in term
           /\ IF dstate[d] = "up"
              THEN /\ dstate' = [dstate EXCEPT ![d] = "closing"]
                   /\ term' = term \ {d}
                   /\ apiSock' = 0
                   /\ UNCHANGED dlock
              ELSE DaemonGone(d) /\ UNCHANGED apiSock
           /\ UNCHANGED <<dpid, dchild>>

\* The deferred calls are done.
DaemonExit(d) == /\ dstate[d] = "closing"
                 /\ DaemonGone(d)
                 /\ UNCHANGED <<apiSock, dpid, dchild>>

DaemonCrash(d) == /\ dstate[d] # "none"
                  /\ DaemonGone(d)
                  /\ UNCHANGED <<apiSock, dpid, dchild>>

\* The runtime collects the lock's file handle and closes it.
CollectLock(d) == /\ d \in dlock
                  /\ dlock' = dlock \ {d}
                  /\ UNCHANGED <<dstate, term, apiSock, dpid, dchild>>

DaemonActs(d) == TakeLock(d) \/ Listen(d) \/ Obey(d) \/ DaemonExit(d)

-----------------------------------------------------------------------------
\* DaemonSupervisor.

FreshDaemons == Daemonlings \ LiveDaemons

\* spawn: the new process is the application's child and is written down; a file
\* that cannot be written stays as it is, and nobody is told.
SpawnDaemon ==
    \E d \in FreshDaemons :
       /\ \A other \in FreshDaemons : d <= other
       /\ dstate' = [dstate EXCEPT ![d] = "boot"]
       /\ dchild' = d /\ dpid' \in {d, dpid}
       /\ UNCHANGED <<dlock, term, apiSock>>

PidFromSocket == IF Listening THEN {apiSock} ELSE {}
PidFromFile == {dpid} \ {0}
PidFromProcs == LiveDaemons

\* Deviation: stop knows its own child only.
DaemonTargetsChild == {dchild} \ {0}

\* stop asks the daemon itself for its pid, then looks into the pid file, at
\* its own child, and at last for a process with this data directory.
DaemonTargets == CASE PidFromSocket # {} -> PidFromSocket
                   [] PidFromSocket = {} /\ PidFromFile # {} -> PidFromFile
                   [] PidFromSocket = {} /\ PidFromFile = {} /\ dchild # 0 -> {dchild}
                   [] OTHER -> PidFromProcs
=============================================================================
