------------------------------- MODULE Tunnel -------------------------------
(***************************************************************************)
(* The SSH tunnel to a remote daemon (client/aimless/tunnel.py, class      *)
(* TunnelSupervisor).  The ssh process is detached and outlives whoever    *)
(* started it; what ties it to the client is the supervisor's child handle *)
(* while that process runs, and tunnel.pid afterwards.  The application    *)
(* and each command line call have a supervisor of their own and share the *)
(* pid file and the forwarded socket; in the application the main thread   *)
(* and the first connection's worker share one supervisor.                 *)
(***************************************************************************)
EXTENDS Naturals, FiniteSets

CONSTANTS Pids,        \* process identifiers
          MaxFaults    \* bound: faults of ssh in a behaviour

ASSUME PidsAssumption == Pids \subseteq Nat \ {0}
ASSUME FaultsAssumption == MaxFaults \in Nat

Threads == {"main", "worker", "cli"}
ProcessOf(t) == IF t = "cli" THEN "cli" ELSE "app"

VARIABLES ssh,         \* live ssh processes
          alien,       \* pids of our ended processes that others have got since
          forwarding,  \* those that have bound the socket
          sockFile,    \* the local socket exists
          tunnelPid,   \* tunnel.pid, 0 for none
          child,       \* the child handle of each process, 0 for None
          step,        \* what each thread does with its supervisor
          faults       \* faults so far

tunnelVars == <<ssh, alien, forwarding, sockFile, tunnelPid, child, step, faults>>

TunnelInit == /\ ssh = {} /\ alien = {} /\ forwarding = {}
              /\ sockFile = FALSE /\ tunnelPid = 0
              /\ child = [p \in {"app", "cli"} |-> 0]
              /\ step = [t \in Threads |-> "idle"]
              /\ faults = 0

\* A process that is not a zombie, whosever it is; the pid file's is ours if it
\* is an ssh with our socket on its command line.
PidAlive(pid) == pid \in ssh \cup alien
IsOurSsh(pid) == pid \in ssh

\* is_running: the child if it lives, otherwise the process of the pid file.
TunnelRunning(p) == /\ child[p] \in ssh \/ PidAlive(tunnelPid)
                    /\ sockFile

-----------------------------------------------------------------------------
\* stop: the child if there is a handle, otherwise the pid file's process, is
\* ended and waited for; a handle's pid gets the signal whosever it is by now.
StopTarget(p) == CASE child[p] # 0 -> child[p]
                   [] child[p] = 0 /\ IsOurSsh(tunnelPid) -> tunnelPid
                   [] OTHER -> 0

StopKill(t, at, next) ==
    /\ step[t] = at
    /\ ssh' = ssh \ {StopTarget(ProcessOf(t))}
    /\ alien' = alien \ {StopTarget(ProcessOf(t))}
    /\ forwarding' = forwarding \ {StopTarget(ProcessOf(t))}
    /\ step' = [step EXCEPT ![t] = next]
    /\ UNCHANGED <<sockFile, tunnelPid, child, faults>>

\* Deviation: the pid file outlives the tunnel.
StopCleanKeepsPid(t, at, next) ==
    /\ step[t] = at
    /\ child' = [child EXCEPT ![ProcessOf(t)] = 0]
    /\ sockFile' = FALSE
    /\ step' = [step EXCEPT ![t] = next]
    /\ UNCHANGED <<ssh, alien, forwarding, tunnelPid, faults>>

\* Then the handle, the pid file and the socket go.
StopClean(t, at, next) ==
    /\ step[t] = at
    /\ child' = [child EXCEPT ![ProcessOf(t)] = 0]
    /\ tunnelPid' = 0
    /\ sockFile' = FALSE
    /\ step' = [step EXCEPT ![t] = next]
    /\ UNCHANGED <<ssh, alien, forwarding, faults>>

-----------------------------------------------------------------------------
\* restart: stop, spawn, wait for the socket.

FreshPid == Pids \ (ssh \cup alien \cup {tunnelPid} \cup {child[p] : p \in {"app", "cli"}})

Spawn(t) == /\ step[t] = "spawn"
            /\ \E pid \in FreshPid :
                  /\ \A other \in FreshPid : pid <= other
                  /\ ssh' = ssh \cup {pid}
                  /\ child' = [child EXCEPT ![ProcessOf(t)] = pid]
            /\ step' = [step EXCEPT ![t] = "write"]
            /\ UNCHANGED <<alien, forwarding, sockFile, tunnelPid, faults>>

\* ssh cannot be started at all.
SpawnRaises(t) == /\ step[t] = "spawn"
                  /\ faults < MaxFaults
                  /\ faults' = faults + 1
                  /\ step' = [step EXCEPT ![t] = "raised"]
                  /\ UNCHANGED <<ssh, alien, forwarding, sockFile, tunnelPid, child>>

\* Deviation: the new process is not written down.
WritePidNot(t) == /\ step[t] = "write"
                  /\ step' = [step EXCEPT ![t] = "wait"]
                  /\ UNCHANGED <<ssh, alien, forwarding, sockFile, tunnelPid, child, faults>>

WritePid(t) == /\ step[t] = "write"
               /\ tunnelPid' = child[ProcessOf(t)]
               /\ step' = [step EXCEPT ![t] = "wait"]
               /\ UNCHANGED <<ssh, alien, forwarding, sockFile, child, faults>>

\* The file cannot be written, or is left empty; nobody is told.
WritePidFails(t) == /\ step[t] = "write"
                    /\ faults < MaxFaults
                    /\ faults' = faults + 1
                    /\ tunnelPid' \in {tunnelPid, 0}
                    /\ step' = [step EXCEPT ![t] = "wait"]
                    /\ UNCHANGED <<ssh, alien, forwarding, sockFile, child>>

\* wait_for_socket: a child that exited is noticed before a socket is.
SocketUp(t) == /\ step[t] = "wait"
               /\ child[ProcessOf(t)] \in ssh \cup {0} /\ sockFile
               /\ step' = [step EXCEPT ![t] = "up"]
               /\ UNCHANGED <<ssh, alien, forwarding, sockFile, tunnelPid, child, faults>>

\* The child exited, or 20 s have passed; that is a fault of ssh unless
\* somebody has removed the socket under it.
SocketNot(t) == /\ step[t] = "wait"
                /\ child[ProcessOf(t)] \in ssh \cup {0} => ~sockFile
                /\ IF child[ProcessOf(t)] \in ssh \ forwarding
                   THEN faults < MaxFaults /\ faults' = faults + 1
                   ELSE UNCHANGED faults
                /\ step' = [step EXCEPT ![t] = "down"]
                /\ UNCHANGED <<ssh, alien, forwarding, sockFile, tunnelPid, child>>

-----------------------------------------------------------------------------
\* The ssh process: it connects and binds the socket, replacing one that is
\* there (StreamLocalBindUnlink); it may end at any time and leaves it behind.
Forward(pid) == /\ pid \in ssh \ forwarding
                /\ forwarding' = forwarding \cup {pid}
                /\ sockFile' = TRUE
                /\ UNCHANGED <<ssh, alien, tunnelPid, child, step, faults>>

SshEnds(pid) == /\ pid \in ssh
                /\ faults < MaxFaults
                /\ faults' = faults + 1
                /\ ssh' = ssh \ {pid} /\ forwarding' = forwarding \ {pid}
                /\ UNCHANGED <<alien, sockFile, tunnelPid, child, step>>

\* Another process gets the pid that the file still holds.
PidRecycled == /\ tunnelPid \in Pids \ (ssh \cup alien)
               /\ faults < MaxFaults
               /\ faults' = faults + 1
               /\ alien' = alien \cup {tunnelPid}
               /\ UNCHANGED <<ssh, forwarding, sockFile, tunnelPid, child, step>>

AlienEnds(pid) == /\ pid \in alien
                  /\ alien' = alien \ {pid}
                  /\ UNCHANGED <<ssh, forwarding, sockFile, tunnelPid, child, step, faults>>

RestartStep(t) == \/ StopKill(t, "kill", "clean") \/ StopClean(t, "clean", "spawn")
                  \/ Spawn(t) \/ SpawnRaises(t) \/ WritePid(t)
                  \/ SocketUp(t) \/ SocketNot(t)

SshStep == \/ \E pid \in Pids : Forward(pid) \/ SshEnds(pid) \/ AlienEnds(pid)
           \/ PidRecycled
=============================================================================
