-------------------------------- MODULE App ---------------------------------
(***************************************************************************)
(* The life of the application (client/aimless/gtkui.py: acquire_app_lock, *)
(* AimlessApp, stop_all; cli.py: ensure_tunnel).  It keeps a daemon: a     *)
(* local process, or a remote one behind an SSH tunnel.  Which of the two  *)
(* is a matter of preferences and does not change while it runs.           *)
(*                                                                         *)
(* The lock on app.pid lets one instance run at a time; another launch     *)
(* sends that one a signal and ends.                                       *)
(***************************************************************************)
EXTENDS Tunnel, Daemons

VARIABLES external,    \* the remote mode
          phase,       \* what the application does
          armed,       \* it has a handler for SIGUSR1
          victim,      \* the daemon it is stopping, 0 for none
          awaiting,    \* _awaiting_connect
          fail,        \* _tunnel_fail
          restarting,  \* _tunnel_restarting
          timers,      \* pending timers of the main loop
          strayed,     \* history: a quit or crash cut off a thread that was
                       \* starting ssh, the command line restarted the tunnel
                       \* of a running application, or tunnel.pid could not be
                       \* written
          raised,      \* history: starting ssh failed on the main thread
          shared       \* history: two daemons used the directory, or the
                       \* application ended or gave up while one started

lifeVars == <<phase, armed, victim>>
remoteVars == <<awaiting, fail, restarting, timers>>
history == <<strayed, raised, shared>>
appVars == <<tunnelVars, daemonVars, external, lifeVars, remoteVars, history>>

\* Set up, and neither quitting nor gone.
Working == {"ready", "polling", "restopping", "restarted"}

AppInit == /\ TunnelInit /\ DaemonsInit
           /\ external \in BOOLEAN
           /\ phase = "off" /\ armed = FALSE /\ victim = 0
           /\ awaiting = FALSE /\ fail = 0 /\ restarting = FALSE /\ timers = {}
           /\ strayed = FALSE /\ raised = FALSE /\ shared = FALSE

-----------------------------------------------------------------------------
\* The process ends: its handles and timers are gone, and its threads stop
\* where they are.
ProcessEnds ==
    /\ phase' = "off" /\ armed' = FALSE /\ victim' = 0
    /\ dchild' = 0
    /\ child' = [child EXCEPT !["app"] = 0]
    /\ step' = [step EXCEPT !["main"] = "idle", !["worker"] = "idle"]
    /\ awaiting' = FALSE /\ fail' = 0 /\ restarting' = FALSE /\ timers' = {}
    /\ strayed' = (strayed \/ step["worker"] = "write" \/ step["main"] = "write")
    /\ shared' = (shared \/ phase \in {"ensuring", "polling"})
    /\ UNCHANGED <<ssh, alien, forwarding, sockFile, tunnelPid, dstate, dlock, term, apiSock,
                   dpid, external, raised>>

Disturbance == faults < MaxFaults /\ faults' = faults + 1

\* The process is killed, or SIGTERM reaches it before it has a handler.
KillApp == /\ phase # "off"
           /\ Disturbance
           /\ ProcessEnds

-----------------------------------------------------------------------------
\* _setup.

\* acquire_app_lock succeeds.
Launch == /\ phase = "off"
          /\ phase' = "setup"
          /\ strayed' = (strayed \/ step["cli"] # "idle")
          /\ UNCHANGED <<tunnelVars, daemonVars, external, armed, victim, remoteVars,
                         raised, shared>>

\* Another launch finds the lock taken and sends its holder a SIGUSR1.  The
\* handler shows the window and removes itself; without one the signal ends
\* the process.
LaunchSecond == /\ phase # "off"
                /\ IF armed
                   THEN /\ armed' = FALSE
                        /\ UNCHANGED <<tunnelVars, daemonVars, external, phase, victim,
                                       remoteVars, history>>
                   ELSE Disturbance /\ ProcessEnds

\* Deviation: the poll starts no daemon.
EnsureSpawnNotFromPoll ==
    /\ ~external
    /\ phase \in {"setup", "restarted"} /\ ~Listening
    /\ SpawnDaemon
    /\ phase' = IF phase = "setup" THEN "ensuring" ELSE "polling"
    /\ UNCHANGED <<tunnelVars, external, armed, victim, remoteVars, history>>

\* ensure on the main thread: at start-up, after a stop, and whenever the poll
\* finds nobody at the socket.
EnsureSpawn == /\ ~external
               /\ phase \in {"setup", "ready", "restarted"} /\ ~Listening
               /\ phase = "ready" => "poll" \in timers
               /\ SpawnDaemon
               /\ phase' = IF phase = "setup" THEN "ensuring" ELSE "polling"
               /\ UNCHANGED <<tunnelVars, external, armed, victim, remoteVars, history>>

\* spawn raises: there is no binary (RuntimeError), or it cannot be executed
\* (OSError).  Either ends a start-up, and restart_daemon ignores both; the
\* poll expects the first only, and the other one ends its timer.
EnsureRaises(error) ==
    /\ ~external /\ ~Listening
    /\ Disturbance
    /\ \/ phase = "setup" /\ phase' = "off" /\ UNCHANGED timers
       \/ phase = "restarted" /\ phase' = "ready" /\ UNCHANGED timers
       \/ /\ phase = "ready" /\ "poll" \in timers
          /\ timers' = IF error = "OSError" THEN timers \ {"poll"} ELSE timers
          /\ UNCHANGED phase
    /\ UNCHANGED <<ssh, alien, forwarding, sockFile, tunnelPid, child, step, daemonVars,
                   external, armed, victim, awaiting, fail, restarting, history>>

\* At start-up a daemon is there; the window opens behind an unlock dialog,
\* and then the signal handlers and the timers are installed.
SetupDone ==
    /\ phase \in {"setup", "ensuring"}
    /\ external \/ Listening
    /\ phase' = "ready" /\ armed' = TRUE
    /\ IF external
       THEN /\ awaiting' = TRUE
            /\ step' = [step EXCEPT !["worker"] = "ensure"]
            /\ timers' = {"poll", "probe"}
       ELSE timers' = {"poll"} /\ UNCHANGED <<awaiting, step>>
    /\ UNCHANGED <<ssh, alien, forwarding, sockFile, tunnelPid, child, faults, daemonVars,
                   external, victim, fail, restarting, history>>

\* ensure gives up: its child has exited, or 20 s have passed with a child
\* that is slow (a fault) or whose socket was taken from it.
GivesUp == /\ ~Listening
           /\ IF dchild \in LiveDaemons
              THEN /\ shared' = TRUE
                   /\ IF dstate[dchild] \in {"boot", "locked"} THEN Disturbance
                      ELSE UNCHANGED faults
              ELSE UNCHANGED <<faults, shared>>

\* At start-up that ends the application.
SetupFails == /\ phase = "ensuring"
              /\ GivesUp
              /\ phase' = "off" /\ dchild' = 0
              /\ UNCHANGED <<ssh, alien, forwarding, sockFile, tunnelPid, child, step, dstate,
                             dlock, term, apiSock, dpid, external, armed, victim,
                             remoteVars, strayed, raised>>

\* The poll's ensure comes back, with a daemon or without.
PollEnds == /\ phase = "polling"
            /\ GivesUp \/ (Listening /\ UNCHANGED <<faults, shared>>)
            /\ phase' = "ready"
            /\ UNCHANGED <<ssh, alien, forwarding, sockFile, tunnelPid, child, step, daemonVars,
                           external, armed, victim, remoteVars, strayed, raised>>

-----------------------------------------------------------------------------
\* Stopping: quit, and restart_daemon after the node's key has changed.

\* DaemonSupervisor.stop asks the daemon to end ...
StopDaemon(next) ==
    /\ phase = "ready" /\ ~external
    /\ \E d \in (IF DaemonTargets = {} THEN {0} ELSE DaemonTargets) :
          /\ victim' = d
          /\ term' = term \cup ({d} \cap LiveDaemons)
    /\ phase' = next
    /\ UNCHANGED <<tunnelVars, dstate, dlock, apiSock, dpid, dchild, external, armed,
                   remoteVars, history>>

Quit == StopDaemon("stopping")
RestartDaemon == StopDaemon("restopping")

\* ... waits until nobody listens, or kills it after 5 s; then the pid file
\* goes, whatever it holds by now.
StopEnds ==
    /\ phase \in {"stopping", "restopping"} /\ ~external
    /\ IF Listening /\ victim \in LiveDaemons
       THEN DaemonGone(victim)
       ELSE UNCHANGED <<dstate, dlock, term>>
    /\ dpid' = 0 /\ victim' = 0
    /\ phase' = IF phase = "stopping" THEN "closing" ELSE "restarted"
    /\ UNCHANGED <<tunnelVars, apiSock, dchild, external, armed, remoteVars, history>>

\* restart_daemon's ensure finds a daemon.
RestartFound == /\ phase = "restarted" /\ Listening
                /\ phase' = "ready"
                /\ UNCHANGED <<tunnelVars, daemonVars, external, armed, victim, remoteVars,
                               history>>

\* The end of quit: the lock is released and app.pid removed.
QuitEnds == /\ phase = "closing"
            /\ ProcessEnds
            /\ UNCHANGED faults

\* stop_all, the daemons' part: every aimlessd gets a SIGTERM.  Its signal to
\* the application is Quit or KillApp.
StopAllDaemons == /\ ~external
                  /\ Disturbance
                  /\ term' = term \cup LiveDaemons
                  /\ UNCHANGED <<ssh, alien, forwarding, sockFile, tunnelPid, child, step,
                                 dstate, dlock, apiSock, dpid, dchild, external,
                                 lifeVars, remoteVars, history>>

-----------------------------------------------------------------------------
\* The remote mode: the first connection.

\* The worker of _try_connect: ensure restarts a tunnel that does not run.
ConnectEnsure == /\ step["worker"] = "ensure"
                 /\ step' = [step EXCEPT !["worker"] =
                                IF TunnelRunning("app") THEN "up" ELSE "kill"]
                 /\ UNCHANGED <<ssh, alien, forwarding, sockFile, tunnelPid, child, faults,
                                daemonVars, external, lifeVars, remoteVars, history>>

\* Its callback: connected if the remote daemon answers, else again in 3 s.
ConnectDone(answers) ==
    /\ step["worker"] \in {"up", "down", "raised"} /\ step["main"] = "idle"
    /\ answers => step["worker"] = "up" /\ sockFile /\ forwarding # {}
    /\ step' = [step EXCEPT !["worker"] = "idle"]
    /\ awaiting' = (awaiting /\ ~answers)
    /\ timers' = IF awaiting' THEN timers \cup {"retry"} ELSE timers
    /\ UNCHANGED <<ssh, alien, forwarding, sockFile, tunnelPid, child, faults, daemonVars,
                   external, lifeVars, fail, restarting, history>>

RetryConnect == /\ "retry" \in timers /\ step["main"] = "idle"
                /\ timers' = timers \ {"retry"}
                /\ step' = [step EXCEPT !["worker"] = IF awaiting THEN "ensure" ELSE @]
                /\ UNCHANGED <<ssh, alien, forwarding, sockFile, tunnelPid, child, faults,
                               daemonVars, external, lifeVars, awaiting, fail,
                               restarting, history>>

-----------------------------------------------------------------------------
\* The remote mode: keeping the tunnel.  Timers run on the main thread.

MainFree == external /\ phase = "ready" /\ step["main"] = "idle"

\* _schedule_tunnel_restart with the timers that are left.
Schedule(left) == IF restarting THEN timers' = left /\ UNCHANGED restarting
                  ELSE timers' = left \cup {"restart"} /\ restarting' = TRUE

PollTunnel == /\ MainFree /\ "poll" \in timers /\ ~awaiting /\ ~restarting
              /\ ~TunnelRunning("app")
              /\ Schedule(timers)
              /\ UNCHANGED <<tunnelVars, daemonVars, external, lifeVars, awaiting, fail,
                             history>>

\* probe_tunnel ends for good if it fires before the first connection.
ProbeTunnel ==
    /\ MainFree /\ "probe" \in timers /\ ~restarting
    /\ CASE awaiting ->
              timers' = timers \ {"probe"} /\ UNCHANGED <<fail, restarting>>
         [] ~awaiting /\ TunnelRunning("app") ->
              fail' = 0 /\ UNCHANGED <<timers, restarting>>
         [] ~awaiting /\ ~TunnelRunning("app") /\ fail = 0 ->
              fail' = 1 /\ timers' = timers \cup {"confirm"} /\ UNCHANGED restarting
         [] OTHER -> fail' = 0 /\ Schedule(timers)
    /\ UNCHANGED <<tunnelVars, daemonVars, external, lifeVars, awaiting, history>>

ConfirmTunnel ==
    /\ MainFree /\ "confirm" \in timers
    /\ CASE restarting -> timers' = timers \ {"confirm"} /\ UNCHANGED <<fail, restarting>>
         [] ~restarting /\ TunnelRunning("app") ->
              timers' = timers \ {"confirm"} /\ fail' = 0 /\ UNCHANGED restarting
         [] OTHER -> fail' = 0 /\ Schedule(timers \ {"confirm"})
    /\ UNCHANGED <<tunnelVars, daemonVars, external, lifeVars, awaiting, history>>

RestartTunnel == /\ MainFree /\ "restart" \in timers
                 /\ timers' = timers \ {"restart"}
                 /\ step' = [step EXCEPT !["main"] = "kill"]
                 /\ UNCHANGED <<ssh, alien, forwarding, sockFile, tunnelPid, child, faults,
                                daemonVars, external, lifeVars, awaiting, fail,
                                restarting, history>>

\* Deviation: the flag stays set after a restart that failed.
RestartTunnelEndsStuck ==
    /\ step["main"] \in {"up", "down", "raised"}
    /\ step' = [step EXCEPT !["main"] = "idle"]
    /\ restarting' = (step["main"] # "up")
    /\ raised' = (raised \/ step["main"] = "raised")
    /\ UNCHANGED <<ssh, alien, forwarding, sockFile, tunnelPid, child, faults, daemonVars,
                   external, lifeVars, awaiting, fail, timers, strayed, shared>>

\* The end of _do_tunnel_restart: up, or again with a longer delay.  An
\* exception leaves the flag set and no timer.
RestartTunnelEnds ==
    /\ step["main"] \in {"up", "down", "raised"}
    /\ step' = [step EXCEPT !["main"] = "idle"]
    /\ CASE step["main"] = "up" -> restarting' = FALSE /\ UNCHANGED timers
         [] step["main"] = "down" -> timers' = timers \cup {"restart"} /\ UNCHANGED restarting
         [] OTHER -> UNCHANGED <<timers, restarting>>
    /\ raised' = (raised \/ step["main"] = "raised")
    /\ UNCHANGED <<ssh, alien, forwarding, sockFile, tunnelPid, child, faults, daemonVars,
                   external, lifeVars, awaiting, fail, strayed, shared>>

\* Deviation: quit forgets that the first connection is not waited for.
QuitRemoteKeepsWaiting == /\ MainFree
                          /\ step' = [step EXCEPT !["main"] = "quitKill"]
                          /\ phase' = "stopping"
                          /\ UNCHANGED awaiting /\ timers' = {}
                          /\ strayed' = (strayed \/ step["worker"] # "idle")
                          /\ IF step["worker"] = "idle" THEN UNCHANGED faults ELSE Disturbance
                          /\ UNCHANGED <<ssh, alien, forwarding, sockFile, tunnelPid, child, daemonVars,
                                         external, armed, victim, fail, restarting, raised,
                                         shared>>

\* quit: stop on the main thread, with the worker perhaps still at it.
QuitRemote == /\ MainFree
              /\ step' = [step EXCEPT !["main"] = "quitKill"]
              /\ phase' = "stopping"
              /\ awaiting' = FALSE /\ timers' = {}
              /\ strayed' = (strayed \/ step["worker"] # "idle")
              /\ IF step["worker"] = "idle" THEN UNCHANGED faults ELSE Disturbance
              /\ UNCHANGED <<ssh, alien, forwarding, sockFile, tunnelPid, child, daemonVars,
                             external, armed, victim, fail, restarting, raised,
                             shared>>

QuitRemoteStep == \/ StopKill("main", "quitKill", "quitClean")
                  \/ StopClean("main", "quitClean", "quitDone")

QuitRemoteEnds == /\ step["main"] = "quitDone"
                  /\ step' = [step EXCEPT !["main"] = "idle"]
                  /\ phase' = "closing"
                  /\ UNCHANGED <<ssh, alien, forwarding, sockFile, tunnelPid, child, faults,
                                 daemonVars, external, armed, victim, remoteVars, history>>

-----------------------------------------------------------------------------
\* The command line: connect_daemon restarts a tunnel that does not run, with
\* a supervisor of its own, and leaves it behind.
CliEnsure == /\ external /\ step["cli"] = "idle"
             /\ ~TunnelRunning("cli")
             /\ Disturbance
             /\ step' = [step EXCEPT !["cli"] = "kill"]
             /\ strayed' = (strayed \/ phase # "off")
             /\ UNCHANGED <<ssh, alien, forwarding, sockFile, tunnelPid, child, daemonVars,
                            external, lifeVars, remoteVars, raised, shared>>

CliEnds == /\ step["cli"] \in {"up", "down", "raised"}
           /\ step' = [step EXCEPT !["cli"] = "idle"]
           /\ child' = [child EXCEPT !["cli"] = 0]
           /\ UNCHANGED <<ssh, alien, forwarding, sockFile, tunnelPid, faults, daemonVars,
                          external, lifeVars, remoteVars, history>>

-----------------------------------------------------------------------------
\* One step of a component, with what it does not touch.

DaemonLife(d) == /\ DaemonActs(d)
                 /\ shared' = (shared \/ Cardinality(Users') > 1)
                 /\ UNCHANGED <<tunnelVars, external, lifeVars, remoteVars, strayed,
                                raised>>

LockCollected(d) == /\ CollectLock(d)
                    /\ UNCHANGED <<tunnelVars, external, lifeVars, remoteVars, history>>

DaemonFault(d) == /\ DaemonCrash(d) /\ Disturbance
                  /\ UNCHANGED <<ssh, alien, forwarding, sockFile, tunnelPid, child, step,
                                 external, lifeVars, remoteVars, history>>

\* The command line's or the application's tunnel.pid is not written.
PidUnwritten(t) == /\ WritePidFails(t)
                   /\ strayed' = TRUE
                   /\ UNCHANGED <<daemonVars, external, lifeVars, remoteVars, raised, shared>>

TunnelStep(A) == A /\ UNCHANGED <<daemonVars, external, lifeVars, remoteVars, history>>

Lifecycle == \/ EnsureSpawn \/ SetupDone \/ SetupFails \/ PollEnds
             \/ StopEnds \/ RestartFound \/ QuitEnds

Supervision == \/ ConnectEnsure \/ (\E b \in BOOLEAN : ConnectDone(b)) \/ RetryConnect
               \/ PollTunnel \/ RestartTunnel \/ RestartTunnelEnds
               \/ TunnelStep(QuitRemoteStep) \/ QuitRemoteEnds \/ CliEnds

AppNext == \/ Lifecycle \/ Launch \/ LaunchSecond \/ KillApp \/ Quit \/ RestartDaemon
           \/ \E d \in Daemonlings : DaemonLife(d) \/ LockCollected(d) \/ DaemonFault(d)
           \/ StopAllDaemons
           \/ Supervision \/ ProbeTunnel \/ ConfirmTunnel \/ QuitRemote \/ CliEnsure
           \/ \E e \in {"RuntimeError", "OSError"} : EnsureRaises(e)
           \/ \E t \in Threads : TunnelStep(RestartStep(t)) \/ PidUnwritten(t)
           \/ TunnelStep(SshStep)

\* Threads, timers and processes go on, ssh connects unless it fails, and the
\* Go runtime collects garbage every two minutes at the latest.
AppFairness == /\ WF_appVars(Lifecycle)
               /\ \A d \in Daemonlings : WF_appVars(DaemonLife(d)) /\ WF_appVars(LockCollected(d))
               /\ WF_appVars(Supervision)
               /\ \A t \in Threads : WF_appVars(TunnelStep(RestartStep(t)))
               /\ \A pid \in Pids : WF_appVars(TunnelStep(Forward(pid)))

AppSpec == AppInit /\ [][AppNext]_appVars /\ AppFairness

-----------------------------------------------------------------------------
\* Only a set-up application has timers, threads and a signal handler; locks
\* and signals belong to live daemons, forwards to live ssh processes.
AppTypeOK ==
    /\ external \in BOOLEAN /\ armed \in BOOLEAN
    /\ phase \in {"off", "setup", "ensuring", "stopping", "closing"} \cup Working
    /\ armed => phase \notin {"off", "setup", "ensuring"}
    /\ {apiSock, dpid, dchild, victim} \subseteq Daemonlings \cup {0}
    /\ dlock \cup term \subseteq LiveDaemons
    /\ forwarding \subseteq ssh /\ ssh \subseteq Pids
    /\ alien \subseteq Pids \ ssh
    /\ tunnelPid \in Pids \cup {0} /\ faults \in 0..MaxFaults
    /\ fail \in {0, 1} /\ restarting \in BOOLEAN
    /\ timers \subseteq {"poll", "probe", "confirm", "restart", "retry"}
    /\ timers # {} => phase \in Working \cup {"stopping", "closing"}
    /\ timers \ {"poll"} # {} \/ awaiting => phase = "ready"
    /\ "retry" \in timers => step["worker"] = "idle"

(***************************************************************************)
(* A quit leaves no daemon behind: when stop (gtkui.py:828-861) is done,   *)
(* every daemon that lives is ending, unless two daemons had shared the    *)
(* directory or the application had ended or lost patience while it        *)
(* started one.                                                            *)
(***************************************************************************)
QuitLeavesNoDaemon ==
    (phase = "closing" /\ ~shared)
       => \A d \in LiveDaemons : d \in term \/ dstate[d] = "closing"

(***************************************************************************)
(* No ssh is forgotten: one that lives is the child of a supervisor or in  *)
(* tunnel.pid (tunnel.py:164-181, 222-252), also after crashes and         *)
(* restarts, unless a quit or crash cut a start short, the command line    *)
(* replaced the tunnel under a running application, or tunnel.pid could    *)
(* not be written (tunnel.py:148).                                         *)
(***************************************************************************)
NoTunnelForgotten ==
    strayed \/ ssh \subseteq {tunnelPid, child["app"], child["cli"]}

(***************************************************************************)
(* A local daemon comes back: while the application works, somebody        *)
(* listens again, whatever ended the daemon (poll, gtkui.py:4469-4488),    *)
(* unless its binary could not be executed: that OSError is not the        *)
(* RuntimeError the poll expects, and ends the poll's timer                *)
(* (gtkui.py:776, 4484).                                                   *)
(***************************************************************************)
DaemonComesBack ==
    (~external /\ phase \in Working)
       ~> (Listening \/ phase \notin Working \/ "poll" \notin timers)

(***************************************************************************)
(* A tunnel comes back once the first connection was made: some ssh        *)
(* forwards the socket again.  Two cases are excepted: starting ssh raised *)
(* an exception on the main thread (gtkui.py:4284-4306), which leaves      *)
(* _tunnel_restarting set, and the pid in tunnel.pid belongs to a process  *)
(* of somebody else by now, which is_running takes for ssh                 *)
(* (tunnel.py:161-162).                                                    *)
(***************************************************************************)
TunnelComesBack ==
    (external /\ phase = "ready" /\ ~awaiting)
       ~> ((sockFile /\ forwarding # {}) \/ phase # "ready" \/ raised \/ tunnelPid \in alien)
=============================================================================
