SPECIFICATION AppSpec
CONSTANTS
    MaxPid = 5
    MaxDaemon = 3
    Pids <- MCPids
    Daemonlings <- MCDaemonlings
    MaxFaults = 2
INVARIANTS
    AppTypeOK
    QuitLeavesNoDaemon
    NoTunnelForgotten
PROPERTIES
    DaemonComesBack
    TunnelComesBack
