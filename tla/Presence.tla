------------------------------ MODULE Presence ------------------------------
(***************************************************************************)
(* What a buddy sees of the user (daemon/presence.go, gtkui.py, cli.py).   *)
(* The user's status is a preference of the application, which pushes it   *)
(* to its daemon in threads that nobody orders, and again every minute.    *)
(* The daemon keeps the last push in memory and sends it at every probe,   *)
(* or a marker when no client has spoken to it for a while.  The buddy's   *)
(* daemon keeps what arrived last, also in memory, and the buddy's window  *)
(* polls it.  Packets are lost and overtake each other, either daemon may  *)
(* die and come back, and the user may block the buddy.                    *)
(*                                                                         *)
(* missed counts the probe intervals since the buddy heard of the user; a  *)
(* packet that is neither lost nor late arrives within three of them.      *)
(***************************************************************************)
EXTENDS Naturals, FiniteSets

CONSTANTS Statuses,    \* away messages, and being available
          Available,
          MaxEvents    \* what the user, the network and crashes do, in all

None == "none"
Marker == "marker"
Probe == "probe"
Offline == "offline"
ClientOffline == "client offline"
Window == 3

ASSUME StatusAssumption ==
    /\ Available \in Statuses /\ MaxEvents \in Nat
    /\ Statuses \cap {None, Marker, Probe} = {}

VARIABLES away,        \* prefs["away"]
          running,     \* the application
          pushes,      \* the statuses that its threads are about to push
          up,          \* the user's daemon,
          out,         \* the status it sends to the buddy,
          present,     \* whether a client spoke to it recently,
          blocked,     \* and whether the buddy is on its block list
          net,         \* packets under way
          buddyUp,     \* the buddy's daemon,
          in,          \* what it knows of the user,
          missed,      \* and for how long it heard nothing
          shown,       \* what the buddy's conversation with the user shows,
          row,         \* and what the row of the contact list does
          events,
          told         \* history: what was the user's status while the buddy was
                       \* not blocked, or waited to be pushed when a block ended

mine == <<away, running, pushes>>
daemon == <<up, out, present, blocked>>
buddy == <<buddyUp, in, missed>>
screen == <<shown, row>>
vars == <<mine, daemon, net, buddy, screen, events, told>>

Init == /\ away = Available /\ running = FALSE /\ pushes = {}
        /\ up = FALSE /\ out = None /\ present = FALSE /\ blocked = FALSE
        /\ net = {}
        /\ buddyUp = TRUE /\ in = None /\ missed = Window
        /\ shown = Offline /\ row = Offline
        /\ events = 0 /\ told = {Available}

Happens == events < MaxEvents /\ events' = events + 1

-----------------------------------------------------------------------------
\* The user's application.

\* _push_status: a thread with the status of this moment.
PushStatus(s) == pushes' = pushes \cup {s}

\* The window opens.
Start == /\ ~running
         /\ running' = TRUE
         /\ PushStatus(away)
         /\ UNCHANGED <<away, daemon, net, buddy, screen, events, told>>

SetAway(s) == /\ running /\ s # away /\ Happens
              /\ away' = s
              /\ PushStatus(s)
              /\ told' = IF blocked THEN told ELSE told \cup {s}
              /\ UNCHANGED <<running, daemon, net, buddy, screen>>

\* Deviation: the status is announced once.
ReassertNot == running /\ UNCHANGED vars

ReassertStatus == /\ running
                  /\ PushStatus(away)
                  /\ UNCHANGED <<away, running, daemon, net, buddy, screen, events, told>>

\* Deviation: a blocked peer is told.
SetStatusBlocked(s) == /\ present' = TRUE
                       /\ out' = s /\ net' = net \cup {s}

\* handleSetStatus and SetStatus: a blocked peer is not told.
SetStatus(s) == /\ present' = TRUE
                /\ IF blocked THEN UNCHANGED <<out, net>>
                   ELSE out' = s /\ net' = net \cup {s}

Push(s) == /\ up /\ s \in pushes
           /\ SetStatus(s)
           /\ pushes' = pushes \ {s}
           /\ UNCHANGED <<away, running, up, blocked, buddy, screen, events, told>>

\* The request fails; it is logged.
PushFails(s) == /\ s \in pushes
                /\ (up /\ Happens) \/ (~up /\ UNCHANGED events)
                /\ pushes' = pushes \ {s}
                /\ UNCHANGED <<away, running, daemon, net, buddy, screen, told>>

Heartbeat == /\ running /\ up
             /\ present' = TRUE
             /\ UNCHANGED <<mine, up, out, blocked, net, buddy, screen, events, told>>

\* quit: a local daemon stops as well, an external one goes on.
Quit == /\ running /\ Happens
        /\ running' = FALSE /\ pushes' = {}
        /\ \/ UNCHANGED <<up, out, present>>
           \/ up' = FALSE /\ out' = None /\ present' = FALSE
        /\ UNCHANGED <<away, blocked, net, buddy, screen, told>>

\* cmd_away: the daemon is told, the preferences are not.
CmdAway(s) == /\ up /\ Happens
              /\ SetStatus(s)
              /\ told' = IF blocked THEN told ELSE told \cup {s}
              /\ UNCHANGED <<mine, up, blocked, buddy, screen>>

Block == /\ up /\ ~blocked /\ Happens
         /\ blocked' = TRUE /\ present' = TRUE
         /\ UNCHANGED <<mine, up, out, net, buddy, screen, told>>

Unblock == /\ up /\ blocked /\ Happens
           /\ blocked' = FALSE /\ present' = TRUE
           /\ told' = told \cup {away} \cup pushes
           /\ UNCHANGED <<mine, up, out, net, buddy, screen>>

-----------------------------------------------------------------------------
\* The user's daemon.

\* Deviation: the marker is not sent.
ProbeOneNoMarker == IF blocked THEN {}
                    ELSE {Probe} \cup (IF out # None THEN {out} ELSE {})

\* Deviation: a blocked peer is probed.
ProbeOneBlocked == {Probe} \cup (IF ~present THEN {Marker}
                                 ELSE IF out # None THEN {out} ELSE {})

\* probeOne: what it sends.
ProbeOne == IF blocked THEN {}
            ELSE {Probe} \cup (IF ~present THEN {Marker}
                               ELSE IF out # None THEN {out} ELSE {})

\* An interval passes.  Silence for the whole window means that packets are
\* lost or late.
Tick == /\ IF missed = Window - 1 /\ net # {} THEN Happens ELSE UNCHANGED events
        /\ missed' = IF missed < Window THEN missed + 1 ELSE Window
        /\ net' = IF up THEN net \cup ProbeOne ELSE net
        /\ UNCHANGED <<mine, daemon, buddyUp, in, screen, told>>

PathUp == /\ up
          /\ net' = net \cup ProbeOne
          /\ UNCHANGED <<mine, daemon, buddy, screen, events, told>>

\* clientPresent: nothing was heard of a client for thirty seconds.
ClientIdle == /\ ~running /\ present
              /\ present' = FALSE
              /\ UNCHANGED <<mine, up, out, blocked, net, buddy, screen, events, told>>

DaemonDies == /\ up /\ Happens
              /\ up' = FALSE /\ out' = None /\ present' = FALSE
              /\ UNCHANGED <<mine, blocked, net, buddy, screen, told>>

\* NewPresence: nothing is kept from the last run.  The application starts it,
\* or somebody else does.
DaemonStarts == /\ ~up
                /\ (running /\ UNCHANGED events) \/ (~running /\ Happens)
                /\ up' = TRUE
                /\ UNCHANGED <<mine, out, present, blocked, net, buddy, screen, told>>

-----------------------------------------------------------------------------
\* The network and the buddy.

Lose(p) == /\ p \in net /\ Happens
           /\ net' = net \ {p}
           /\ UNCHANGED <<mine, daemon, buddy, screen, told>>

\* HandlePacket, OnProbe, OnStatus: the last to arrive counts.
Arrive(p) == /\ p \in net
             /\ net' = net \ {p}
             /\ IF buddyUp
                THEN missed' = 0 /\ in' = IF p = Probe THEN in ELSE p
                ELSE UNCHANGED <<missed, in>>
             /\ UNCHANGED <<mine, daemon, buddyUp, screen, events, told>>

BuddyDies == /\ buddyUp /\ Happens
             /\ buddyUp' = FALSE /\ in' = None /\ missed' = Window
             /\ UNCHANGED <<mine, daemon, net, screen, told>>

BuddyStarts == /\ ~buddyUp
               /\ buddyUp' = TRUE
               /\ UNCHANGED <<mine, daemon, net, in, missed, screen, events, told>>

\* Snapshot, and what _presence_state makes of it.
Snapshot == IF missed = Window THEN Offline
            ELSE IF in = Marker THEN ClientOffline
            ELSE IF in = None THEN Available
            ELSE in

\* The conversation shows the away message, the contact list does not.
Online == "online"
BuddyRow(state) == IF state \in Statuses THEN Online ELSE state
RefreshPresence(state) == shown' = state /\ row' = BuddyRow(state)

\* poll_presence, one at a time.  A poll that fails shows everybody offline in
\* the conversations, and leaves the contact list alone.
PollPresence == /\ \/ buddyUp /\ RefreshPresence(Snapshot) /\ UNCHANGED events
                   \/ /\ (buddyUp /\ Happens) \/ (~buddyUp /\ UNCHANGED events)
                      /\ shown' = Offline /\ UNCHANGED row
                /\ UNCHANGED <<mine, daemon, net, buddy, told>>

-----------------------------------------------------------------------------
Packets == Statuses \cup {Marker, Probe}

Next == \/ Start \/ ReassertStatus \/ Heartbeat \/ Quit \/ Block \/ Unblock
        \/ \E s \in Statuses : SetAway(s) \/ Push(s) \/ PushFails(s) \/ CmdAway(s)
        \/ Tick \/ PathUp \/ ClientIdle \/ DaemonDies \/ DaemonStarts
        \/ \E p \in Packets : Lose(p) \/ Arrive(p)
        \/ BuddyDies \/ BuddyStarts \/ PollPresence

\* Timers go off, threads end, packets arrive or are lost, and the supervisor
\* restarts a daemon that its application needs.
Fairness == /\ WF_vars(ReassertStatus) /\ WF_vars(Heartbeat)
            /\ WF_vars(Tick) /\ WF_vars(ClientIdle)
            /\ WF_vars(running /\ DaemonStarts) /\ WF_vars(BuddyStarts)
            /\ WF_vars(PollPresence /\ UNCHANGED events)
            /\ \A s \in Statuses : WF_vars(Push(s))
            /\ \A p \in Packets : WF_vars(Arrive(p))

Spec == Init /\ [][Next]_vars /\ Fairness

-----------------------------------------------------------------------------
PresTypeOK ==
    /\ away \in Statuses /\ pushes \subseteq Statuses /\ (pushes # {} => running)
    /\ out \in Statuses \cup {None} /\ (~up => out = None /\ ~present)
    /\ net \subseteq Packets
    /\ in \in Statuses \cup {None, Marker} /\ (~buddyUp => in = None)
    /\ missed \in 0..Window
    /\ shown \in Statuses \cup {Offline, ClientOffline}
    /\ row \in {Online, Offline, ClientOffline}
    /\ events \in 0..MaxEvents

(***************************************************************************)
(* A buddy who is blocked is not told what the user's status becomes: all  *)
(* that is under way, that the daemon will send and that the buddy knows   *)
(* was the status while there was no block (api.go:323, presence.go:157),  *)
(* or was in a thread that had not reached the daemon when the block       *)
(* ended.                                                                  *)
(***************************************************************************)
BlockedNotTold ==
    (net \cup {out, in}) \cap Statuses \subseteq told

(***************************************************************************)
(* Status is ephemeral on both ends; it is announced again so that         *)
(* buddies converge after any restart (gtkui.py:3043-3045): a buddy shows  *)
(* the user's status for good once it stays and both sides run, whatever   *)
(* was lost, overtaken, or restarted before.                               *)
(***************************************************************************)
StatusConverges ==
    \A s \in Statuses :
        <>[](running /\ up /\ buddyUp /\ ~blocked /\ away = s)
           => <>[](shown = s /\ row = Online)

(***************************************************************************)
(* An always-on daemon whose client is gone for good is shown as such and  *)
(* not as available (presence.go:170-173, gtkui.py:909-918).               *)
(***************************************************************************)
ClientOfflineConverges ==
    <>[](~running /\ up /\ buddyUp /\ ~blocked) => <>[](shown = ClientOffline /\ row = ClientOffline)

(***************************************************************************)
(* A user whose daemon is gone, or who has blocked the buddy, is offline   *)
(* to the buddy in the end, in the conversation and in the contact list    *)
(* (presence.go:157-159, 200, gtkui.py:1293-1314, 2580-2599).              *)
(***************************************************************************)
GoneIsSeen ==
    <>[](~up \/ blocked) => <>[](shown = Offline /\ row = Offline)
=============================================================================
