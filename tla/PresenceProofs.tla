--------------------------- MODULE PresenceProofs ---------------------------
(***************************************************************************)
(* Presence for every set of statuses and any number of events: what a     *)
(* buddy may have been told.                                               *)
(***************************************************************************)
EXTENDS Presence, TLAPS

(***************************************************************************)
(* What makes BlockedNotTold inductive.  The threads that push statuses    *)
(* run while blocks come and go, so it is not enough to look at the        *)
(* daemon: as long as the buddy is not blocked, whatever a thread is about *)
(* to push, and whatever reassert_status will push next, may be told.      *)
(***************************************************************************)
PushesMayBeTold == ~blocked => away \in told /\ pushes \subseteq told

ToldInv == PresTypeOK /\ BlockedNotTold /\ PushesMayBeTold

LEMMA ToldInit == Init => ToldInv
  BY StatusAssumption
     DEF Init, ToldInv, PresTypeOK, BlockedNotTold, PushesMayBeTold, Packets, None,
         Marker, Probe, Offline, ClientOffline, Online, Window

\* What is sent at a probe is a probe, the marker, or what the daemon keeps.
LEMMA ProbeOneSends ==
    PresTypeOK => /\ ProbeOne \subseteq Packets
                  /\ ProbeOne \cap Statuses \subseteq {out}
  BY StatusAssumption DEF ProbeOne, PresTypeOK, Packets, None, Marker, Probe

LEMMA MineKeepsTold ==
    ToldInv /\ (\/ Start \/ ReassertStatus \/ Heartbeat \/ Quit \/ Block \/ Unblock)
       => ToldInv'
  <1> SUFFICES ASSUME ToldInv,
                      \/ Start \/ ReassertStatus \/ Heartbeat \/ Quit \/ Block \/ Unblock
               PROVE  ToldInv'
    OBVIOUS
  <1> USE StatusAssumption DEF ToldInv, PresTypeOK, BlockedNotTold, PushesMayBeTold,
                               mine, daemon, buddy, screen, Happens, PushStatus
  <1>1. CASE Start
    BY <1>1 DEF Start
  <1>2. CASE ReassertStatus
    BY <1>2 DEF ReassertStatus
  <1>3. CASE Heartbeat
    BY <1>3 DEF Heartbeat
  <1>4. CASE Quit
    BY <1>4 DEF Quit
  <1>5. CASE Block
    BY <1>5 DEF Block
  <1>6. CASE Unblock
    BY <1>6 DEF Unblock
  <1>7. QED
    BY <1>1, <1>2, <1>3, <1>4, <1>5, <1>6

LEMMA StatusKeepsTold ==
    ASSUME ToldInv, NEW s \in Statuses,
           SetAway(s) \/ Push(s) \/ PushFails(s) \/ CmdAway(s)
    PROVE  ToldInv'
  <1> USE StatusAssumption DEF ToldInv, PresTypeOK, BlockedNotTold, PushesMayBeTold,
                               mine, daemon, buddy, screen, Happens, PushStatus, Packets
  <1>1. CASE SetAway(s)
    BY <1>1 DEF SetAway
  <1>2. CASE Push(s)
    BY <1>2 DEF Push, SetStatus
  <1>3. CASE PushFails(s)
    BY <1>3 DEF PushFails
  <1>4. CASE CmdAway(s)
    BY <1>4 DEF CmdAway, SetStatus
  <1>5. QED
    BY <1>1, <1>2, <1>3, <1>4

LEMMA DaemonKeepsTold ==
    ToldInv /\ (Tick \/ PathUp \/ ClientIdle \/ DaemonDies \/ DaemonStarts) => ToldInv'
  <1> SUFFICES ASSUME ToldInv, Tick \/ PathUp \/ ClientIdle \/ DaemonDies \/ DaemonStarts
               PROVE  ToldInv'
    OBVIOUS
  <1> USE StatusAssumption, ProbeOneSends
          DEF ToldInv, PresTypeOK, BlockedNotTold, PushesMayBeTold, mine, daemon, buddy,
              screen, Happens
  <1>1. CASE Tick
    BY <1>1 DEF Tick, Window
  <1>2. CASE PathUp
    BY <1>2 DEF PathUp
  <1>3. CASE ClientIdle
    BY <1>3 DEF ClientIdle
  <1>4. CASE DaemonDies
    BY <1>4 DEF DaemonDies, None
  <1>5. CASE DaemonStarts
    BY <1>5 DEF DaemonStarts
  <1>6. QED
    BY <1>1, <1>2, <1>3, <1>4, <1>5

LEMMA NetworkKeepsTold ==
    ASSUME ToldInv, NEW p \in Packets, Lose(p) \/ Arrive(p)
    PROVE  ToldInv'
  <1> USE StatusAssumption DEF ToldInv, PresTypeOK, BlockedNotTold, PushesMayBeTold,
                               mine, daemon, buddy, screen, Happens, Packets
  <1>1. CASE Lose(p)
    BY <1>1 DEF Lose
  <1>2. CASE Arrive(p)
    BY <1>2 DEF Arrive, Window
  <1>3. QED
    BY <1>1, <1>2

\* The snapshot is something a conversation can show.
LEMMA SnapshotShown ==
    PresTypeOK => Snapshot \in Statuses \cup {Offline, ClientOffline}
  BY StatusAssumption DEF PresTypeOK, Snapshot

LEMMA BuddyKeepsTold ==
    ToldInv /\ (BuddyDies \/ BuddyStarts \/ PollPresence) => ToldInv'
  <1> SUFFICES ASSUME ToldInv, BuddyDies \/ BuddyStarts \/ PollPresence
               PROVE  ToldInv'
    OBVIOUS
  <1> USE StatusAssumption DEF ToldInv, PresTypeOK, BlockedNotTold, PushesMayBeTold,
                               mine, daemon, buddy, screen, Happens
  <1>1. CASE BuddyDies
    BY <1>1 DEF BuddyDies, None, Window
  <1>2. CASE BuddyStarts
    BY <1>2 DEF BuddyStarts
  <1>3. CASE PollPresence
    BY <1>3, SnapshotShown DEF PollPresence, RefreshPresence, BuddyRow
  <1>4. QED
    BY <1>1, <1>2, <1>3

LEMMA ToldStep == ToldInv /\ [Next]_vars => ToldInv'
  <1> SUFFICES ASSUME ToldInv, [Next]_vars
               PROVE  ToldInv'
    OBVIOUS
  <1>1. CASE UNCHANGED vars
    BY <1>1 DEF ToldInv, PresTypeOK, BlockedNotTold, PushesMayBeTold, vars, mine, daemon,
                buddy, screen
  <1>2. CASE Next
    BY <1>2, MineKeepsTold, StatusKeepsTold, DaemonKeepsTold, NetworkKeepsTold,
       BuddyKeepsTold DEF Next
  <1>3. QED
    BY <1>1, <1>2

LEMMA ToldAlways == Spec => []ToldInv
  BY ToldInit, ToldStep, PTL DEF Spec

(***************************************************************************)
(* Types of the presence model, for any statuses and any number of events. *)
(***************************************************************************)
THEOREM PresenceTypeCorrect == Spec => []PresTypeOK
  BY ToldAlways, PTL DEF ToldInv

(***************************************************************************)
(* A buddy who is blocked is not told what the user's status becomes       *)
(* (handleSetStatus, api.go; probeOne, presence.go), however many statuses *)
(* there are and however often pushes, probes, blocks, losses and restarts *)
(* interleave.                                                             *)
(***************************************************************************)
THEOREM BlockedBuddyNotTold == Spec => []BlockedNotTold
  BY ToldAlways, PTL DEF ToldInv
=============================================================================
