--------------------------- MODULE DeliveryTicks ----------------------------
(***************************************************************************)
(* How the sending client learns that its messages and files were          *)
(* delivered (client/aimless: gtkui.py, store.py).  A worker thread hands  *)
(* each copy or chunk of a message to the daemon and collects the seqs;    *)
(* the main thread records them when the worker is through, and in         *)
(* between drains "acked" events, which the daemon broadcasts to whoever   *)
(* is connected when the peer's ACK arrives.                               *)
(*                                                                         *)
(* A key stands for a pair (recipient, seq): one text copy or file chunk.  *)
(***************************************************************************)
EXTENDS Naturals, FiniteSets, Sequences

CONSTANTS KeysOf,     \* keys of each message, indexed by message
          RecipientOf,\* recipient of each key
          Files,      \* the messages that are files
          Unstable,   \* TRUE: the connection may break and the client restart
          SeenCap     \* bound of the set of ACKs seen (4096 in the code)

Msgs == DOMAIN KeysOf
Keys == UNION {KeysOf[m] : m \in Msgs}

ASSUME KeysAssumption == \A m, n \in Msgs : m # n => KeysOf[m] \cap KeysOf[n] = {}
ASSUME RecipientAssumption == DOMAIN RecipientOf = Keys
ASSUME FilesAssumption == Files \subseteq Msgs
ASSUME UnstableAssumption == Unstable \in BOOLEAN
ASSUME SeenCapAssumption == SeenCap \in Nat

VARIABLES outbox,     \* daemon: keys journaled and not yet acknowledged
          acked,      \* daemon: keys the peer acknowledged
          connected,  \* the client is connected
          events,     \* acked events not yet drained
          phase,      \* where the sending of a message is
          deliveries, \* table deliveries: per key, no row, or a row's acked flag
          seen,       \* _acked_seen
          tracked,    \* _pending_files: keys that status rows still wait for
          shown,      \* files with a delivery status row
          unheard     \* history: keys whose acked event found no client, or no row

daemonVars == <<outbox, acked>>
viewVars == <<seen, tracked, shown>>
vars == <<daemonVars, connected, events, phase, deliveries, viewVars, unheard>>

MsgOf(k) == CHOOSE m \in Msgs : k \in KeysOf[m]
Rows(m) == {k \in KeysOf[m] : deliveries[k] # "none"}
Undelivered(m) == {k \in KeysOf[m] : deliveries[k] = "open"}

\* _delivery_summary: the recipients a stored message has rows for, and those
\* of them whose rows are all acked.
Tracked(m) == {RecipientOf[k] : k \in Rows(m)}
Delivered(m) == Tracked(m) \ {RecipientOf[k] : k \in Undelivered(m)}

-----------------------------------------------------------------------------
Init == /\ outbox = {} /\ acked = {}
        /\ connected = TRUE /\ events = <<>>
        /\ phase = [m \in Msgs |-> "new"]
        /\ deliveries = [k \in Keys |-> "none"]
        /\ seen = {} /\ tracked = {} /\ shown = {}
        /\ unheard = {}

-----------------------------------------------------------------------------
\* The daemon: an ACK deletes the outbox row and is announced.
PeerAcks(k) == /\ k \in outbox
               /\ outbox' = outbox \ {k}
               /\ acked' = acked \cup {k}
               /\ IF connected
                  THEN events' = Append(events, k) /\ UNCHANGED unheard
                  ELSE unheard' = unheard \cup {k} /\ UNCHANGED events
               /\ UNCHANGED <<connected, phase, deliveries, viewVars>>

-----------------------------------------------------------------------------
\* The client.

\* send_message admits one text at a time (_send_in_flight), _send_file any number.
StartSend(m) == /\ phase[m] = "new"
                /\ m \in Files \/ \A n \in Msgs \ Files : phase[n] # "sending"
                /\ phase' = [phase EXCEPT ![m] = "sending"]
                /\ UNCHANGED <<daemonVars, connected, events, deliveries, viewVars,
                               unheard>>

\* The worker hands the next copy or chunk to the daemon, which journals it.
SendKey(k) == /\ connected
              /\ phase[MsgOf(k)] = "sending"
              /\ k \notin outbox \cup acked
              /\ outbox' = outbox \cup {k}
              /\ UNCHANGED <<acked, connected, events, phase, deliveries, viewVars, unheard>>

\* Deviation: rows for one of the keys only, the last chunk's.
AddSentLast(m) == \E k \in KeysOf[m] :
                     deliveries' = [deliveries EXCEPT ![k] = "open"]

\* Store.add_sent.
AddSent(m) == deliveries' = [k \in Keys |-> IF k \in KeysOf[m] /\ deliveries[k] = "none"
                                            THEN "open" ELSE deliveries[k]]

\* done: the message is stored with its rows; a file gets a status row that
\* waits for the keys not yet seen acknowledged.
SendDone(m) == /\ phase[m] = "sending"
               /\ KeysOf[m] \subseteq outbox \cup acked
               /\ phase' = [phase EXCEPT ![m] = "sent"]
               /\ AddSent(m)
               /\ IF m \in Files
                  THEN /\ tracked' = tracked \cup (KeysOf[m] \ seen)
                       /\ shown' = shown \cup {m}
                  ELSE UNCHANGED <<tracked, shown>>
               /\ UNCHANGED <<daemonVars, connected, events, seen, unheard>>

\* fail: a request failed or timed out, whatever came before.
SendFails(m) == /\ phase[m] = "sending"
                /\ phase' = [phase EXCEPT ![m] = "failed"]
                /\ UNCHANGED <<daemonVars, connected, events, deliveries, viewVars,
                               unheard>>

\* Deviation: the status row forgets the whole message at its first ACK.
NoteAckedWhole(k) ==
    /\ events # <<>> /\ k = Head(events)
    /\ events' = Tail(events)
    /\ seen' = IF Cardinality(seen \cup {k}) > SeenCap THEN {} ELSE seen \cup {k}
    /\ deliveries' = [deliveries EXCEPT ![k] = IF @ = "none" THEN @ ELSE "acked"]
    /\ tracked' = tracked \ KeysOf[MsgOf(k)]
    /\ unheard' = IF deliveries[k] = "none" THEN unheard \cup {k} ELSE unheard
    /\ UNCHANGED <<daemonVars, connected, phase, shown>>

\* Deviation: an ACK that a status row waits for goes to the status row only.
NoteAckedOnce(k) ==
    /\ events # <<>> /\ k = Head(events)
    /\ events' = Tail(events)
    /\ seen' = IF Cardinality(seen \cup {k}) > SeenCap THEN {} ELSE seen \cup {k}
    /\ deliveries' = [deliveries EXCEPT ![k] = IF @ = "none" \/ k \in tracked THEN @
                                              ELSE "acked"]
    /\ tracked' = tracked \ {k}
    /\ unheard' = IF deliveries[k] = "none" THEN unheard \cup {k} ELSE unheard
    /\ UNCHANGED <<daemonVars, connected, phase, shown>>

\* drain_events, note_acked, mark_delivered.
NoteAcked(k) == /\ events # <<>> /\ k = Head(events)
                /\ events' = Tail(events)
                /\ seen' = IF Cardinality(seen \cup {k}) > SeenCap THEN {} ELSE seen \cup {k}
                /\ deliveries' = [deliveries EXCEPT ![k] = IF @ = "none" THEN @ ELSE "acked"]
                /\ tracked' = tracked \ {k}
                /\ unheard' = IF deliveries[k] = "none" THEN unheard \cup {k} ELSE unheard
                /\ UNCHANGED <<daemonVars, connected, phase, shown>>

\* _render_messages, when the conversation is opened: the status row of a file
\* is built again from the table.
Render(m) == /\ m \in Files /\ Rows(m) # {}
             /\ tracked' = (tracked \ KeysOf[m]) \cup Undelivered(m)
             /\ shown' = shown \cup {m}
             /\ UNCHANGED <<daemonVars, connected, events, phase, deliveries, seen, unheard>>

SetConnected(c) == /\ Unstable /\ connected # c
                   /\ connected' = c
                   /\ UNCHANGED <<daemonVars, events, phase, deliveries, viewVars, unheard>>

\* The client quits, with its workers, and starts again.
Restart == /\ Unstable
           /\ events' = <<>>
           /\ unheard' = unheard \cup {events[i] : i \in DOMAIN events}
           /\ phase' = [m \in Msgs |-> IF phase[m] = "sending" THEN "abandoned" ELSE phase[m]]
           /\ seen' = {} /\ tracked' = {} /\ shown' = {}
           /\ UNCHANGED <<daemonVars, connected, deliveries>>

-----------------------------------------------------------------------------
Next == \/ \E k \in Keys : PeerAcks(k) \/ SendKey(k) \/ NoteAcked(k)
        \/ \E m \in Msgs : StartSend(m) \/ SendDone(m) \/ SendFails(m) \/ Render(m)
        \/ \E c \in BOOLEAN : SetConnected(c)
        \/ Restart

Spec == Init /\ [][Next]_vars

-----------------------------------------------------------------------------
(***************************************************************************)
(* "2/3 delivered" is true: the tick of a message counts everybody it was  *)
(* sent to, and as delivered those whose daemon has acknowledged it, chunk *)
(* by chunk, although ACKs come before the rows, after a restart, or for   *)
(* some chunks only (add_sent, mark_delivered, _delivery_summary,          *)
(* store.py:205-318).                                                      *)
(***************************************************************************)
TickIsTrue ==
    \A m \in Msgs : Rows(m) # {} =>
       /\ Tracked(m) = {RecipientOf[k] : k \in KeysOf[m]}
       /\ \A k \in KeysOf[m] : RecipientOf[k] \in Delivered(m) => k \in acked

(***************************************************************************)
(* A file's status row says delivered only when every chunk of it was      *)
(* acknowledged, whichever ACKs came before the row existed                *)
(* (register_file_delivery and note_acked, gtkui.py:2149-2186).            *)
(***************************************************************************)
StatusIsTrue == \A m \in shown : KeysOf[m] \cap tracked = {} => KeysOf[m] \subseteq acked

(***************************************************************************)
(* "Rows with acked=0 are still in flight" (store.py:75): the daemon is    *)
(* still sending, or the event that settles the row waits to be drained,   *)
(* unless that event came when the row did not exist yet or nobody was     *)
(* connected; nothing settles the row then (store.py:266-279).             *)
(***************************************************************************)
OpenRowsInFlight ==
    \A k \in Keys : deliveries[k] = "open" =>
       k \in outbox \cup unheard \/ \E i \in DOMAIN events : events[i] = k
=============================================================================
