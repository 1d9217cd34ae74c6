------------------------ MODULE DeliveryTicksProofs -------------------------
(***************************************************************************)
(* Delivery ticks for any messages, files, recipients and chunks, and any  *)
(* bound of the set of ACKs seen.                                          *)
(***************************************************************************)
EXTENDS DeliveryTicks, TLAPS

Waiting == {events[i] : i \in DOMAIN events}

TickTypes == /\ events \in Seq(Keys)
             /\ deliveries \in [Keys -> {"none", "open", "acked"}]

(***************************************************************************)
(* Whatever says "acknowledged" in the client is backed by an ACK: events, *)
(* the set of those seen, and the flags of the table.                      *)
(***************************************************************************)
Backed == /\ Waiting \subseteq acked
          /\ seen \subseteq acked
          /\ \A k \in Keys : deliveries[k] = "acked" => k \in acked

\* A message has rows for all of its keys or for none.
AllRows == \A m \in Msgs : Rows(m) # {} => Rows(m) = KeysOf[m]

\* A file's status row waits for each key, or the key was acknowledged.
RowsWait == \A m \in shown : KeysOf[m] \subseteq tracked \cup acked

\* A row's key was journaled, and an ACK is on its way to the table, in it, or lost.
Heard == /\ \A k \in Keys : deliveries[k] # "none" => k \in outbox \cup acked
         /\ \A k \in acked : k \in Keys
         /\ \A k \in acked : \/ deliveries[k] = "acked"
                             \/ k \in unheard \cup Waiting

TickInv == TickTypes /\ Backed /\ AllRows /\ RowsWait /\ Heard /\ shown \subseteq Msgs
             /\ outbox \subseteq Keys

-----------------------------------------------------------------------------
LEMMA KeysOfMsg == \A m \in Msgs : KeysOf[m] \subseteq Keys
  BY DEF Keys

LEMMA TickInit == Init => TickInv
  <1> SUFFICES ASSUME Init PROVE TickInv
    OBVIOUS
  <1>1. events = <<>> /\ events \in Seq(Keys) /\ Waiting = {}
    BY DEF Init, Waiting
  <1>2. deliveries \in [Keys -> {"none", "open", "acked"}]
    BY DEF Init
  <1>3. \A k \in Keys : deliveries[k] = "none"
    BY DEF Init
  <1>4. AllRows
    BY <1>3, KeysOfMsg DEF AllRows, Rows
  <1>5. QED
    BY <1>1, <1>2, <1>3, <1>4 DEF Init, TickInv, TickTypes, Backed, RowsWait, Heard

\* Appending an event, and taking the first.
LEMMA AppendWaiting ==
    ASSUME events \in Seq(Keys), NEW k \in Keys, events' = Append(events, k)
    PROVE  events' \in Seq(Keys) /\ Waiting' = Waiting \cup {k}
  <1>1. /\ events' \in Seq(Keys) /\ Len(events') = Len(events) + 1
        /\ \A i \in 1..Len(events) : events'[i] = events[i]
        /\ events'[Len(events) + 1] = k
        /\ Len(events) \in Nat
    OBVIOUS
  <1>2. DOMAIN events = 1..Len(events) /\ DOMAIN events' = 1..Len(events')
    BY <1>1
  <1>3. Waiting' \subseteq Waiting \cup {k}
    <2>1. ASSUME NEW i \in DOMAIN events' PROVE events'[i] \in Waiting \cup {k}
      BY <1>1, <1>2 DEF Waiting
    <2>2. QED
      BY <2>1 DEF Waiting
  <1>4. Waiting \cup {k} \subseteq Waiting'
    BY <1>1, <1>2 DEF Waiting
  <1>5. QED
    BY <1>1, <1>3, <1>4

LEMMA TailWaiting ==
    ASSUME events \in Seq(Keys), events # <<>>, events' = Tail(events)
    PROVE  /\ events' \in Seq(Keys) /\ Head(events) \in Waiting
           /\ Waiting = Waiting' \cup {Head(events)}
  <1>1. /\ events' \in Seq(Keys) /\ Len(events) \in Nat /\ Len(events) >= 1
        /\ Len(events') = Len(events) - 1 /\ Head(events) = events[1]
        /\ \A i \in 1..Len(events') : events'[i] = events[i + 1]
    OBVIOUS
  <1>2. DOMAIN events = 1..Len(events) /\ DOMAIN events' = 1..Len(events')
    BY <1>1
  <1>3. Head(events) \in Waiting
    BY <1>1, <1>2 DEF Waiting
  <1>4. ASSUME NEW i \in DOMAIN events PROVE events[i] \in Waiting' \cup {Head(events)}
    <2>1. CASE i = 1
      BY <1>1, <2>1
    <2>2. CASE i # 1
      <3>1. i - 1 \in 1..Len(events') /\ (i - 1) + 1 = i
        BY <1>1, <1>2, <2>2
      <3>2. events'[i - 1] = events[i]
        BY <1>1, <3>1
      <3>3. QED
        BY <1>2, <3>1, <3>2 DEF Waiting
    <2>3. QED
      BY <2>1, <2>2
  <1>5. ASSUME NEW i \in DOMAIN events' PROVE events'[i] \in Waiting
    <2>1. events'[i] = events[i + 1] /\ i + 1 \in DOMAIN events
      BY <1>1, <1>2
    <2>2. QED
      BY <2>1 DEF Waiting
  <1>6. QED
    BY <1>1, <1>3, <1>4, <1>5 DEF Waiting

-----------------------------------------------------------------------------
\* The daemon.
LEMMA PeerAcksKeepsTicks ==
    ASSUME TickInv, NEW k \in Keys, PeerAcks(k)
    PROVE  TickInv'
  <1> USE DEF TickInv
  <1>1. /\ outbox' = outbox \ {k} /\ acked' = acked \cup {k}
        /\ UNCHANGED <<deliveries, seen, tracked, shown>>
    BY DEF PeerAcks, viewVars
  <1>2. /\ events' \in Seq(Keys)
        /\ Waiting' \subseteq Waiting \cup {k}
        /\ unheard \cup Waiting \cup {k} \subseteq unheard' \cup Waiting'
    BY AppendWaiting DEF PeerAcks, TickTypes, Waiting
  <1>3. TickTypes' /\ Backed'
    BY <1>1, <1>2 DEF TickTypes, Backed
  <1>4. AllRows' /\ RowsWait'
    BY <1>1 DEF AllRows, Rows, RowsWait
  <1>5. Heard'
    BY <1>1, <1>2 DEF Heard
  <1>6. QED
    BY <1>1, <1>3, <1>4, <1>5

\* Sending: nothing the client shows changes until it is done.
LEMMA SendingKeepsTicks ==
    ASSUME TickInv,
           \/ UNCHANGED vars
           \/ \E k \in Keys : SendKey(k)
           \/ \E m \in Msgs : StartSend(m) \/ SendFails(m)
           \/ \E c \in BOOLEAN : SetConnected(c)
    PROVE  TickInv'
  <1> USE DEF TickInv
  <1>1. /\ UNCHANGED <<acked, events, deliveries, seen, tracked, shown, unheard>>
        /\ outbox \subseteq outbox' /\ outbox' \subseteq Keys
    BY DEF vars, daemonVars, viewVars, SendKey, StartSend, SendFails, SetConnected
  <1>2. Waiting' = Waiting
    BY <1>1 DEF Waiting
  <1>3. QED
    BY <1>1, <1>2 DEF TickTypes, Backed, AllRows, Rows, RowsWait, Heard

LEMMA SendDoneKeepsTicks ==
    ASSUME TickInv, NEW m \in Msgs, SendDone(m)
    PROVE  TickInv'
  <1> USE DEF TickInv
  <1>1. /\ UNCHANGED <<outbox, acked, events, seen, unheard>>
        /\ KeysOf[m] \subseteq outbox \cup acked
        /\ deliveries' = [k \in Keys |-> IF k \in KeysOf[m] /\ deliveries[k] = "none"
                                         THEN "open" ELSE deliveries[k]]
    BY DEF SendDone, AddSent, daemonVars
  <1>2. Waiting' = Waiting
    BY <1>1 DEF Waiting
  <1>3. TickTypes' /\ Backed'
    BY <1>1, <1>2 DEF TickTypes, Backed
  <1>4. ASSUME NEW n \in Msgs, Rows(n)' # {} PROVE Rows(n)' = KeysOf[n]
    <2>1. CASE n = m
      BY <1>1, <2>1, KeysOfMsg DEF Rows
    <2>2. CASE n # m
      <3>1. KeysOf[n] \cap KeysOf[m] = {} /\ KeysOf[n] \subseteq Keys
        BY <2>2, KeysAssumption, KeysOfMsg
      <3>2. \A k \in KeysOf[n] : deliveries'[k] = deliveries[k]
        BY <1>1, <3>1
      <3>3. Rows(n)' = Rows(n)
        BY <3>2 DEF Rows
      <3>4. QED
        BY <1>4, <3>3 DEF AllRows
    <2>3. QED
      BY <2>1, <2>2
  <1>5. RowsWait' /\ shown' \subseteq Msgs
    BY <1>1 DEF RowsWait, Backed, SendDone
  <1>6. Heard'
    BY <1>1, <1>2 DEF Heard, TickTypes
  <1>7. QED
    BY <1>1, <1>3, <1>4, <1>5, <1>6 DEF AllRows

\* An event is drained.
LEMMA NoteAckedKeepsTicks ==
    ASSUME TickInv, NEW k \in Keys, NoteAcked(k)
    PROVE  TickInv'
  <1> USE DEF TickInv
  <1>1. /\ UNCHANGED <<outbox, acked, shown>>
        /\ events # <<>> /\ k = Head(events) /\ events' = Tail(events)
        /\ deliveries' = [deliveries EXCEPT ![k] = IF @ = "none" THEN @ ELSE "acked"]
        /\ seen' \subseteq seen \cup {k}
        /\ tracked' = tracked \ {k}
        /\ unheard' = IF deliveries[k] = "none" THEN unheard \cup {k} ELSE unheard
    BY DEF NoteAcked, daemonVars
  <1>2. /\ events' \in Seq(Keys) /\ k \in Waiting /\ Waiting = Waiting' \cup {k}
    BY <1>1, TailWaiting DEF TickTypes
  <1>3. k \in acked
    BY <1>2 DEF Backed
  <1>4. /\ deliveries' \in [Keys -> {"none", "open", "acked"}]
        /\ \A j \in Keys : deliveries'[j] = IF j = k /\ deliveries[k] # "none" THEN "acked"
                                            ELSE deliveries[j]
    BY <1>1 DEF TickTypes
  <1>5. TickTypes' /\ Backed'
    BY <1>1, <1>2, <1>3, <1>4 DEF TickTypes, Backed
  <1>6. AllRows'
    <2>1. ASSUME NEW m \in Msgs PROVE Rows(m)' = Rows(m)
      BY <1>4, KeysOfMsg DEF Rows
    <2>2. QED
      BY <2>1 DEF AllRows
  <1>7. RowsWait'
    BY <1>1, <1>3 DEF RowsWait
  <1>8. Heard'
    BY <1>1, <1>2, <1>3, <1>4 DEF Heard
  <1>9. QED
    BY <1>1, <1>5, <1>6, <1>7, <1>8

\* A conversation is opened.
LEMMA RenderKeepsTicks ==
    ASSUME TickInv, NEW m \in Msgs, Render(m)
    PROVE  TickInv'
  <1> USE DEF TickInv
  <1>1. /\ UNCHANGED <<outbox, acked, events, deliveries, seen, unheard>>
        /\ tracked' = (tracked \ KeysOf[m]) \cup Undelivered(m)
        /\ shown' = shown \cup {m} /\ Rows(m) # {}
    BY DEF Render, daemonVars
  <1>2. Waiting' = Waiting
    BY <1>1 DEF Waiting
  <1>3. ASSUME NEW k \in KeysOf[m] PROVE k \in Undelivered(m) \cup acked
    <2>1. deliveries[k] # "none" /\ k \in Keys
      BY <1>1, KeysOfMsg DEF AllRows, Rows
    <2>2. deliveries[k] \in {"open", "acked"}
      BY <2>1 DEF TickTypes
    <2>3. QED
      BY <2>1, <2>2 DEF Undelivered, Backed
  <1>4. ASSUME NEW n \in shown' PROVE KeysOf[n] \subseteq tracked' \cup acked'
    <2>1. CASE n = m
      BY <1>1, <1>3, <2>1
    <2>2. CASE n # m
      <3>1. n \in shown /\ n \in Msgs /\ KeysOf[n] \cap KeysOf[m] = {}
        BY <1>1, <2>2, KeysAssumption
      <3>2. QED
        BY <1>1, <3>1 DEF RowsWait
    <2>3. QED
      BY <2>1, <2>2
  <1>5. QED
    BY <1>1, <1>2, <1>4 DEF TickTypes, Backed, AllRows, Rows, RowsWait, Heard

LEMMA RestartKeepsTicks ==
    ASSUME TickInv, Restart
    PROVE  TickInv'
  <1> USE DEF TickInv
  <1>1. /\ UNCHANGED <<outbox, acked, deliveries>>
        /\ events' = <<>> /\ seen' = {} /\ shown' = {}
        /\ unheard' = unheard \cup Waiting
    BY DEF Restart, daemonVars, Waiting
  <1>2. events' \in Seq(Keys) /\ Waiting' = {}
    BY <1>1 DEF Waiting
  <1>3. QED
    BY <1>1, <1>2 DEF TickTypes, Backed, AllRows, Rows, RowsWait, Heard

LEMMA TickStep == TickInv /\ [Next]_vars => TickInv'
  BY PeerAcksKeepsTicks, SendingKeepsTicks, SendDoneKeepsTicks, NoteAckedKeepsTicks,
     RenderKeepsTicks, RestartKeepsTicks DEF Next

LEMMA TickAlways == Spec => []TickInv
  BY TickInit, TickStep, PTL DEF Spec

-----------------------------------------------------------------------------
(***************************************************************************)
(* "2/3 delivered" is true (add_sent, mark_delivered, _delivery_summary):  *)
(* for any recipients and chunks, in whatever order ACKs, callbacks and    *)
(* restarts come.                                                          *)
(***************************************************************************)
THEOREM TicksAreTrue == Spec => []TickIsTrue
  <1>1. TickInv => TickIsTrue
    <2> SUFFICES ASSUME TickInv, NEW m \in Msgs, Rows(m) # {}
                 PROVE  /\ Tracked(m) = {RecipientOf[k] : k \in KeysOf[m]}
                        /\ \A k \in KeysOf[m] : RecipientOf[k] \in Delivered(m) => k \in acked
      BY DEF TickIsTrue
    <2>1. Rows(m) = KeysOf[m]
      BY DEF TickInv, AllRows
    <2>2. ASSUME NEW k \in KeysOf[m], RecipientOf[k] \in Delivered(m) PROVE k \in acked
      <3>1. k \notin Undelivered(m)
        BY <2>2 DEF Delivered
      <3>2. k \in Keys /\ deliveries[k] # "none" /\ deliveries[k] # "open"
        BY <2>1, <3>1, KeysOfMsg DEF Rows, Undelivered
      <3>3. deliveries[k] = "acked"
        BY <3>2 DEF TickInv, TickTypes
      <3>4. QED
        BY <3>2, <3>3 DEF TickInv, Backed
    <2>3. QED
      BY <2>1, <2>2 DEF Tracked
  <1>2. QED
    BY <1>1, TickAlways, PTL

(***************************************************************************)
(* A file's status row says delivered only when every chunk was            *)
(* acknowledged (register_file_delivery, note_acked, _render_messages).    *)
(***************************************************************************)
THEOREM StatusRowsAreTrue == Spec => []StatusIsTrue
  <1>1. TickInv => StatusIsTrue
    BY DEF TickInv, RowsWait, StatusIsTrue
  <1>2. QED
    BY <1>1, TickAlways, PTL

(***************************************************************************)
(* A row that is open is in flight (store.py), or its ACK was announced    *)
(* before the row existed or to nobody.                                    *)
(***************************************************************************)
THEOREM OpenRowsAreInFlight == Spec => []OpenRowsInFlight
  <1>1. TickInv => OpenRowsInFlight
    <2> SUFFICES ASSUME TickInv, NEW k \in Keys, deliveries[k] = "open"
                 PROVE  \/ k \in outbox \cup unheard
                        \/ \E i \in DOMAIN events : events[i] = k
      BY DEF OpenRowsInFlight
    <2>1. k \in outbox \/ k \in unheard \cup Waiting
      BY DEF TickInv, Heard
    <2>2. QED
      BY <2>1 DEF Waiting
  <1>2. QED
    BY <1>1, TickAlways, PTL
=============================================================================
