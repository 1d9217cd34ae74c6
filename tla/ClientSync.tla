----------------------------- MODULE ClientSync -----------------------------
(***************************************************************************)
(* How a client keeps its copy of one peer's stream (client/aimless:       *)
(* service.py, store.py, the sync paths of gtkui.py) while the daemon goes *)
(* on receiving.  The daemon announces each new message to whoever is      *)
(* connected and retains it in the inbox; the client stores what it hears, *)
(* and asks for the history after its cursor: once after each start, and   *)
(* whenever the user opens the conversation.                               *)
(*                                                                         *)
(* The stream carries the messages of several conversations with the peer  *)
(* (a direct one and rooms), each of which the user may clear or delete;   *)
(* there is one cursor for all of them.                                    *)
(***************************************************************************)
EXTENDS InboxStore, Sequences

CONSTANTS RoomSeqs,       \* messages of the conversation the user may dismiss
          Undecryptable,  \* messages the client cannot open
          MaxEvents       \* bound on undrained events

ASSUME RoomAssumption == RoomSeqs \subseteq Seqs
ASSUME UndecryptableAssumption == Undecryptable \subseteq Seqs
ASSUME EventsAssumption == MaxEvents \in Nat \ {0}

Fetchers == {"sweep", "open"}   \* catchup_unread and load_history_async

VARIABLES announcing,  \* daemon: stored by HandlePacket, not yet broadcast
          running,     \* the application runs
          connected,   \* its connection to the daemon is up
          swept,       \* the one-shot startup sweep of this session is over
          events,      \* recv events read from the socket, not yet drained
          fetched,     \* history responses not yet applied, one per fetcher
          dismissing,  \* the latest seq a pending clear or delete works with
          cursor,      \* table watermark (durable)
          stored,      \* table messages (durable)
          dismissed,   \* history: messages the user got rid of
          overtaken,   \* history: messages accepted after one with a higher seq
          passedOver   \* history: messages of other conversations that a dismissal
                       \* moved the cursor over before they were stored

sessionVars == <<running, connected, swept, events, fetched, dismissing>>
localVars == <<cursor, stored, dismissed, passedOver>>
vars == <<storeVars, announcing, overtaken, sessionVars, localVars>>

\* open_message and Store.ingest: what can be opened is stored, once by sender
\* and seq.
Ingest(msgs) == stored' = stored \cup (msgs \ Undecryptable)

MaxOf(S, n) == CHOOSE m \in S \cup {n} : \A t \in S \cup {n} : t <= m

-----------------------------------------------------------------------------
Init == /\ StoreInit
        /\ announcing = {}
        /\ running = FALSE /\ connected = FALSE /\ swept = FALSE
        /\ events = <<>>
        /\ fetched = [f \in Fetchers |-> {}]
        /\ dismissing = {}
        /\ cursor = 0
        /\ stored = {} /\ dismissed = {}
        /\ overtaken = {} /\ passedOver = {}

-----------------------------------------------------------------------------
\* The daemon.

\* HandlePacket commits a message; the reader is then busy announcing it.
Arrive(s) == /\ announcing = {}
             /\ Add(s)
             /\ announcing' = IF IsDuplicate(s) THEN {} ELSE {s}
             /\ overtaken' = IF \E t \in accepted : ~IsDuplicate(s) /\ t > s
                             THEN overtaken \cup {s} ELSE overtaken
             /\ UNCHANGED <<sessionVars, localVars>>

\* OnDeliver, broadcast: nobody connected, nobody told.
Broadcast(s) == /\ s \in announcing
                /\ announcing' = announcing \ {s}
                /\ IF connected
                   THEN Len(events) < MaxEvents /\ events' = Append(events, s)
                   ELSE UNCHANGED events
                /\ UNCHANGED <<storeVars, overtaken, running, connected, swept, fetched,
                               dismissing, localVars>>

-----------------------------------------------------------------------------
\* The application's life.

StartApp == /\ ~running
            /\ running' = TRUE /\ connected' = TRUE /\ swept' = FALSE
            /\ UNCHANGED <<storeVars, overtaken, announcing, events, fetched, dismissing, localVars>>

QuitApp == /\ running
           /\ running' = FALSE /\ connected' = FALSE /\ swept' = FALSE
           /\ events' = <<>>
           /\ fetched' = [f \in Fetchers |-> {}]
           /\ dismissing' = {}
           /\ UNCHANGED <<storeVars, overtaken, announcing, localVars>>

\* The socket or the tunnel breaks, and the reader reconnects later.
SetConnected(c) == /\ running /\ connected # c
                   /\ connected' = c
                   /\ UNCHANGED <<storeVars, overtaken, announcing, running, swept, events,
                                  fetched, dismissing, localVars>>

-----------------------------------------------------------------------------
\* Sync.

\* Sync.fetch on a worker thread: the history after the cursor.  The busy flag
\* admits one per fetcher, and the sweep runs once.
Fetch(f) == /\ running /\ connected
            /\ fetched[f] = {}
            /\ f = "sweep" => ~swept
            /\ fetched' = [fetched EXCEPT ![f] = {After(cursor)}]
            /\ UNCHANGED <<storeVars, overtaken, announcing, running, connected, swept, events,
                           dismissing, localVars>>

\* Deviation: the cursor is set to the response's highest seq.
ApplyOverwritesCursor(f) ==
    \E msgs \in fetched[f] :
       /\ Ingest(msgs)
       /\ cursor' = MaxOf(msgs, 0)
       /\ fetched' = [fetched EXCEPT ![f] = {}]
       /\ swept' = (swept \/ f = "sweep")
       /\ UNCHANGED <<storeVars, overtaken, announcing, running, connected, events,
                      dismissing, dismissed, passedOver>>

\* Sync.apply on the main thread: every message that can be opened is ingested
\* (idempotently), and the cursor moves to the highest seq of the response.
Apply(f) == \E msgs \in fetched[f] :
               /\ Ingest(msgs)
               /\ cursor' = MaxOf(msgs, cursor)
               /\ fetched' = [fetched EXCEPT ![f] = {}]
               /\ swept' = (swept \/ f = "sweep")
               /\ UNCHANGED <<storeVars, overtaken, announcing, running, connected, events,
                              dismissing, dismissed, passedOver>>

\* The sweep's request fails; its timer does not fire again.
SweepFails == /\ running /\ ~swept
              /\ fetched["sweep"] = {}
              /\ swept' = TRUE
              /\ UNCHANGED <<storeVars, overtaken, announcing, running, connected, events,
                             fetched, dismissing, localVars>>

\* Deviation: the live path moves the cursor as well.
DrainEventMovesCursor ==
    /\ events # <<>>
    /\ Ingest({Head(events)})
    /\ cursor' = MaxOf({Head(events)}, cursor)
    /\ events' = Tail(events)
    /\ UNCHANGED <<storeVars, overtaken, announcing, running, connected, swept,
                   fetched, dismissing, dismissed, passedOver>>

\* drain_events and incoming: the message is ingested, the cursor stays.
DrainEvent == /\ events # <<>>
              /\ Ingest({Head(events)})
              /\ events' = Tail(events)
              /\ UNCHANGED <<storeVars, overtaken, announcing, running, connected, swept,
                             fetched, dismissing, cursor, dismissed, passedOver>>

\* on_clear_history, on_delete_room: a worker asks for the latest seq ...
DismissRequest == /\ running /\ connected
                  /\ dismissing = {}
                  /\ RoomSeqs # {}
                  /\ dismissing' = {Latest}
                  /\ UNCHANGED <<storeVars, overtaken, announcing, running, connected, swept,
                                 events, fetched, localVars>>

\* ... and the main thread deletes the conversation and moves the peer's cursor.
DismissDone == \E latest \in dismissing :
                  /\ stored' = stored \ RoomSeqs
                  /\ cursor' = MaxOf({latest}, cursor)
                  /\ dismissed' = dismissed \cup
                        {s \in accepted \cap RoomSeqs : s <= latest \/ s \in stored}
                  /\ passedOver' = passedOver \cup
                        {s \in inbox \ (RoomSeqs \cup stored) : cursor < s /\ s <= latest}
                  /\ dismissing' = {}
                  /\ UNCHANGED <<storeVars, overtaken, announcing, running, connected, swept,
                                 events, fetched>>

-----------------------------------------------------------------------------
Next == \/ \E s \in Seqs : Arrive(s) \/ Broadcast(s)
        \/ StartApp \/ QuitApp
        \/ \E c \in BOOLEAN : SetConnected(c)
        \/ \E f \in Fetchers : Fetch(f) \/ Apply(f)
        \/ SweepFails
        \/ DrainEvent
        \/ DismissRequest \/ DismissDone

Spec == Init /\ [][Next]_vars

-----------------------------------------------------------------------------
\* Cursor, tables and responses hold sequence numbers of the stream; a client
\* that does not run holds no events, responses or pending actions.
SyncTypeOK == /\ StoreTypeOK
              /\ announcing \subseteq Seqs
              /\ running \in BOOLEAN /\ connected \in BOOLEAN /\ swept \in BOOLEAN
              /\ events \in Seq(Seqs) /\ Len(events) <= MaxEvents
              /\ fetched \in [Fetchers -> SUBSET SUBSET Seqs]
              /\ dismissing \subseteq Seqs \cup {0}
              /\ cursor \in Seqs \cup {0}
              /\ stored \subseteq Seqs \ Undecryptable /\ dismissed \subseteq RoomSeqs
              /\ overtaken \subseteq accepted /\ passedOver \subseteq Seqs
              /\ ~running => /\ ~connected /\ events = <<>> /\ dismissing = {}
                             /\ \A f \in Fetchers : fetched[f] = {}

(***************************************************************************)
(* What the cursor leaves behind: a message the daemon still retains at or *)
(* below the cursor, which no later sweep or history request returns, is   *)
(* stored or was dismissed, unless it cannot be opened, reached the daemon *)
(* after a later message, or was waiting when the user dismissed another   *)
(* conversation with the same peer, whose cursor they share (Sync.apply,   *)
(* service.py:27-47; on_clear_history, gtkui.py:1837-1850).  No connection *)
(* loss, restart, failed sweep or overlap of the two fetchers adds to it.  *)
(***************************************************************************)
NothingLeftBehind ==
    \A s \in inbox : s <= cursor =>
        s \in stored \cup dismissed \cup Undecryptable \cup overtaken \cup passedOver

(***************************************************************************)
(* The cursor never moves back, although the sweep and an opened           *)
(* conversation may fetch from different cursors and apply in the other    *)
(* order (set_cursor, store.py:134-140).                                   *)
(***************************************************************************)
CursorNeverMovesBack == [][cursor' >= cursor]_vars
=============================================================================
