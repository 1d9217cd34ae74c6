---------------------------- MODULE Attachments -----------------------------
(***************************************************************************)
(* Files from one peer, end to end: the sender's journal, the file branch  *)
(* of HandlePacket with the daemon's landing buffer (AttachmentStore), and *)
(* the receiving client (client/aimless/gtkui.py), which assembles files   *)
(* from live events or, once after each start, from what the daemon holds. *)
(***************************************************************************)
EXTENDS AttachmentStore, Sequences

CONSTANT MaxEvents   \* bound on undrained events

ASSUME EventsAssumption == MaxEvents \in Nat \ {0}

VARIABLES fileOutbox,  \* sender: chunks not yet acknowledged
          acked,       \* chunks the daemon has acknowledged, the ACKs on their way
          running,     \* the receiving client runs
          swept,       \* its startup sweep for files is over
          events,      \* chunk events not yet drained
          bufs,        \* _file_bufs: chunks assembled live in this session
          jobs,        \* complete transfers fetched by the sweep, not yet processed
          acking,      \* transfers whose ackfile request is on its way
          messages     \* client, table messages: transfers whose file is written and stored

sessionVars == <<running, swept, events, bufs, jobs, acking>>
filesVars == <<attachVars, fileOutbox, acked, sessionVars, messages>>

-----------------------------------------------------------------------------
\* The sender has journaled all its files; the receiving client is not running.
FilesInit == /\ AttachInit
             /\ fileOutbox = Chunks /\ acked = {}
             /\ running = FALSE /\ swept = FALSE
             /\ events = <<>> /\ bufs = {} /\ jobs = {} /\ acking = {}
             /\ messages = {}

-----------------------------------------------------------------------------
\* The daemon.

\* HandlePacket of a chunk the store does not hold: stored, acknowledged, and
\* announced to the client, if one is connected by then.  A chunk there is no
\* room for is neither stored nor acknowledged.
ChunkNew(c) == /\ c \in fileOutbox
               /\ AddChunk(c)
               /\ acked' = acked \cup {c}
               /\ \/ UNCHANGED events
                  \/ running /\ Len(events) < MaxEvents /\ events' = Append(events, c)
               /\ UNCHANGED <<fileOutbox, running, swept, bufs, jobs, acking, messages>>

\* A chunk the store holds is only acknowledged again.
ChunkDuplicate(c) == /\ c \in fileOutbox \cap attach
                     /\ acked' = acked \cup {c}
                     /\ UNCHANGED <<attachVars, fileOutbox, sessionVars, messages>>

\* An ACK reaches the sender, or is lost with the session that carried it.
ChunkAcked(c) == /\ c \in acked
                 /\ acked' = acked \ {c}
                 /\ fileOutbox' \in {fileOutbox, fileOutbox \ {c}}
                 /\ UNCHANGED <<attachVars, sessionVars, messages>>

\* handleAckFile: the transfer is freed.
AckFile(t) == /\ t \in acking
              /\ acking' = acking \ {t}
              /\ AckTid(t)
              /\ UNCHANGED <<fileOutbox, acked, running, swept, events, bufs, jobs, messages>>

\* The request fails; nobody repeats it.
AckFileLost(t) == /\ t \in acking
                  /\ acking' = acking \ {t}
                  /\ UNCHANGED <<attachVars, fileOutbox, acked, running, swept, events,
                                 bufs, jobs, messages>>

-----------------------------------------------------------------------------
\* The client.

StartClient == /\ ~running
               /\ running' = TRUE /\ swept' = FALSE
               /\ UNCHANGED <<attachVars, fileOutbox, acked, events, bufs, jobs, acking, messages>>

\* The buffers of a session are lost with it.
QuitClient == /\ running
              /\ running' = FALSE
              /\ events' = <<>> /\ bufs' = {} /\ jobs' = {} /\ acking' = {}
              /\ UNCHANGED <<attachVars, fileOutbox, acked, swept, messages>>

\* _finalize_attachment: the file is written, a message row is added unless it
\* exists, and the daemon is asked to free the transfer.
Finalize(t) == /\ messages' = messages \cup {t}
               /\ acking' = acking \cup {t}

\* Deviation: the daemon is told to free a transfer at its first chunk.
IncomingFileAcksEarly(c) ==
    /\ events # <<>> /\ c = Head(events)
    /\ events' = Tail(events)
    /\ acking' = acking \cup {c[1]}
    /\ IF Complete(c[1], bufs \cup {c})
       THEN /\ bufs' = Without({c[1]}, bufs)
            /\ messages' = messages \cup {c[1]}
       ELSE /\ bufs' = bufs \cup {c}
            /\ UNCHANGED messages
    /\ UNCHANGED <<attachVars, fileOutbox, acked, running, swept, jobs>>

\* _incoming_file: the chunk is put with those received before; the last one
\* completes the file.
IncomingFile(c) == /\ events # <<>> /\ c = Head(events)
                   /\ events' = Tail(events)
                   /\ IF Complete(c[1], bufs \cup {c})
                      THEN Finalize(c[1]) /\ bufs' = Without({c[1]}, bufs)
                      ELSE bufs' = bufs \cup {c} /\ UNCHANGED <<messages, acking>>
                   /\ UNCHANGED <<attachVars, fileOutbox, acked, running, swept, jobs>>

\* catchup_attachments: the complete transfers the daemon holds are fetched, once.
Sweep == /\ running /\ ~swept
         /\ swept' = TRUE
         /\ jobs' = {t \in Held(attach) : Complete(t, attach)}
         /\ UNCHANGED <<attachVars, fileOutbox, acked, running, events, bufs, acking, messages>>

\* The text sweep is still busy, or the daemon does not answer: no second try.
SweepSkipped == /\ running /\ ~swept
                /\ swept' = TRUE
                /\ UNCHANGED <<attachVars, fileOutbox, acked, running, events, bufs, jobs,
                               acking, messages>>

\* _process_fetched_transfer, all of whose chunks are there.
ProcessFetched(t) == /\ t \in jobs
                     /\ jobs' = jobs \ {t}
                     /\ Finalize(t)
                     /\ UNCHANGED <<attachVars, fileOutbox, acked, running, swept, events, bufs>>

-----------------------------------------------------------------------------
FilesNext == \/ \E c \in Chunks : ChunkNew(c) \/ ChunkDuplicate(c) \/ ChunkAcked(c)
                                  \/ IncomingFile(c)
             \/ \E t \in Tids : AckFile(t) \/ AckFileLost(t) \/ ProcessFetched(t)
             \/ StartClient \/ QuitClient \/ Sweep \/ SweepSkipped

FilesSpec == FilesInit /\ [][FilesNext]_filesVars

-----------------------------------------------------------------------------
(***************************************************************************)
(* Only eviction loses a file: a chunk the sender no longer retransmits is *)
(* in the daemon's store, or its file has been written by the client, or   *)
(* the budget displaced its transfer (HandlePacket, mail.go:357-371;       *)
(* _finalize_attachment, gtkui.py:2336-2369).                              *)
(***************************************************************************)
OnlyEvictionLoses ==
    \A c \in Chunks \ fileOutbox : c \in attach \/ c[1] \in messages \cup evicted
=============================================================================
