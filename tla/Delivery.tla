------------------------------ MODULE Delivery ------------------------------
(***************************************************************************)
(* One message stream between two daemons (daemon/mail.go, store.go,       *)
(* node.go): SendMsg journals a message, flushPeer hands the journal to    *)
(* the outbound queue until the peer acknowledges, HandlePacket stores and *)
(* acknowledges at the other end.  All tables and locks of the daemon are  *)
(* per peer, so a daemon's other conversations touch this one only through *)
(* the shared outbound queue.                                              *)
(*                                                                         *)
(* Grain of atomicity: one step per SQLite transaction and per channel     *)
(* operation.  Between them the API goroutines, the flush goroutine, the   *)
(* reader and the writer interleave freely, and a daemon may crash.  A     *)
(* crash keeps every committed transaction; the events a daemon sends to   *)
(* its clients are the subject of other modules.                           *)
(***************************************************************************)
EXTENDS InboxStore, Sequences, Functions

CONSTANTS QueueCap,   \* slots of the outbound control channel
          Crashing,   \* daemons that may crash
          Blocking    \* daemons whose user may block the other one

Daemons == {"sender", "receiver"}

ASSUME QueueCapAssumption == QueueCap \in Nat \ {0}
ASSUME FaultsAssumption == Crashing \subseteq Daemons /\ Blocking \subseteq Daemons

VARIABLES next,      \* sender, table outbox_seq: next seq to give out
          outbox,    \* sender, table outbox: rows not yet acknowledged
          alloc,     \* sender: SendMsg calls between NextSeq and Queue
          sent,      \* sender: rows whose send stamp is younger than the retry interval
          batch,     \* sender: what the running flushPeer has still to send
          handling,  \* receiver: the seq HandlePacket has stored and not yet acknowledged
          control,   \* each daemon's outbound queue
          wire,      \* packets in flight
          up,        \* is the daemon running
          blocked,   \* has the daemon blocked its peer
          oversize,  \* messages whose payload exceeds an envelope or the link's MTU
          queued     \* history: every seq whose row was ever committed

senderVars == <<next, outbox, alloc, sent, batch, oversize, queued>>
receiverVars == <<storeVars, handling>>
linkVars == <<control, wire>>
faultVars == <<up, blocked>>
vars == <<senderVars, receiverVars, linkVars, faultVars>>

Packets == [type : {"msg", "ack"}, seq : Seqs]
Msg(s) == [type |-> "msg", seq |-> s]
Ack(s) == [type |-> "ack", seq |-> s]

-----------------------------------------------------------------------------
Init == /\ StoreInit
        /\ next = 1
        /\ outbox = {} /\ alloc = {} /\ sent = {} /\ batch = {}
        /\ oversize = {} /\ queued = {}
        /\ handling = {}
        /\ control = [d \in Daemons |-> <<>>]
        /\ wire = {}
        /\ up = [d \in Daemons |-> TRUE]
        /\ blocked = [d \in Daemons |-> FALSE]

-----------------------------------------------------------------------------
\* The overlay link.

\* Encode and enqueue: a packet that is too large or meets a full queue is refused.
Enqueue(d, p) == /\ p.type = "msg" => p.seq \notin oversize
                 /\ Len(control[d]) < QueueCap
                 /\ control' = [control EXCEPT ![d] = Append(@, p)]

\* writeLoop: the oldest queued packet leaves.
WriteLoop(d) == /\ control[d] # <<>>
                /\ control' = [control EXCEPT ![d] = Tail(@)]
                /\ wire' = wire \cup {Head(control[d])}
                /\ UNCHANGED <<senderVars, receiverVars, faultVars>>

\* A packet is read by a handler.  Another copy of it, from an earlier
\* retransmission, may still be on its way.
Receive(p) == /\ p \in wire
              /\ wire' \in {wire, wire \ {p}}

\* A packet comes to nothing: the network loses it, nobody is listening, or
\* HandlePacket returns early (peer blocked, undecodable, transaction failed).
\* While the reader is busy the packet cannot be read anyway, so that its loss
\* is only noticed when the reader is done.
Discard(p) == /\ p \in wire
              /\ p.type = "msg" => handling = {}
              /\ wire' = wire \ {p}
              /\ UNCHANGED <<senderVars, receiverVars, control, faultVars>>

-----------------------------------------------------------------------------
\* The sending daemon.

\* Deviation: the seq is derived from the rows still in the outbox.
AllocSeqFromOutbox ==
    LET s == IF outbox = {} THEN 1 ELSE 1 + CHOOSE m \in outbox : \A t \in outbox : t <= m
    IN  /\ up["sender"] /\ ~blocked["sender"]
        /\ s \in Seqs
        /\ next' = s + 1
        /\ alloc' = alloc \cup {s}
        /\ UNCHANGED <<outbox, sent, batch, oversize, queued, receiverVars, linkVars, faultVars>>

\* SendMsg up to NextSeq, which commits before the row is written.
AllocSeq == /\ up["sender"] /\ ~blocked["sender"]
            /\ next \in Seqs
            /\ next' = next + 1
            /\ alloc' = alloc \cup {next}
            /\ UNCHANGED <<outbox, sent, batch, oversize, queued, receiverVars, linkVars, faultVars>>

\* SendMsg from Queue on: the row is committed and the seq returned, whatever
\* the payload's size.
QueueMsg(s) == /\ s \in alloc
               /\ alloc' = alloc \ {s}
               /\ outbox' = outbox \cup {s}
               /\ queued' = queued \cup {s}
               /\ oversize' \in {oversize, oversize \cup {s}}
               /\ UNCHANGED <<next, sent, batch, receiverVars, linkVars, faultVars>>

\* Queue fails: the caller gets an error, the seq stays unused.
QueueFails(s) == /\ s \in alloc
                 /\ alloc' = alloc \ {s}
                 /\ UNCHANGED <<next, outbox, sent, batch, oversize, queued,
                                receiverVars, linkVars, faultVars>>

\* flushPeer starts, for a new message, a path that came up or a retry tick.
\* The flushing flag admits one at a time; rows stamped within the retry
\* interval are left out.  With nothing left to send it changes nothing.
FlushStart == /\ up["sender"] /\ ~blocked["sender"]
              /\ batch = {}
              /\ outbox \ sent # {}
              /\ batch' = outbox \ sent
              /\ UNCHANGED <<next, outbox, alloc, sent, oversize, queued,
                             receiverVars, linkVars, faultVars>>

\* Deviation: the row is deleted once it is handed to the queue.
FlushEnqueueForgets(s) == /\ s \in batch /\ s = Smallest(batch)
                          /\ Enqueue("sender", Msg(s))
                          /\ outbox' = outbox \ {s}
                          /\ batch' = batch \ {s}
                          /\ UNCHANGED <<next, sent, alloc, oversize, queued,
                                         receiverVars, wire, faultVars>>

\* flushPeer's loop, in seq order: the row is queued for sending and stamped.
FlushEnqueue(s) == /\ s \in batch /\ s = Smallest(batch)
                   /\ Enqueue("sender", Msg(s))
                   /\ sent' = sent \cup {s}
                   /\ batch' = batch \ {s}
                   /\ UNCHANGED <<next, outbox, alloc, oversize, queued,
                                  receiverVars, wire, faultVars>>

\* The message is too large, or the queue, shared with all other traffic of
\* the daemon, is full: the row is skipped without a stamp.
FlushBounce(s) == /\ s \in batch /\ s = Smallest(batch)
                  /\ batch' = batch \ {s}
                  /\ UNCHANGED <<next, outbox, alloc, sent, oversize, queued,
                                 receiverVars, linkVars, faultVars>>

\* The retry interval since the row's last stamp has passed.
GoStale(s) == /\ s \in sent
              /\ sent' = sent \ {s}
              /\ UNCHANGED <<next, outbox, alloc, batch, oversize, queued,
                             receiverVars, linkVars, faultVars>>

\* HandlePacket of an ACK: the row and its stamp are deleted.
HandleAck(s) == /\ up["sender"] /\ ~blocked["sender"]
                /\ Receive(Ack(s))
                /\ outbox' = outbox \ {s}
                /\ sent' = sent \ {s}
                /\ UNCHANGED <<next, alloc, batch, oversize, queued,
                               receiverVars, control, faultVars>>

-----------------------------------------------------------------------------
\* The receiving daemon.  Its reader handles one packet at a time.

\* Deviation: the message is acknowledged although its transaction failed.
HandleMsgAckOnError(s) == /\ up["receiver"] /\ ~blocked["receiver"]
                          /\ handling = {}
                          /\ Receive(Msg(s))
                          /\ Add(s) \/ UNCHANGED storeVars
                          /\ handling' = {s}
                          /\ UNCHANGED <<senderVars, control, faultVars>>

\* Deviation: only new messages are acknowledged.
HandleMsgAckOnlyNew(s) == /\ up["receiver"] /\ ~blocked["receiver"]
                          /\ handling = {}
                          /\ Receive(Msg(s))
                          /\ Add(s)
                          /\ handling' = IF IsDuplicate(s) THEN {} ELSE {s}
                          /\ UNCHANGED <<senderVars, control, faultVars>>

\* HandlePacket of a message up to the commit of Add.
HandleMsg(s) == /\ up["receiver"] /\ ~blocked["receiver"]
                /\ handling = {}
                /\ Receive(Msg(s))
                /\ Add(s)
                /\ handling' = {s}
                /\ UNCHANGED <<senderVars, control, faultVars>>

\* The rest of HandlePacket: an ACK for new and duplicate messages alike.
SendAck(s) == /\ s \in handling
              /\ Enqueue("receiver", Ack(s))
              /\ handling' = handling \ {s}
              /\ UNCHANGED <<senderVars, storeVars, wire, faultVars>>

\* The outbound queue is full and the ACK is dropped.
AckBounce(s) == /\ s \in handling
                /\ handling' = handling \ {s}
                /\ UNCHANGED <<senderVars, storeVars, linkVars, faultVars>>

-----------------------------------------------------------------------------
\* Faults and users.

\* Block and Unblock.
SetBlocked(d) == /\ d \in Blocking /\ up[d]
                 /\ blocked' = [blocked EXCEPT ![d] = ~@]
                 /\ UNCHANGED <<senderVars, receiverVars, linkVars, up>>

\* A crash loses what lives in goroutines, maps and channels.
Crash(d) == /\ d \in Crashing /\ up[d]
            /\ up' = [up EXCEPT ![d] = FALSE]
            /\ control' = [control EXCEPT ![d] = <<>>]
            /\ IF d = "sender"
               THEN /\ alloc' = {} /\ sent' = {} /\ batch' = {}
                    /\ UNCHANGED handling
               ELSE /\ handling' = {}
                    /\ UNCHANGED <<alloc, sent, batch>>
            /\ UNCHANGED <<next, outbox, oversize, queued, storeVars, wire, blocked>>

\* NewMail: the mailboxes of all peers with outbox rows are back, so that
\* the next retry tick finds them.
Restart(d) == /\ ~up[d]
              /\ up' = [up EXCEPT ![d] = TRUE]
              /\ UNCHANGED <<senderVars, receiverVars, linkVars, blocked>>

-----------------------------------------------------------------------------
SenderStep(s) == \/ QueueMsg(s)    \/ QueueFails(s)
                 \/ FlushEnqueue(s) \/ FlushBounce(s)
                 \/ GoStale(s)      \/ HandleAck(s)

ReceiverStep(s) == HandleMsg(s) \/ SendAck(s) \/ AckBounce(s)

DaemonStep(d) == WriteLoop(d) \/ SetBlocked(d) \/ Crash(d) \/ Restart(d)

Next == \/ AllocSeq
        \/ FlushStart
        \/ \E s \in Seqs : SenderStep(s) \/ ReceiverStep(s)
        \/ \E p \in wire : Discard(p)
        \/ \E d \in Daemons : DaemonStep(d)

Spec == Init /\ [][Next]_vars

(***************************************************************************)
(* Fairness.  The retry ticker, the flush goroutine, the writer and the    *)
(* reader's handler run to completion (weak fairness), and time passes.    *)
(* The shared queue is not full at every single attempt for ever, and a    *)
(* packet sent again and again is eventually handled, with no further copy *)
(* of it left: the link is fair-lossy and makes finitely many copies.      *)
(* That is strong fairness.  Nothing is assumed about users, crashes and   *)
(* restarts.                                                               *)
(***************************************************************************)
Fairness == /\ WF_vars(FlushStart)
            /\ \A d \in Daemons : WF_vars(WriteLoop(d))
            /\ \A s \in Seqs : /\ WF_vars(GoStale(s))
                              /\ WF_vars(FlushEnqueue(s) \/ FlushBounce(s))
                              /\ WF_vars(SendAck(s) \/ AckBounce(s))
                              /\ SF_vars(HandleMsg(s) /\ Msg(s) \notin wire')
                              /\ SF_vars(HandleAck(s) /\ Ack(s) \notin wire')
            /\ SF_vars(\E s \in Seqs : FlushEnqueue(s))
            /\ SF_vars(\E s \in Seqs : SendAck(s))

FairSpec == Spec /\ Fairness

-----------------------------------------------------------------------------
\* Variables hold the values the code's types allow; a daemon that is down
\* holds nothing in memory.
TypeOK == /\ StoreTypeOK
          /\ next \in Nat \ {0}
          /\ alloc \subseteq Seqs /\ outbox \subseteq Seqs /\ sent \subseteq Seqs
          /\ batch \subseteq Seqs /\ queued \subseteq Seqs /\ oversize \subseteq Seqs
          /\ handling \subseteq Seqs
          /\ control \in [Daemons -> Seq(Packets)]
          /\ wire \subseteq Packets
          /\ up \in [Daemons -> BOOLEAN]
          /\ blocked \in [Daemons -> BOOLEAN]

(***************************************************************************)
(* No message is lost between the two journals: a message whose seq was    *)
(* returned to the client is still in the sender's outbox or was committed *)
(* by the receiver, whatever is lost, repeated or cut short by a crash     *)
(* (Ack deletes the row, store.go:112; HandlePacket acknowledges after     *)
(* Add, mail.go:373-379).                                                  *)
(***************************************************************************)
NoLoss == queued \subseteq outbox \cup accepted

\* Packets on their way: written, or waiting in an outbound queue.
InFlight == wire \cup UNION {Range(control[d]) : d \in Daemons}

(***************************************************************************)
(* Every packet is backed by a table: a message in flight was journaled by *)
(* the sender, and an ACK in flight, queued or about to be queued is for a *)
(* message the receiver has committed, which a crash cannot take back      *)
(* (HandlePacket, mail.go:372-387).                                        *)
(***************************************************************************)
PacketsAreBacked ==
    /\ \A p \in InFlight : p.seq \in IF p.type = "msg" THEN queued ELSE accepted
    /\ handling \subseteq accepted
    /\ accepted \subseteq queued

(***************************************************************************)
(* A sequence number names one message for ever: everything allocated,     *)
(* journaled, in flight or accepted lies below the counter, so the next    *)
(* message cannot be mistaken for a duplicate at the peer, also when its   *)
(* row is already deleted and after a crash (NextSeq, store.go:33-59).     *)
(***************************************************************************)
FreshSeq == \A s \in alloc \cup queued \cup accepted \cup {p.seq : p \in wire} : s < next

\* Refinement mapping: a message is confirmed when its row is gone.
Promise == INSTANCE MailPromise
               WITH submitted <- queued, confirmed <- queued \ outbox

(***************************************************************************)
(* The two daemons implement the promise: a message is submitted once,     *)
(* accepted after that, and confirmed - its row gone - only after it was   *)
(* accepted; a row never comes back.                                       *)
(***************************************************************************)
KeepsPromise == Promise!PromiseSpec

\* Both daemons run and neither blocks the other.
Stable == \A d \in Daemons : up[d] /\ ~blocked[d]

(***************************************************************************)
(* If from some time on both daemons run and neither blocks the other,     *)
(* every journaled message that an envelope can carry is eventually        *)
(* acknowledged and its row deleted, also when a row that can never be     *)
(* sent comes before it in the journal (flushPeer, mail.go:474-502;        *)
(* retryLoop, mail.go:506).                                                *)
(***************************************************************************)
EventuallyAcknowledged ==
    <>[]Stable => \A s \in Seqs : (s \in outbox \ oversize) ~> (s \notin outbox)

(***************************************************************************)
(* What the repository's README promises of every message: "journaled and  *)
(* retried until delivered".  SendMsg journals a message of any size and   *)
(* returns its seq; flushPeer then fails to encode it at every attempt     *)
(* (mail.go:487-490, envelope.go:37).                                      *)
(***************************************************************************)
RetriedUntilDelivered ==
    <>[]Stable => \A s \in Seqs : (s \in outbox) ~> (s \notin outbox)
=============================================================================
