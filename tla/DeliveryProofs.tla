--------------------------- MODULE DeliveryProofs ---------------------------
(***************************************************************************)
(* What a peer sends.  Messages first: the stream for every set of         *)
(* sequence numbers, every capacity, every queue length and every          *)
(* combination of faults.  Files after that: the landing buffer for every  *)
(* set of transfers, chunk sizes, times and budget.                        *)
(*                                                                         *)
(* NoLoss is not inductive: that deleting a row on an ACK loses nothing    *)
(* rests on where ACKs come from (PacketsAreBacked), and that a message    *)
(* cannot be taken for another rests on what the counter is above          *)
(* (Journaled).                                                            *)
(***************************************************************************)
EXTENDS Delivery, Attachments, InboxStoreProofs, WellFoundedInduction

\* What the sender's journal keeps straight.
Journaled == /\ \A s \in alloc \cup queued : s < next
             /\ alloc \cap queued = {}
             /\ outbox \subseteq queued
             /\ batch \subseteq queued

IndInv == /\ TypeOK
          /\ StoreInv
          /\ Journaled
          /\ PacketsAreBacked
          /\ NoLoss

-----------------------------------------------------------------------------
\* What an outbound queue holds after a packet was added or taken.
LEMMA QueueRange ==
  ASSUME NEW S, NEW q \in Seq(S)
  PROVE  /\ \A p \in S : Append(q, p) \in Seq(S) /\ Range(Append(q, p)) = Range(q) \cup {p}
         /\ q # <<>> => /\ Tail(q) \in Seq(S) /\ Head(q) \in S
                        /\ Range(Tail(q)) \subseteq Range(q) /\ Head(q) \in Range(q)
<1>1. ASSUME NEW p \in S
      PROVE  Append(q, p) \in Seq(S) /\ Range(Append(q, p)) = Range(q) \cup {p}
  <2>1. /\ Append(q, p) \in Seq(S) /\ Len(Append(q, p)) = Len(q) + 1
        /\ \A i \in 1..Len(q) : Append(q, p)[i] = q[i]
        /\ Append(q, p)[Len(q) + 1] = p
    OBVIOUS
  <2>2. DOMAIN q = 1..Len(q) /\ DOMAIN Append(q, p) = 1..(Len(q) + 1) /\ Len(q) \in Nat
    BY <2>1
  <2>3. Range(q) \cup {p} \subseteq Range(Append(q, p))
    BY <2>1, <2>2 DEF Range
  <2>4. Range(Append(q, p)) \subseteq Range(q) \cup {p}
    <3>1. ASSUME NEW i \in 1..(Len(q) + 1) PROVE Append(q, p)[i] \in Range(q) \cup {p}
      <4>1. i \in 1..Len(q) \/ i = Len(q) + 1
        BY <2>2
      <4>. QED
        BY <2>1, <2>2, <4>1 DEF Range
    <3>. QED
      BY <2>2, <3>1 DEF Range
  <2>. QED
    BY <2>1, <2>3, <2>4
<1>2. ASSUME q # <<>>
      PROVE  /\ Tail(q) \in Seq(S) /\ Head(q) \in S
             /\ Range(Tail(q)) \subseteq Range(q) /\ Head(q) \in Range(q)
  <2>1. /\ Tail(q) \in Seq(S) /\ Len(q) \in Nat \ {0} /\ Len(Tail(q)) = Len(q) - 1
        /\ \A i \in 1..(Len(q) - 1) : Tail(q)[i] = q[i + 1]
        /\ Head(q) = q[1] /\ Head(q) \in S
    BY <1>2
  <2>2. DOMAIN q = 1..Len(q) /\ DOMAIN Tail(q) = 1..(Len(q) - 1)
    BY <2>1
  <2>. QED
    BY <2>1, <2>2 DEF Range
<1>. QED
  BY <1>1, <1>2

\* Putting a packet into an outbound queue adds just that packet.
LEMMA EnqueueInFlight ==
  ASSUME TypeOK, NEW d \in Daemons, NEW p \in Packets, Enqueue(d, p), wire' = wire
  PROVE  /\ control' \in [Daemons -> Seq(Packets)]
         /\ InFlight' \subseteq InFlight \cup {p}
<1>1. control[d] \in Seq(Packets)
  BY DEF TypeOK
<1>2. /\ Append(control[d], p) \in Seq(Packets)
      /\ Range(Append(control[d], p)) = Range(control[d]) \cup {p}
  BY <1>1, QueueRange
<1>3. control' = [control EXCEPT ![d] = Append(control[d], p)]
  BY DEF Enqueue
<1>4. control' \in [Daemons -> Seq(Packets)]
  BY <1>2, <1>3 DEF TypeOK
<1>5. \A c \in Daemons : Range(control'[c]) \subseteq Range(control[c]) \cup {p}
  <2>1. ASSUME NEW c \in Daemons PROVE Range(control'[c]) \subseteq Range(control[c]) \cup {p}
    <3>1. CASE c = d
      BY <1>2, <1>3, <3>1 DEF TypeOK
    <3>2. CASE c # d
      BY <1>3, <3>2 DEF TypeOK
    <3>. QED
      BY <3>1, <3>2
  <2>. QED
    BY <2>1
<1>. QED
  BY <1>4, <1>5 DEF InFlight

\* The writer moves a packet, it makes none.
LEMMA WriteInFlight ==
  ASSUME TypeOK, NEW d \in Daemons, WriteLoop(d)
  PROVE  /\ control' \in [Daemons -> Seq(Packets)] /\ wire' \subseteq Packets
         /\ InFlight' \subseteq InFlight
<1>1. control[d] \in Seq(Packets) /\ control[d] # <<>>
  BY DEF TypeOK, WriteLoop
<1>2. /\ Tail(control[d]) \in Seq(Packets) /\ Head(control[d]) \in Packets
      /\ Range(Tail(control[d])) \subseteq Range(control[d])
      /\ Head(control[d]) \in Range(control[d])
  BY <1>1, QueueRange
<1>3. control' = [control EXCEPT ![d] = Tail(control[d])] /\ wire' = wire \cup {Head(control[d])}
  BY DEF WriteLoop
<1>4. control' \in [Daemons -> Seq(Packets)] /\ wire' \subseteq Packets
  BY <1>2, <1>3 DEF TypeOK
<1>5. \A c \in Daemons : Range(control'[c]) \subseteq Range(control[c])
  <2>1. ASSUME NEW c \in Daemons PROVE Range(control'[c]) \subseteq Range(control[c])
    <3>1. CASE c = d
      BY <1>2, <1>3, <3>1 DEF TypeOK
    <3>2. CASE c # d
      BY <1>3, <3>2 DEF TypeOK
    <3>. QED
      BY <3>1, <3>2
  <2>. QED
    BY <2>1
<1>6. wire' \subseteq InFlight
  BY <1>2, <1>3 DEF InFlight
<1>. QED
  BY <1>4, <1>5, <1>6 DEF InFlight
-----------------------------------------------------------------------------
\* Steps that leave the receiver's tables alone keep their invariant.
LEMMA StoreKept ==
  ASSUME StoreInv, UNCHANGED storeVars
  PROVE  StoreInv' /\ StoreTypeOK'
BY StoreInvStep DEF StoreInv

\* A step that neither shrinks the tables nor makes a packet keeps every
\* packet backed.
LEMMA BackedKept ==
  ASSUME PacketsAreBacked, InFlight' \subseteq InFlight, queued \subseteq queued',
         accepted' = accepted, handling' \subseteq handling
  PROVE  PacketsAreBacked'
BY DEF PacketsAreBacked

\* The same packets are in flight as before.
LEMMA SameLink == UNCHANGED linkVars => InFlight' = InFlight
BY DEF linkVars, InFlight

\* Reading a packet makes none.
LEMMA ReceiveInFlight ==
  ASSUME TypeOK, NEW p, Receive(p), control' = control
  PROVE  /\ p \in InFlight /\ InFlight' \subseteq InFlight
         /\ wire' \subseteq Packets
BY DEF Receive, InFlight, TypeOK

\* SendMsg's first half: the counter moves past the seq it gives out.
LEMMA AllocSeqStep == ASSUME IndInv, AllocSeq PROVE IndInv'
<1>. USE DEF IndInv
<1>1. StoreInv' /\ StoreTypeOK'
  BY StoreKept DEF AllocSeq, receiverVars
<1>2. InFlight' = InFlight
  BY SameLink DEF AllocSeq
<1>3. TypeOK'
  BY <1>1 DEF TypeOK, AllocSeq, receiverVars, linkVars, faultVars
<1>4. Journaled'
  BY SeqsAssumption DEF TypeOK, Journaled, AllocSeq
<1>5. PacketsAreBacked'
  BY <1>2, BackedKept DEF AllocSeq, receiverVars, storeVars
<1>6. NoLoss'
  BY DEF NoLoss, AllocSeq, receiverVars, storeVars
<1>. QED
  BY <1>1, <1>3, <1>4, <1>5, <1>6

\* SendMsg's second half: the row is committed or given up.
LEMMA QueueStep ==
  ASSUME IndInv, NEW s \in Seqs, QueueMsg(s) \/ QueueFails(s) PROVE IndInv'
<1>. USE DEF IndInv
<1>1. StoreInv' /\ StoreTypeOK'
  BY StoreKept DEF QueueMsg, QueueFails, receiverVars
<1>2. InFlight' = InFlight
  BY SameLink DEF QueueMsg, QueueFails
<1>3. TypeOK'
  BY <1>1 DEF TypeOK, QueueMsg, QueueFails, receiverVars, linkVars, faultVars
<1>4. Journaled'
  BY DEF TypeOK, Journaled, QueueMsg, QueueFails
<1>5. PacketsAreBacked'
  BY <1>2, BackedKept DEF QueueMsg, QueueFails, receiverVars, storeVars
<1>6. NoLoss'
  BY DEF NoLoss, QueueMsg, QueueFails, receiverVars, storeVars
<1>. QED
  BY <1>1, <1>3, <1>4, <1>5, <1>6

\* Flush steps that touch only the sender's memory.
LEMMA FlushMemoryStep ==
  ASSUME IndInv, NEW s \in Seqs, FlushStart \/ FlushBounce(s) \/ GoStale(s) PROVE IndInv'
<1>. USE DEF IndInv
<1>1. StoreInv' /\ StoreTypeOK'
  BY StoreKept DEF FlushStart, FlushBounce, GoStale, receiverVars
<1>2. InFlight' = InFlight
  BY SameLink DEF FlushStart, FlushBounce, GoStale
<1>3. TypeOK'
  BY <1>1 DEF TypeOK, FlushStart, FlushBounce, GoStale, receiverVars, linkVars, faultVars
<1>4. Journaled'
  BY DEF TypeOK, Journaled, FlushStart, FlushBounce, GoStale
<1>5. PacketsAreBacked'
  BY <1>2, BackedKept DEF FlushStart, FlushBounce, GoStale, receiverVars, storeVars
<1>6. NoLoss'
  BY DEF NoLoss, FlushStart, FlushBounce, GoStale, receiverVars, storeVars
<1>. QED
  BY <1>1, <1>3, <1>4, <1>5, <1>6

\* A row goes to the outbound queue: the new packet is backed by the journal.
LEMMA FlushEnqueueStep ==
  ASSUME IndInv, NEW s \in Seqs, FlushEnqueue(s) PROVE IndInv'
<1>. USE DEF IndInv
<1>1. StoreInv' /\ StoreTypeOK'
  BY StoreKept DEF FlushEnqueue, receiverVars
<1>2. Msg(s) \in Packets /\ Msg(s).type = "msg" /\ Msg(s).seq = s
  BY DEF Msg, Packets
<1>3. /\ control' \in [Daemons -> Seq(Packets)]
      /\ InFlight' \subseteq InFlight \cup {Msg(s)}
  BY <1>2, EnqueueInFlight DEF FlushEnqueue, Daemons
<1>4. TypeOK'
  BY <1>1, <1>3 DEF TypeOK, FlushEnqueue, receiverVars, faultVars
<1>5. Journaled'
  BY DEF TypeOK, Journaled, FlushEnqueue
<1>6. PacketsAreBacked'
  <2>1. s \in queued
    BY DEF Journaled, FlushEnqueue
  <2>2. UNCHANGED <<queued, accepted, handling>>
    BY DEF FlushEnqueue, receiverVars, storeVars
  <2>. QED
    BY <1>2, <1>3, <2>1, <2>2 DEF PacketsAreBacked
<1>7. NoLoss'
  BY DEF NoLoss, FlushEnqueue, receiverVars, storeVars
<1>. QED
  BY <1>1, <1>4, <1>5, <1>6, <1>7

\* An ACK deletes a row: the ACK is backed, so the message was accepted.
LEMMA HandleAckStep ==
  ASSUME IndInv, NEW s \in Seqs, HandleAck(s) PROVE IndInv'
<1>. USE DEF IndInv
<1>1. StoreInv' /\ StoreTypeOK'
  BY StoreKept DEF HandleAck, receiverVars
<1>2. Ack(s).type = "ack" /\ Ack(s).seq = s
  BY DEF Ack
<1>3. Ack(s) \in InFlight /\ InFlight' \subseteq InFlight /\ wire' \subseteq Packets
  BY ReceiveInFlight DEF HandleAck
<1>4. TypeOK'
  BY <1>1, <1>3 DEF TypeOK, HandleAck, receiverVars, faultVars
<1>5. Journaled'
  BY DEF TypeOK, Journaled, HandleAck
<1>6. PacketsAreBacked'
  BY <1>3, BackedKept DEF HandleAck, receiverVars, storeVars
<1>7. NoLoss'
  <2>1. s \in accepted
    BY <1>2, <1>3 DEF PacketsAreBacked
  <2>. QED
    BY <2>1 DEF NoLoss, HandleAck, receiverVars, storeVars
<1>. QED
  BY <1>1, <1>4, <1>5, <1>6, <1>7

\* Add never forgets what was accepted.
LEMMA AddKeepsAccepted ==
  ASSUME NEW s, Add(s), TypeOK, StoreInv
  PROVE  accepted' = accepted \cup {s}
<1>1. CASE AddNew(s)
  BY <1>1 DEF AddNew
<1>2. CASE AddDuplicate(s)
  BY <1>2 DEF AddDuplicate, IsDuplicate, storeVars, StoreInv, InboxIsNewestWindow,
     GuardIsNextWindow
<1>. QED
  BY <1>1, <1>2 DEF Add

\* A message is stored: it was journaled, and now it is accepted.
LEMMA HandleMsgStep ==
  ASSUME IndInv, NEW s \in Seqs, HandleMsg(s) PROVE IndInv'
<1>. USE DEF IndInv
<1>1. StoreInv' /\ StoreTypeOK'
  BY StoreInvStep DEF HandleMsg, StoreNext, StoreInv
<1>2. Msg(s).type = "msg" /\ Msg(s).seq = s
  BY DEF Msg
<1>3. Msg(s) \in InFlight /\ InFlight' \subseteq InFlight /\ wire' \subseteq Packets
  BY ReceiveInFlight DEF HandleMsg
<1>4. accepted' = accepted \cup {s}
  BY AddKeepsAccepted DEF HandleMsg
<1>5. TypeOK'
  BY <1>1, <1>3 DEF TypeOK, HandleMsg, senderVars, faultVars
<1>6. Journaled'
  BY DEF Journaled, HandleMsg, senderVars
<1>7. PacketsAreBacked'
  <2>1. s \in queued
    BY <1>2, <1>3 DEF PacketsAreBacked
  <2>2. queued' = queued /\ handling' = {s}
    BY DEF HandleMsg, senderVars
  <2>. QED
    BY <1>3, <1>4, <2>1, <2>2 DEF PacketsAreBacked
<1>8. NoLoss'
  BY <1>4 DEF NoLoss, HandleMsg, senderVars
<1>. QED
  BY <1>1, <1>5, <1>6, <1>7, <1>8

\* The handler's end: an ACK for a committed message, or none.
LEMMA AckStep ==
  ASSUME IndInv, NEW s \in Seqs, SendAck(s) \/ AckBounce(s) PROVE IndInv'
<1>. USE DEF IndInv
<1>1. StoreInv' /\ StoreTypeOK'
  BY StoreKept DEF SendAck, AckBounce
<1>2. Ack(s) \in Packets /\ Ack(s).type = "ack" /\ Ack(s).seq = s /\ s \in accepted
  BY DEF Ack, Packets, SendAck, AckBounce, PacketsAreBacked
<1>3. /\ control' \in [Daemons -> Seq(Packets)]
      /\ InFlight' \subseteq InFlight \cup {Ack(s)}
  <2>1. CASE SendAck(s)
    BY <1>2, <2>1, EnqueueInFlight DEF SendAck, Daemons
  <2>2. CASE AckBounce(s)
    BY <2>2, SameLink DEF AckBounce, TypeOK, linkVars
  <2>. QED
    BY <2>1, <2>2
<1>4. TypeOK'
  BY <1>1, <1>3 DEF TypeOK, SendAck, AckBounce, senderVars, linkVars, faultVars
<1>5. Journaled'
  BY DEF Journaled, SendAck, AckBounce, senderVars
<1>6. PacketsAreBacked'
  <2>1. UNCHANGED <<queued, accepted>> /\ handling' \subseteq handling
    BY DEF SendAck, AckBounce, senderVars, storeVars
  <2>. QED
    BY <1>2, <1>3, <2>1 DEF PacketsAreBacked
<1>7. NoLoss'
  BY DEF NoLoss, SendAck, AckBounce, senderVars, storeVars
<1>. QED
  BY <1>1, <1>4, <1>5, <1>6, <1>7
\* The link and the faults: packets move or vanish, memory is lost, the
\* tables stay.
LEMMA DaemonStepStep ==
  ASSUME IndInv, NEW d \in Daemons, DaemonStep(d) PROVE IndInv'
<1>. USE DEF IndInv
<1>1. UNCHANGED <<storeVars, next, outbox, oversize, queued>>
  BY DEF DaemonStep, WriteLoop, SetBlocked, Crash, Restart, senderVars, receiverVars, storeVars
<1>2. /\ alloc' \subseteq alloc /\ sent' \subseteq sent /\ batch' \subseteq batch
      /\ handling' \subseteq handling
  BY DEF DaemonStep, WriteLoop, SetBlocked, Crash, Restart, senderVars, receiverVars
<1>3. StoreInv' /\ StoreTypeOK'
  BY <1>1, StoreKept
<1>4. control' \in [Daemons -> Seq(Packets)] /\ wire' \subseteq Packets
      /\ InFlight' \subseteq InFlight
  <2>1. CASE WriteLoop(d)
    BY <2>1, WriteInFlight
  <2>2. CASE SetBlocked(d) \/ Restart(d)
    BY <2>2, SameLink DEF SetBlocked, Restart, TypeOK, linkVars
  <2>3. CASE Crash(d)
    <3>1. control' = [control EXCEPT ![d] = <<>>] /\ wire' = wire
      BY <2>3 DEF Crash
    <3>2. Range(<<>>) = {} /\ <<>> \in Seq(Packets)
      BY DEF Range
    <3>3. control' \in [Daemons -> Seq(Packets)]
      BY <3>1, <3>2 DEF TypeOK
    <3>4. ASSUME NEW c \in Daemons PROVE Range(control'[c]) \subseteq Range(control[c])
      <4>1. CASE c = d
        BY <3>1, <3>2, <4>1 DEF TypeOK
      <4>2. CASE c # d
        BY <3>1, <4>2 DEF TypeOK
      <4>. QED
        BY <4>1, <4>2
    <3>. QED
      BY <3>1, <3>3, <3>4 DEF InFlight, TypeOK
  <2>. QED
    BY <2>1, <2>2, <2>3 DEF DaemonStep
<1>5. up' \in [Daemons -> BOOLEAN] /\ blocked' \in [Daemons -> BOOLEAN]
  BY DEF TypeOK, DaemonStep, WriteLoop, SetBlocked, Crash, Restart, faultVars
<1>6. TypeOK'
  BY <1>1, <1>2, <1>3, <1>4, <1>5 DEF TypeOK
<1>7. Journaled'
  BY <1>1, <1>2 DEF Journaled
<1>8. PacketsAreBacked'
  BY <1>1, <1>2, <1>4, BackedKept DEF storeVars
<1>9. NoLoss'
  BY <1>1 DEF NoLoss, storeVars
<1>. QED
  BY <1>3, <1>6, <1>7, <1>8, <1>9

\* A packet that comes to nothing.
LEMMA DiscardStep ==
  ASSUME IndInv, NEW p \in wire, Discard(p) PROVE IndInv'
<1>. USE DEF IndInv
<1>1. StoreInv' /\ StoreTypeOK'
  BY StoreKept DEF Discard, receiverVars
<1>2. InFlight' \subseteq InFlight
  BY DEF InFlight, Discard
<1>3. TypeOK'
  BY <1>1 DEF TypeOK, Discard, senderVars, receiverVars, faultVars
<1>4. Journaled'
  BY DEF Journaled, Discard, senderVars
<1>5. PacketsAreBacked'
  BY <1>2, BackedKept DEF Discard, senderVars, receiverVars, storeVars
<1>6. NoLoss'
  BY DEF NoLoss, Discard, senderVars, receiverVars, storeVars
<1>. QED
  BY <1>1, <1>3, <1>4, <1>5, <1>6

\* Nothing is in flight and nothing is journaled at the start.
LEMMA IndInvInit == Init => IndInv
<1>. SUFFICES ASSUME Init PROVE IndInv
  OBVIOUS
<1>1. StoreInv /\ StoreTypeOK
  BY StoreInvInit DEF Init, StoreInv
<1>2. control \in [Daemons -> Seq(Packets)] /\ \A d \in Daemons : Range(control[d]) = {}
  BY DEF Init, Range
<1>3. InFlight = {}
  BY <1>2 DEF Init, InFlight
<1>4. TypeOK
  BY <1>1, <1>2 DEF Init, TypeOK
<1>5. Journaled /\ PacketsAreBacked /\ NoLoss
  BY <1>3 DEF Init, StoreInit, Journaled, PacketsAreBacked, NoLoss
<1>. QED
  BY <1>1, <1>4, <1>5 DEF IndInv

\* The invariant is inductive.
LEMMA IndInvNext == IndInv /\ [Next]_vars => IndInv'
<1>. SUFFICES ASSUME IndInv, [Next]_vars PROVE IndInv'
  OBVIOUS
<1>1. CASE AllocSeq
  BY <1>1, AllocSeqStep
<1>2. CASE FlushStart
  <2>1. \E s \in Seqs : TRUE
    BY <1>2 DEF FlushStart, IndInv, TypeOK
  <2>. QED
    BY <1>2, <2>1, FlushMemoryStep
<1>3. ASSUME NEW s \in Seqs, SenderStep(s) PROVE IndInv'
  BY <1>3, QueueStep, FlushMemoryStep, FlushEnqueueStep, HandleAckStep DEF SenderStep
<1>4. ASSUME NEW s \in Seqs, ReceiverStep(s) PROVE IndInv'
  BY <1>4, HandleMsgStep, AckStep DEF ReceiverStep
<1>5. ASSUME NEW p \in wire, Discard(p) PROVE IndInv'
  BY <1>5, DiscardStep
<1>6. ASSUME NEW d \in Daemons, DaemonStep(d) PROVE IndInv'
  BY <1>6, DaemonStepStep
<1>7. CASE UNCHANGED vars
  <2>1. InFlight' = InFlight
    BY <1>7, SameLink DEF vars
  <2>2. StoreInv' /\ StoreTypeOK'
    BY <1>7, StoreKept DEF vars, receiverVars, IndInv
  <2>. QED
    BY <1>7, <2>1, <2>2 DEF vars, IndInv, TypeOK, Journaled, PacketsAreBacked, NoLoss,
       senderVars, receiverVars, storeVars, linkVars, faultVars
<1>. QED
  BY <1>1, <1>2, <1>3, <1>4, <1>5, <1>6, <1>7 DEF Next

-----------------------------------------------------------------------------
\* The type invariant of the message stream.
THEOREM TypeCorrect == Spec => []TypeOK
<1>1. IndInv => TypeOK
  BY DEF IndInv
<1>. QED
  BY IndInvInit, IndInvNext, <1>1, PTL DEF Spec

(***************************************************************************)
(* No message is lost between the two journals, however many messages,     *)
(* crashes, retransmissions and blocks there are: SendMsg's row leaves the *)
(* outbox only when the receiver has committed the message.                *)
(***************************************************************************)
THEOREM NothingLost == Spec => []NoLoss
<1>1. IndInv => NoLoss
  BY DEF IndInv
<1>. QED
  BY IndInvInit, IndInvNext, <1>1, PTL DEF Spec

(***************************************************************************)
(* Every packet, wherever it is, is backed by a table: a message by the    *)
(* sender's journal, an ACK by the receiver's commit, so that a late or    *)
(* repeated ACK never deletes a row that is still needed (HandlePacket).   *)
(***************************************************************************)
THEOREM PacketsBacked == Spec => []PacketsAreBacked
<1>1. IndInv => PacketsAreBacked
  BY DEF IndInv
<1>. QED
  BY IndInvInit, IndInvNext, <1>1, PTL DEF Spec

(***************************************************************************)
(* NextSeq never gives out a seq that names another message anywhere in    *)
(* the system: not in a table of either daemon, nor in a packet.           *)
(***************************************************************************)
THEOREM SeqNeverReused == Spec => []FreshSeq
<1>1. ASSUME IndInv PROVE FreshSeq
  <2>1. \A s \in alloc \cup queued : s < next
    BY <1>1 DEF IndInv, Journaled
  <2>2. accepted \subseteq queued
    BY <1>1 DEF IndInv, PacketsAreBacked
  <2>3. \A p \in wire : p.seq \in queued
    BY <1>1, <2>2 DEF IndInv, PacketsAreBacked, InFlight
  <2>. QED
    BY <2>1, <2>2, <2>3 DEF FreshSeq
<1>. QED
  BY IndInvInit, IndInvNext, <1>1, PTL DEF Spec

(***************************************************************************)
(* The two daemons implement MailPromise: every step submits, accepts or   *)
(* confirms one message, or is invisible to the clients.                   *)
(***************************************************************************)
THEOREM PromiseKept == Spec => KeepsPromise
<1>1. Init => Promise!PromiseInit
  BY DEF Init, StoreInit, Promise!PromiseInit
<1>2. ASSUME IndInv, [Next]_vars PROVE [Promise!PromiseNext]_(Promise!promiseVars)
  <2>1. CASE UNCHANGED <<queued, accepted, outbox>>
    BY <2>1 DEF Promise!promiseVars
  <2>2. ASSUME NEW s \in Seqs, QueueMsg(s) PROVE Promise!Submit(s)
    <3>1. s \notin queued /\ outbox \subseteq queued
      BY <1>2, <2>2 DEF IndInv, Journaled, QueueMsg
    <3>. QED
      BY <2>2, <3>1 DEF QueueMsg, receiverVars, storeVars, Promise!Submit
  <2>3. ASSUME NEW s \in Seqs, HandleMsg(s)
        PROVE  Promise!Accept(s) \/ UNCHANGED <<queued, accepted, outbox>>
    <3>1. accepted' = accepted \cup {s} /\ UNCHANGED <<queued, outbox>>
      BY <1>2, <2>3, AddKeepsAccepted DEF IndInv, HandleMsg, senderVars
    <3>2. s \in queued
      <4>1. Msg(s) \in InFlight /\ Msg(s).type = "msg" /\ Msg(s).seq = s
        BY <2>3 DEF HandleMsg, Receive, InFlight, Msg
      <4>. QED
        BY <1>2, <4>1 DEF IndInv, PacketsAreBacked
    <3>. QED
      BY <3>1, <3>2 DEF Promise!Accept
  <2>4. ASSUME NEW s \in Seqs, HandleAck(s)
        PROVE  Promise!Confirm(s) \/ UNCHANGED <<queued, accepted, outbox>>
    <3>1. outbox' = outbox \ {s} /\ UNCHANGED <<queued, accepted>>
      BY <2>4 DEF HandleAck, receiverVars, storeVars
    <3>2. s \in accepted
      <4>1. Ack(s) \in InFlight /\ Ack(s).type = "ack" /\ Ack(s).seq = s
        BY <2>4 DEF HandleAck, Receive, InFlight, Ack
      <4>. QED
        BY <1>2, <4>1 DEF IndInv, PacketsAreBacked
    <3>3. outbox \subseteq queued
      BY <1>2 DEF IndInv, Journaled
    <3>. QED
      BY <3>1, <3>2, <3>3 DEF Promise!Confirm
  <2>5. \/ UNCHANGED <<queued, accepted, outbox>>
        \/ \E s \in Seqs : QueueMsg(s) \/ HandleMsg(s) \/ HandleAck(s)
    BY <1>2 DEF Next, vars, AllocSeq, FlushStart, SenderStep, QueueFails,
       FlushEnqueue, FlushBounce, GoStale, ReceiverStep, SendAck,
       AckBounce, Discard, DaemonStep, WriteLoop, SetBlocked, Crash, Restart,
       senderVars, receiverVars, storeVars
  <2>. QED
    BY <2>1, <2>2, <2>3, <2>4, <2>5 DEF Promise!PromiseNext
<1>. QED
  BY <1>1, <1>2, IndInvInit, IndInvNext, PTL DEF Spec, KeepsPromise, Promise!PromiseSpec

-----------------------------------------------------------------------------
(***************************************************************************)
(* Files.  The landing buffer for any transfers, chunk sizes, times and    *)
(* budget: what is held is finite because it is added chunk by chunk.      *)
(***************************************************************************)
HeldInv == /\ attach \subseteq Chunks
           /\ IsFiniteSet(Held(attach))
           /\ IsFiniteSet(BytesOf(attach))

LEMMA ChunkParts ==
    ASSUME NEW c \in Chunks
    PROVE  c[1] \in Tids /\ c[1] \in Nat /\ Size[c[1]] \in Nat /\ Ts[c] \in Nat
  BY TransfersAssumption, TsAssumption DEF Chunks

\* The bytes of one chunk.
LEMMA ChunkBytes ==
    ASSUME NEW c, Size[c[1]] \in Nat
    PROVE  /\ BytesOf({c}) = {c} \X (1..Size[c[1]])
           /\ IsFiniteSet(BytesOf({c})) /\ Cardinality(BytesOf({c})) = Size[c[1]]
  <1>1. BytesOf({c}) = {c} \X (1..Size[c[1]])
    BY DEF BytesOf
  <1>2. IsFiniteSet(1..Size[c[1]]) /\ Cardinality(1..Size[c[1]]) = Size[c[1]]
    <2>1. ASSUME NEW n \in Nat
          PROVE  IsFiniteSet(1..n) /\ Cardinality(1..n) = n
      <3>1. n \in Int /\ 1 \in Int
        OBVIOUS
      <3>2. IsFiniteSet(1..n) /\ Cardinality(1..n) = (IF 1 > n THEN 0 ELSE n - 1 + 1)
        BY <3>1, FS_Interval
      <3>3. QED
        BY <3>2
    <2>2. QED
      BY <2>1
  <1>3. IsFiniteSet({c}) /\ Cardinality({c}) = 1
    BY FS_Singleton
  <1>4. /\ IsFiniteSet({c} \X (1..Size[c[1]]))
        /\ Cardinality({c} \X (1..Size[c[1]])) = 1 * Size[c[1]]
    BY <1>2, <1>3, FS_Product
  <1>5. QED
    BY <1>1, <1>4

\* A new chunk takes its size.
LEMMA BytesAdded ==
    ASSUME NEW C, NEW c, c \notin C, Size[c[1]] \in Nat, IsFiniteSet(BytesOf(C))
    PROVE  /\ IsFiniteSet(BytesOf(C \cup {c}))
           /\ Bytes(C \cup {c}) = Bytes(C) + Size[c[1]]
  <1>1. BytesOf(C \cup {c}) = BytesOf(C) \cup BytesOf({c})
    BY DEF BytesOf
  <1>2. BytesOf(C) \cap BytesOf({c}) = {}
    <2>1. \A x \in BytesOf({c}) : x[1] = c
      BY DEF BytesOf
    <2>2. \A x \in BytesOf(C) : x[1] \in C
      BY DEF BytesOf
    <2>3. QED
      BY <2>1, <2>2
  <1>3. IsFiniteSet(BytesOf({c})) /\ Cardinality(BytesOf({c})) = Size[c[1]]
    BY ChunkBytes
  <1>4. /\ IsFiniteSet(BytesOf(C) \cup BytesOf({c}))
        /\ Cardinality(BytesOf(C) \cup BytesOf({c}))
             = Cardinality(BytesOf(C)) + Cardinality(BytesOf({c}))
                 - Cardinality(BytesOf(C) \cap BytesOf({c}))
    BY <1>3, FS_Union
  <1>5. Cardinality(BytesOf(C)) \in Nat
    BY FS_CardinalityType
  <1>6. Cardinality(BytesOf(C) \cap BytesOf({c})) = 0
    BY <1>2, FS_EmptySet
  <1>7. Cardinality(BytesOf(C) \cup BytesOf({c})) = Cardinality(BytesOf(C)) + Size[c[1]] - 0
    BY <1>3, <1>4, <1>6, Zenon
  <1>8. IsFiniteSet(BytesOf(C \cup {c})) /\ Bytes(C \cup {c}) = Bytes(C) + Size[c[1]] - 0
    BY <1>1, <1>4, <1>7, Zenon DEF Bytes
  <1>9. Bytes(C) \in Nat
    BY <1>5 DEF Bytes
  <1>10. QED
    BY <1>8, <1>9

\* Chunks that go take their bytes with them.
LEMMA BytesRemoved ==
    ASSUME NEW C, NEW D, D \subseteq C, IsFiniteSet(BytesOf(C))
    PROVE  IsFiniteSet(BytesOf(D)) /\ Bytes(D) <= Bytes(C) /\ Bytes(D) \in Nat
  <1>1. BytesOf(D) \subseteq BytesOf(C)
    BY DEF BytesOf
  <1>2. QED
    BY <1>1, FS_Subset, FS_CardinalityType DEF Bytes

LEMMA HeldInit == AttachInit => HeldInv /\ BudgetRespected
  <1> SUFFICES ASSUME AttachInit PROVE HeldInv /\ BudgetRespected
    OBVIOUS
  <1>1. attach = {} /\ Held(attach) = {} /\ BytesOf(attach) = {}
    BY DEF AttachInit, Held, BytesOf
  <1>2. IsFiniteSet({}) /\ Cardinality({}) = 0
    BY FS_EmptySet
  <1>3. QED
    BY <1>1, <1>2, CapBytesAssumption DEF HeldInv, BudgetRespected, Bytes

LEMMA AddChunkKeepsBudget ==
    ASSUME HeldInv, NEW c \in Chunks, AddChunk(c)
    PROVE  HeldInv' /\ BudgetRespected'
  <1>1. PICK V \in MakeRoom(c[1]) : attach' = Without(V, attach) \cup {c}
    BY DEF AddChunk
  <1>2. Fits(V, c[1]) /\ c \notin Without(V, attach) /\ Without(V, attach) \subseteq attach
    BY DEF MakeRoom, AddChunk, Without
  <1>3. /\ IsFiniteSet(BytesOf(Without(V, attach)))
        /\ Bytes(Without(V, attach)) \in Nat
    BY <1>2, BytesRemoved DEF HeldInv
  <1>4. /\ IsFiniteSet(BytesOf(attach'))
        /\ Bytes(attach') = Bytes(Without(V, attach)) + Size[c[1]]
    BY <1>1, <1>2, <1>3, ChunkParts, BytesAdded
  <1>5. BudgetRespected'
    BY <1>2, <1>4 DEF Fits, BudgetRespected
  <1>6. IsFiniteSet(Held(attach'))
    <2>1. Held(attach') \subseteq Held(attach) \cup {c[1]}
      BY <1>1, <1>2 DEF Held
    <2>2. IsFiniteSet(Held(attach) \cup {c[1]})
      BY FS_AddElement DEF HeldInv
    <2>3. QED
      BY <2>1, <2>2, FS_Subset
  <1>7. attach' \subseteq Chunks
    BY <1>1, <1>2 DEF HeldInv
  <1>8. QED
    BY <1>4, <1>5, <1>6, <1>7 DEF HeldInv

LEMMA AckTidKeepsBudget ==
    ASSUME HeldInv, BudgetRespected, NEW t \in Tids, AckTid(t)
    PROVE  HeldInv' /\ BudgetRespected'
  <1>1. attach' \subseteq attach
    BY DEF AckTid, Without
  <1>2. /\ IsFiniteSet(BytesOf(attach')) /\ Bytes(attach') <= Bytes(attach)
        /\ Bytes(attach') \in Nat /\ Bytes(attach) \in Nat
    BY <1>1, BytesRemoved DEF HeldInv
  <1>3. Held(attach') \subseteq Held(attach)
    BY <1>1 DEF Held
  <1>4. IsFiniteSet(Held(attach'))
    BY <1>3, FS_Subset DEF HeldInv
  <1>5. QED
    BY <1>1, <1>2, <1>4, CapBytesAssumption DEF HeldInv, BudgetRespected

LEMMA BudgetStep ==
    HeldInv /\ BudgetRespected /\ [AttachNext]_attachVars => HeldInv' /\ BudgetRespected'
  <1> SUFFICES ASSUME HeldInv, BudgetRespected, [AttachNext]_attachVars
               PROVE  HeldInv' /\ BudgetRespected'
    OBVIOUS
  <1>1. CASE UNCHANGED attachVars
    BY <1>1 DEF attachVars, HeldInv, BudgetRespected
  <1>2. CASE AttachNext
    BY <1>2, AddChunkKeepsBudget, AckTidKeepsBudget DEF AttachNext
  <1>3. QED
    BY <1>1, <1>2

LEMMA HeldAlways == AttachSpec => [](HeldInv /\ BudgetRespected)
  BY HeldInit, BudgetStep, PTL DEF AttachSpec

(***************************************************************************)
(* The files of a peer never take more than the byte budget, for any       *)
(* transfers, chunk sizes and budget (Add, makeRoomTx).                    *)
(***************************************************************************)
THEOREM BudgetKept == AttachSpec => []BudgetRespected
  BY HeldAlways, PTL

-----------------------------------------------------------------------------
\* The transfers that go are those that makeRoomTx chose.
LEMMA GoneAreVictims ==
    ASSUME NEW c, NEW V \in MakeRoom(c[1]), attach' = Without(V, attach) \cup {c}
    PROVE  /\ Held(attach) \ Held(attach') = V
           /\ \A u \in Held(attach') : u = c[1] \/ (u \in Candidates(c[1]) \ V)
           /\ \A u : u # c[1] /\ u \notin V => Of(u, attach') = Of(u, attach)
  <1>1. V \subseteq Held(attach) /\ c[1] \notin V
    BY DEF MakeRoom, Candidates
  <1>2. \A u \in Held(attach') : u = c[1] \/ (u \in Held(attach) /\ u \notin V)
    BY DEF Held, Without
  <1>3. \A u \in Held(attach) : u \notin V => u \in Held(attach')
    BY DEF Held, Without
  <1>4. \A u : u # c[1] /\ u \notin V => Of(u, attach') = Of(u, attach)
    BY DEF Of, Without
  <1>5. QED
    BY <1>1, <1>2, <1>3, <1>4 DEF Candidates

LEMMA CompleteLastStep ==
    ASSUME NEW c \in Chunks, AddChunk(c),
           NEW t \in Held(attach), Complete(t, attach), t \notin Held(attach'),
           NEW u \in Held(attach')
    PROVE  Complete(u, attach') \/ Of(u, attach' \ attach) # {}
  <1>1. PICK V \in MakeRoom(c[1]) : attach' = Without(V, attach) \cup {c}
    BY DEF AddChunk
  <1>2. t \in V
    BY <1>1, GoneAreVictims
  <1>3. CASE u = c[1]
    <2>1. c \in attach' \ attach
      BY <1>1 DEF AddChunk
    <2>2. QED
      BY <1>3, <2>1 DEF Of
  <1>4. CASE u # c[1]
    <2>1. u \in Candidates(c[1]) \ V /\ Of(u, attach') = Of(u, attach)
      BY <1>1, <1>4, GoneAreVictims
    <2>2. EvictedBefore(t, u)
      BY <1>2, <2>1 DEF MakeRoom, IsPrefix
    <2>3. Complete(u, attach)
      BY <2>2 DEF EvictedBefore, Complete
    <2>4. QED
      BY <2>1, <2>3 DEF Complete
  <1>5. QED
    BY <1>3, <1>4

(***************************************************************************)
(* A complete transfer is displaced only when no incomplete one is left    *)
(* but the one being written (pickEviction), whatever the chunks, their    *)
(* times and sizes.                                                        *)
(***************************************************************************)
THEOREM CompleteGoesLast == AttachSpec => CompleteEvictedLast
  <1>1. ASSUME [AttachNext]_attachVars, ~UNCHANGED attachVars,
               NEW t \in Held(attach), Complete(t, attach), t \notin Held(attach'),
               attach' \ attach # {}, NEW u \in Held(attach')
        PROVE  Complete(u, attach') \/ Of(u, attach' \ attach) # {}
    <2>1. PICK c \in Chunks : AddChunk(c)
      BY <1>1 DEF AttachNext, AckTid, Without
    <2>2. QED
      BY <1>1, <2>1, CompleteLastStep
  <1>2. [AttachNext]_attachVars =>
           [\A t \in Held(attach) :
               (Complete(t, attach) /\ t \notin Held(attach') /\ attach' \ attach # {})
                  => \A u \in Held(attach') : Complete(u, attach') \/ Of(u, attach' \ attach) # {}
           ]_attachVars
    BY <1>1
  <1>3. QED
    BY <1>2, PTL DEF AttachSpec, CompleteEvictedLast

-----------------------------------------------------------------------------
LEMMA LeastNatural ==
    ASSUME NEW S, S \subseteq Nat, S # {}
    PROVE  Min(S) \in S /\ \A x \in S : Min(S) <= x
  <1> DEFINE Less == {p \in Nat \X Nat : p[1] < p[2]}
  <1>1. IsWellFoundedOn(Less, Nat)
    BY NatLessThanWellFounded, Zenon DEF OpToRel
  <1>2. PICK x \in S : \A y \in S : ~(<<y, x>> \in Less)
    <2> HIDE DEF Less
    <2> QED
      BY <1>1, WFMin
  <1>3. ASSUME NEW y \in S PROVE ~(y < x)
    <2>1. ~(<<y, x>> \in Less)
      BY <1>2
    <2>2. y \in Nat /\ x \in Nat
      OBVIOUS
    <2>3. QED
      BY <2>1, <2>2
  <1>4. \A y \in S : x <= y
    BY <1>3
  <1>5. QED
    BY <1>4 DEF Min

LEMMA AgeIsTime ==
    ASSUME HeldInv, NEW t \in Held(attach)
    PROVE  Age(t) \in Nat /\ t \in Nat
  <1>1. {Ts[c] : c \in Of(t, attach)} \subseteq Nat /\ {Ts[c] : c \in Of(t, attach)} # {}
        /\ t \in Nat
    BY ChunkParts DEF HeldInv, Held, Of
  <1>2. QED
    BY <1>1, LeastNatural DEF Age

\* pickEviction's order is total on what is held.
LEMMA EvictionOrder ==
    ASSUME HeldInv
    PROVE  /\ \A t, u \in Held(attach) : t # u => EvictedBefore(t, u) \/ EvictedBefore(u, t)
           /\ \A t, u \in Held(attach) : ~(EvictedBefore(t, u) /\ EvictedBefore(u, t))
           /\ \A t, u, v \in Held(attach) :
                 EvictedBefore(t, u) /\ EvictedBefore(u, v) => EvictedBefore(t, v)
  <1>1. \A t \in Held(attach) : Age(t) \in Nat /\ t \in Nat
    BY AgeIsTime
  <1>2. \A t : Complete(t, attach) \in BOOLEAN
    BY DEF Complete
  <1>3. \A t, u \in Held(attach) : t # u => Older(t, u) \/ Older(u, t)
    BY <1>1 DEF Older
  <1>4. \A t, u \in Held(attach) : ~(Older(t, u) /\ Older(u, t))
    BY <1>1 DEF Older
  <1>5. \A t, u, v \in Held(attach) : Older(t, u) /\ Older(u, v) => Older(t, v)
    BY <1>1 DEF Older
  <1>6. QED
    BY <1>2, <1>3, <1>4, <1>5 DEF EvictedBefore

\* Of transfers that are held one is the last to go.
LEMMA LastVictim ==
    ASSUME HeldInv, NEW V, V \subseteq Held(attach), V # {}
    PROVE  \E last \in V : \A v \in V \ {last} : EvictedBefore(v, last)
  <1>1. DEFINE Suffix(W) == W # {} /\ \A w \in W, v \in V \ W : EvictedBefore(v, w)
               T == {W \in FiniteSubsetsOf(V) : Suffix(W)}
  <1>2. V \in FiniteSubsetsOf(V) /\ Suffix(V)
    BY FS_Subset DEF HeldInv, FiniteSubsetsOf
  <1>3. T # {} /\ T \subseteq FiniteSubsetsOf(V)
    BY <1>2
  <1>4. \E W \in T : \A U \in T : ~(<<U, W>> \in StrictSubsetOrdering(V))
    <2> HIDE DEF T
    <2>1. QED
      BY <1>3, FS_StrictSubsetOrderingWellFounded, WFMin
  <1>5. PICK W \in T : \A U \in T : ~(<<U, W>> \in StrictSubsetOrdering(V))
    BY <1>4
  <1>6. W \subseteq V /\ IsFiniteSet(W) /\ Suffix(W)
    BY DEF FiniteSubsetsOf
  <1>7. PICK x \in W : TRUE
    BY <1>6
  <1>8. DEFINE U == {w \in W : w # x /\ EvictedBefore(x, w)}
  <1>9. CASE U = {}
    <2>1. \A v \in V \ {x} : EvictedBefore(v, x)
      BY <1>6, <1>9, EvictionOrder
    <2>2. QED
      BY <1>6, <2>1
  <1>10. CASE U # {}
    <2>1. IsFiniteSet(U) /\ U \in FiniteSubsetsOf(V)
      BY <1>6, FS_Subset DEF FiniteSubsetsOf
    <2>2. ASSUME NEW w \in U, NEW v \in V \ U PROVE EvictedBefore(v, w)
      <3>1. CASE v \notin W
        BY <1>6, <3>1
      <3>2. CASE v \in W
        BY <1>6, <3>2, EvictionOrder
      <3>3. QED
        BY <3>1, <3>2
    <2>3. U \in T
      BY <1>10, <2>1, <2>2
    <2>4. <<U, W>> \in StrictSubsetOrdering(V)
      BY <1>6, <1>7, <2>1 DEF StrictSubsetOrdering
    <2>5. QED
      BY <1>5, <2>3, <2>4
  <1>11. QED
    BY <1>9, <1>10

LEMMA InVainStep ==
    ASSUME HeldInv, NEW c \in Chunks, AddChunk(c), Held(attach) \ Held(attach') # {}
    PROVE  \E last \in Held(attach) \ Held(attach') :
              Bytes(Without((Held(attach) \ Held(attach')) \ {last}, attach)) + Size[c[1]]
                 > CapBytes
  <1>1. PICK V \in MakeRoom(c[1]) : attach' = Without(V, attach) \cup {c}
    BY DEF AddChunk
  <1>2. Held(attach) \ Held(attach') = V /\ V # {}
    BY <1>1, GoneAreVictims
  <1>3. V \subseteq Held(attach) /\ IsPrefix(V, c[1]) /\ V \subseteq Candidates(c[1])
        /\ \A W \in SUBSET V : W # V /\ IsPrefix(W, c[1]) => ~Fits(W, c[1])
    BY DEF MakeRoom, Candidates
  <1>4. PICK last \in V : \A v \in V \ {last} : EvictedBefore(v, last)
    BY <1>2, <1>3, LastVictim
  <1>5. IsPrefix(V \ {last}, c[1])
    BY <1>3, <1>4 DEF IsPrefix
  <1>6. ~Fits(V \ {last}, c[1])
    BY <1>3, <1>5
  <1>7. Bytes(Without(V \ {last}, attach)) \in Nat /\ Size[c[1]] \in Nat
    BY BytesRemoved, ChunkParts DEF HeldInv, Without
  <1>8. Bytes(Without(V \ {last}, attach)) + Size[c[1]] > CapBytes
    BY <1>6, <1>7, CapBytesAssumption DEF Fits
  <1>9. QED
    BY <1>2, <1>8

(***************************************************************************)
(* Making room displaces nothing needlessly: without the last transfer     *)
(* that pickEviction chose there would not have been room (makeRoomTx).    *)
(***************************************************************************)
THEOREM NoVainEviction == AttachSpec => NothingEvictedInVain
  <1>1. ASSUME HeldInv, [AttachNext]_attachVars, ~UNCHANGED attachVars, NEW c \in attach' \ attach,
               Held(attach) \ Held(attach') # {}
        PROVE  \E last \in Held(attach) \ Held(attach') :
                  Bytes(Without((Held(attach) \ Held(attach')) \ {last}, attach)) + Size[c[1]]
                     > CapBytes
    <2>1. PICK d \in Chunks : AddChunk(d)
      BY <1>1 DEF AttachNext, AckTid, Without
    <2>2. c = d
      BY <1>1, <2>1 DEF AddChunk, Without
    <2>3. QED
      BY <1>1, <2>1, <2>2, InVainStep
  <1>2. HeldInv /\ [AttachNext]_attachVars =>
           [\A c \in attach' \ attach :
               LET gone == Held(attach) \ Held(attach')
               IN  gone # {} => \E last \in gone :
                      Bytes(Without(gone \ {last}, attach)) + Size[c[1]] > CapBytes
           ]_attachVars
    BY <1>1
  <1>3. QED
    BY <1>2, HeldAlways, PTL DEF AttachSpec, NothingEvictedInVain

-----------------------------------------------------------------------------
(***************************************************************************)
(* From end to end.  What makes OnlyEvictionLoses inductive: the daemon    *)
(* acknowledges what it holds, and is asked to free a transfer only when   *)
(* its file has been stored.                                               *)
(***************************************************************************)
Safe(c) == c \in attach \/ c[1] \in messages \cup evicted

FilesInv == /\ acking \subseteq messages
            /\ acked \subseteq Chunks
            /\ \A c \in acked \cup (Chunks \ fileOutbox) : Safe(c)

\* What is safe stays so when transfers go to make room.
LEMMA EvictionKeepsSafe ==
    ASSUME NEW c, AddChunk(c), UNCHANGED messages
    PROVE  Safe(c)' /\ \A d : Safe(d) => Safe(d)'
  <1>1. PICK V : attach' = Without(V, attach) \cup {c} /\ evicted' = evicted \cup V
    BY DEF AddChunk
  <1>2. QED
    BY <1>1 DEF Safe, Without

LEMMA FilesStep == FilesInv /\ [FilesNext]_filesVars => FilesInv'
  <1> SUFFICES ASSUME FilesInv, [FilesNext]_filesVars
               PROVE  FilesInv'
    OBVIOUS
  <1>1. ASSUME NEW c \in Chunks, ChunkNew(c) PROVE FilesInv'
    <2>1. /\ acked' = acked \cup {c} /\ UNCHANGED <<fileOutbox, acking, messages>>
      BY <1>1 DEF ChunkNew
    <2>2. Safe(c)' /\ \A d : Safe(d) => Safe(d)'
      BY <1>1, <2>1, EvictionKeepsSafe DEF ChunkNew
    <2>3. QED
      BY <2>1, <2>2 DEF FilesInv
  <1>2. ASSUME NEW c \in Chunks, ChunkDuplicate(c) PROVE FilesInv'
    BY <1>2 DEF ChunkDuplicate, FilesInv, Safe, attachVars, sessionVars
  <1>3. ASSUME NEW c \in Chunks, ChunkAcked(c) PROVE FilesInv'
    BY <1>3 DEF ChunkAcked, FilesInv, Safe, attachVars, sessionVars
  <1>4. ASSUME NEW t \in Tids, AckFile(t) PROVE FilesInv'
    <2>1. /\ t \in messages /\ attach' = Without({t}, attach) /\ acking' \subseteq acking
          /\ UNCHANGED <<evicted, fileOutbox, acked, messages>>
      BY <1>4 DEF AckFile, AckTid, FilesInv
    <2>2. \A d : Safe(d) => Safe(d)'
      BY <2>1 DEF Safe, Without
    <2>3. QED
      BY <2>1, <2>2 DEF FilesInv
  <1>5. CASE \/ \E c \in Chunks : IncomingFile(c)
             \/ \E t \in Tids : AckFileLost(t) \/ ProcessFetched(t)
             \/ StartClient \/ QuitClient \/ Sweep \/ SweepSkipped
             \/ UNCHANGED filesVars
    <2>1. /\ UNCHANGED <<attach, evicted, fileOutbox, acked>>
          /\ messages \subseteq messages'
          /\ acking' \subseteq messages'
      BY <1>5 DEF IncomingFile, AckFileLost, ProcessFetched, Finalize, StartClient,
                  QuitClient, Sweep, SweepSkipped, filesVars, attachVars, sessionVars, FilesInv
    <2>2. QED
      BY <2>1 DEF FilesInv, Safe
  <1>6. QED
    BY <1>1, <1>2, <1>3, <1>4, <1>5 DEF FilesNext

(***************************************************************************)
(* A file is lost to eviction only (HandlePacket, Add, AckTid,             *)
(* _finalize_attachment), for any transfers, budget and sequence of client *)
(* starts, sweeps, lost ACKs and lost requests.                            *)
(***************************************************************************)
THEOREM FilesLostToEviction == FilesSpec => []OnlyEvictionLoses
  <1>1. FilesInit => FilesInv
    BY DEF FilesInit, FilesInv
  <1>2. FilesInv => OnlyEvictionLoses
    BY DEF FilesInv, Safe, OnlyEvictionLoses
  <1>3. QED
    BY <1>1, <1>2, FilesStep, PTL DEF FilesSpec

\* Each step of a file's way adds a chunk, frees a transfer or leaves table
\* attach alone (HandlePacket, handleAckFile).
LEMMA FilesUseBuffer == FilesSpec => AttachSpec
  <1>1. FilesInit => AttachInit
    BY DEF FilesInit
  <1>2. [FilesNext]_filesVars => [AttachNext]_attachVars
    <2> SUFFICES ASSUME [FilesNext]_filesVars PROVE [AttachNext]_attachVars
      OBVIOUS
    <2>1. ASSUME NEW c \in Chunks, ChunkNew(c) PROVE AttachNext
      BY <2>1 DEF ChunkNew, AttachNext
    <2>2. ASSUME NEW t \in Tids, AckFile(t) PROVE AttachNext
      BY <2>2 DEF AckFile, AttachNext
    <2>3. CASE \/ \E c \in Chunks : ChunkDuplicate(c) \/ ChunkAcked(c) \/ IncomingFile(c)
               \/ \E t \in Tids : AckFileLost(t) \/ ProcessFetched(t)
               \/ StartClient \/ QuitClient \/ Sweep \/ SweepSkipped
               \/ UNCHANGED filesVars
      BY <2>3 DEF ChunkDuplicate, ChunkAcked, IncomingFile, AckFileLost, ProcessFetched,
              StartClient, QuitClient, Sweep, SweepSkipped, filesVars
    <2>4. QED
      BY <2>1, <2>2, <2>3 DEF FilesNext
  <1>3. QED
    BY <1>1, <1>2, PTL DEF FilesSpec, AttachSpec

(***************************************************************************)
(* The byte budget holds end to end, and eviction stays in order and takes *)
(* nothing in vain, whatever the sender and the client do.                 *)
(***************************************************************************)
COROLLARY FilesKeepBudget ==
    FilesSpec => []BudgetRespected /\ CompleteEvictedLast /\ NothingEvictedInVain
  BY FilesUseBuffer, BudgetKept, CompleteGoesLast, NoVainEviction, PTL
=============================================================================
