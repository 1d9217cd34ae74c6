-------------------------- MODULE ClientSyncProofs --------------------------
(***************************************************************************)
(* The client's copy of a stream for every capacity, every set of sequence *)
(* numbers and any number of undrained events.                             *)
(***************************************************************************)
EXTENDS ClientSync, InboxStoreProofs

(***************************************************************************)
(* Cursors, responses and the latest seq of a pending clear all come from  *)
(* the daemon's log, so they name accepted messages.                       *)
(***************************************************************************)
FromTheLog == /\ cursor = 0 \/ cursor \in accepted
              /\ dismissing \subseteq accepted \cup {0}
              /\ \A f \in Fetchers : \A msgs \in fetched[f] : msgs \subseteq accepted

SyncInv == StoreInv /\ SyncTypeOK /\ FromTheLog

-----------------------------------------------------------------------------
\* A finite set of naturals that is not empty has a largest member.
LEMMA NatMax ==
  ASSUME NEW T, T \subseteq Nat, T # {}, IsFiniteSet(T)
  PROVE  \E x \in T : \A y \in T : y <= x
<1>. DEFINE Above(x) == {t \in T : t > x}
            Counts == {Cardinality(Above(x)) : x \in T}
<1>1. ASSUME NEW x \in T PROVE IsFiniteSet(Above(x)) /\ Cardinality(Above(x)) \in Nat
  BY FS_Subset, FS_CardinalityType
<1>2. PICK n \in Counts : \A k \in Counts : n <= k
  <2>1. Counts \subseteq Nat /\ Counts # {}
    BY <1>1
  <2>. QED
    BY <2>1, NatMin
<1>3. PICK x \in T : n = Cardinality(Above(x))
  OBVIOUS
<1>4. ASSUME NEW y \in T, y > x PROVE FALSE
  <2>1. Above(y) \subseteq Above(x) \ {y} /\ y \in Above(x)
    <3>1. ASSUME NEW t \in Above(y) PROVE t \in Above(x) /\ t # y
      <4>1. t \in T /\ t > y /\ t \in Nat /\ y \in Nat /\ x \in Nat
        OBVIOUS
      <4>. QED
        BY <1>4, <4>1
    <3>. QED
      BY <1>4, <3>1
  <2>2. /\ IsFiniteSet(Above(x) \ {y})
        /\ Cardinality(Above(x) \ {y}) = Cardinality(Above(x)) - 1
    BY <1>1, <2>1, FS_RemoveElement
  <2>3. Cardinality(Above(y)) <= Cardinality(Above(x) \ {y})
    BY <2>1, <2>2, FS_Subset
  <2>4. Cardinality(Above(x)) <= Cardinality(Above(y))
    BY <1>2, <1>3
  <2>. QED
    BY <1>1, <2>2, <2>3, <2>4
<1>. QED
  BY <1>4

\* MaxOf is the largest of a set and a number.
LEMMA MaxOfIsMax ==
  ASSUME NEW S, S \subseteq Nat, IsFiniteSet(S), NEW n \in Nat
  PROVE  /\ MaxOf(S, n) \in S \cup {n}
         /\ \A t \in S \cup {n} : t <= MaxOf(S, n)
         /\ MaxOf(S, n) >= n
<1>1. IsFiniteSet(S \cup {n}) /\ S \cup {n} \subseteq Nat /\ S \cup {n} # {}
  BY FS_AddElement
<1>2. \E x \in S \cup {n} : \A y \in S \cup {n} : y <= x
  BY <1>1, NatMax
<1>3. /\ MaxOf(S, n) \in S \cup {n}
      /\ \A t \in S \cup {n} : t <= MaxOf(S, n)
  BY <1>2 DEF MaxOf
<1>. QED
  BY <1>1, <1>3

\* A seq is a positive natural, and accepted seqs are finitely many.
LEMMA SeqFacts ==
  ASSUME SyncInv
  PROVE  /\ Seqs \subseteq Nat /\ accepted \subseteq Seqs /\ inbox \subseteq accepted
         /\ cursor \in Nat /\ dismissing \subseteq Nat
         /\ \A S : S \subseteq accepted => IsFiniteSet(S) /\ S \subseteq Nat
<1>1. IsFiniteSet(accepted) /\ accepted \subseteq Seqs /\ Seqs \subseteq Nat
  BY SeqsAssumption DEF SyncInv, StoreInv, StoreTypeOK
<1>2. ASSUME NEW S, S \subseteq accepted PROVE IsFiniteSet(S) /\ S \subseteq Nat
  BY <1>1, <1>2, FS_Subset
<1>. QED
  BY <1>1, <1>2 DEF SyncInv, StoreInv, InboxIsNewestWindow, SyncTypeOK

\* Latest is a retained seq, or 0.
LEMMA LatestRetained ==
  ASSUME SyncInv
  PROVE  Latest \in inbox \cup {0} /\ \A t \in inbox : t <= Latest
<1>1. inbox \subseteq Nat /\ IsFiniteSet(inbox)
  BY SeqFacts
<1>2. CASE inbox = {}
  BY <1>2 DEF Latest
<1>3. CASE inbox # {}
  BY <1>1, <1>3, NatMax DEF Latest
<1>. QED
  BY <1>2, <1>3

-----------------------------------------------------------------------------
\* A session that holds nothing.
LEMMA NothingHeld ==
  /\ <<>> \in Seq(Seqs) /\ Len(<<>>) <= MaxEvents
  /\ [f \in Fetchers |-> {}] \in [Fetchers -> SUBSET SUBSET Seqs]
  /\ \A f \in Fetchers : [g \in Fetchers |-> {}][f] = {}
<1>1. <<>> \in Seq(Seqs) /\ Len(<<>>) <= MaxEvents
  BY EventsAssumption
<1>2. {} \in SUBSET SUBSET Seqs
  OBVIOUS
<1>3. [f \in Fetchers |-> {}] \in [Fetchers -> SUBSET SUBSET Seqs]
  BY <1>2
<1>. QED
  BY <1>1, <1>3

LEMMA SyncInit == Init => SyncInv
<1>1. Init => StoreInv
  BY StoreInvInit DEF Init
<1>2. Init => SyncTypeOK /\ FromTheLog
  <2>. SUFFICES ASSUME Init PROVE SyncTypeOK /\ FromTheLog
    OBVIOUS
  <2>1. /\ events \in Seq(Seqs) /\ Len(events) <= MaxEvents
        /\ fetched \in [Fetchers -> SUBSET SUBSET Seqs]
        /\ \A f \in Fetchers : fetched[f] = {}
    BY NothingHeld DEF Init
  <2>. QED
    BY <1>1, <2>1 DEF Init, SyncTypeOK, FromTheLog, StoreInv
<1>. QED
  BY <1>1, <1>2 DEF SyncInv

\* The daemon's steps.
LEMMA ArriveKeepsSync ==
  ASSUME SyncInv, NEW s \in Seqs, Arrive(s)
  PROVE  SyncInv'
<1>1. StoreInv'
  <2>1. StoreNext
    BY DEF Arrive, StoreNext
  <2>. QED
    BY <2>1, StoreInvStep DEF SyncInv
<1>2. accepted \subseteq accepted'
  BY DEF Arrive, Add, AddNew, AddDuplicate, storeVars
<1>3. SyncTypeOK'
  <2>1. overtaken' \subseteq accepted'
    <3>1. CASE AddNew(s)
      BY <1>2, <3>1 DEF AddNew, Arrive, SyncInv, SyncTypeOK
    <3>2. CASE AddDuplicate(s)
      BY <1>2, <3>2 DEF AddDuplicate, Arrive, SyncInv, SyncTypeOK
    <3>. QED
      BY <3>1, <3>2 DEF Arrive, Add
  <2>2. announcing' \subseteq Seqs
    BY DEF Arrive
  <2>. QED
    BY <1>1, <2>1, <2>2 DEF SyncInv, SyncTypeOK, StoreInv, Arrive, sessionVars, localVars
<1>4. FromTheLog'
  BY <1>2 DEF SyncInv, FromTheLog, Arrive, sessionVars, localVars
<1>. QED
  BY <1>1, <1>3, <1>4 DEF SyncInv

\* The log is not touched by any other step.
LEMMA StoreUntouched ==
  ASSUME SyncInv, UNCHANGED storeVars
  PROVE  StoreInv' /\ accepted' = accepted /\ StoreTypeOK' /\ inbox' = inbox
<1>1. StoreInv'
  BY StoreInvStep DEF SyncInv
<1>. QED
  BY <1>1 DEF StoreInv, storeVars

LEMMA BroadcastKeepsSync ==
  ASSUME SyncInv, NEW s \in Seqs, Broadcast(s)
  PROVE  SyncInv'
<1>1. UNCHANGED storeVars
  BY DEF Broadcast
<1>2. events' \in Seq(Seqs) /\ Len(events') <= MaxEvents
  BY EventsAssumption DEF SyncInv, SyncTypeOK, Broadcast
<1>3. SyncTypeOK'
  BY <1>1, <1>2, StoreUntouched DEF SyncInv, SyncTypeOK, Broadcast, localVars
<1>4. FromTheLog'
  BY <1>1, StoreUntouched DEF SyncInv, FromTheLog, Broadcast, localVars
<1>. QED
  BY <1>1, <1>3, <1>4, StoreUntouched DEF SyncInv

\* The application's life.
LEMMA LifeKeepsSync ==
  ASSUME SyncInv, StartApp \/ QuitApp \/ (\E c \in BOOLEAN : SetConnected(c)) \/ SweepFails
  PROVE  SyncInv'
<1>1. UNCHANGED storeVars
  BY DEF StartApp, QuitApp, SetConnected, SweepFails
<1>2. SyncTypeOK'
  <2>1. CASE StartApp
    BY <1>1, <2>1, StoreUntouched DEF SyncInv, SyncTypeOK, StartApp, localVars
  <2>2. CASE QuitApp
    <3>1. /\ events' \in Seq(Seqs) /\ Len(events') <= MaxEvents
          /\ fetched' \in [Fetchers -> SUBSET SUBSET Seqs]
          /\ \A f \in Fetchers : fetched'[f] = {}
      BY <2>2, NothingHeld DEF QuitApp
    <3>. QED
      BY <1>1, <2>2, <3>1, StoreUntouched DEF SyncInv, SyncTypeOK, QuitApp, localVars
  <2>3. CASE \E c \in BOOLEAN : SetConnected(c)
    BY <1>1, <2>3, StoreUntouched DEF SyncInv, SyncTypeOK, SetConnected, localVars
  <2>4. CASE SweepFails
    BY <1>1, <2>4, StoreUntouched DEF SyncInv, SyncTypeOK, SweepFails, localVars
  <2>. QED
    BY <2>1, <2>2, <2>3, <2>4
<1>3. FromTheLog'
  BY <1>1, StoreUntouched DEF SyncInv, FromTheLog, StartApp, QuitApp, SetConnected,
     SweepFails, localVars
<1>. QED
  BY <1>1, <1>2, <1>3, StoreUntouched DEF SyncInv

\* The sync: fetching, applying, draining.
LEMMA FetchKeepsSync ==
  ASSUME SyncInv, NEW f \in Fetchers, Fetch(f)
  PROVE  SyncInv'
<1>1. UNCHANGED storeVars
  BY DEF Fetch
<1>2. After(cursor) \subseteq accepted /\ After(cursor) \subseteq Seqs
  BY SeqFacts DEF After
<1>3. /\ fetched' = [fetched EXCEPT ![f] = {After(cursor)}]
      /\ fetched \in [Fetchers -> SUBSET SUBSET Seqs]
  BY DEF Fetch, SyncInv, SyncTypeOK
<1>4. /\ fetched' \in [Fetchers -> SUBSET SUBSET Seqs]
      /\ \A g \in Fetchers : fetched'[g] = IF g = f THEN {After(cursor)} ELSE fetched[g]
  BY <1>2, <1>3
<1>5. SyncTypeOK'
  BY <1>1, <1>4, StoreUntouched DEF SyncInv, SyncTypeOK, Fetch, localVars
<1>6. FromTheLog'
  BY <1>1, <1>2, <1>4, StoreUntouched DEF SyncInv, FromTheLog, Fetch, localVars
<1>. QED
  BY <1>1, <1>5, <1>6, StoreUntouched DEF SyncInv

\* Applying a response moves the cursor to an accepted seq, and not back.
LEMMA ApplyMovesCursor ==
  ASSUME SyncInv, NEW f \in Fetchers, NEW msgs \in fetched[f],
         cursor' = MaxOf(msgs, cursor)
  PROVE  /\ cursor' \in msgs \cup {cursor} /\ msgs \subseteq accepted
         /\ \A t \in msgs \cup {cursor} : t <= cursor'
         /\ cursor' >= cursor
<1>1. msgs \subseteq accepted
  BY DEF SyncInv, FromTheLog
<1>2. msgs \subseteq Nat /\ IsFiniteSet(msgs) /\ cursor \in Nat
  BY <1>1, SeqFacts
<1>. QED
  BY <1>1, <1>2, MaxOfIsMax

LEMMA ApplyKeepsSync ==
  ASSUME SyncInv, NEW f \in Fetchers, Apply(f)
  PROVE  SyncInv'
<1>1. UNCHANGED storeVars
  BY DEF Apply
<1>2. PICK msgs \in fetched[f] :
         /\ Ingest(msgs)
         /\ cursor' = MaxOf(msgs, cursor)
         /\ fetched' = [fetched EXCEPT ![f] = {}]
  BY DEF Apply
<1>3. cursor' \in msgs \cup {cursor} /\ msgs \subseteq accepted /\ msgs \subseteq Seqs
  BY <1>2, ApplyMovesCursor, SeqFacts
<1>4. fetched \in [Fetchers -> SUBSET SUBSET Seqs] /\ {} \in SUBSET SUBSET Seqs
  BY DEF SyncInv, SyncTypeOK
<1>5. /\ fetched' \in [Fetchers -> SUBSET SUBSET Seqs]
      /\ \A g \in Fetchers : fetched'[g] = IF g = f THEN {} ELSE fetched[g]
  BY <1>2, <1>4
<1>6. cursor' \in Seqs \cup {0} /\ stored' \subseteq Seqs \ Undecryptable
  BY <1>2, <1>3 DEF SyncInv, SyncTypeOK, Ingest
<1>7. SyncTypeOK'
  BY <1>1, <1>5, <1>6, StoreUntouched DEF SyncInv, SyncTypeOK, Apply, Fetchers
<1>8. FromTheLog'
  BY <1>1, <1>3, <1>5, StoreUntouched DEF SyncInv, FromTheLog, Apply
<1>. QED
  BY <1>1, <1>7, <1>8, StoreUntouched DEF SyncInv

LEMMA DrainKeepsSync ==
  ASSUME SyncInv, DrainEvent
  PROVE  SyncInv'
<1>1. UNCHANGED storeVars
  BY DEF DrainEvent
<1>2. /\ events \in Seq(Seqs) /\ events # <<>> /\ Len(events) <= MaxEvents
      /\ events' = Tail(events) /\ stored' = stored \cup ({Head(events)} \ Undecryptable)
  BY DEF DrainEvent, Ingest, SyncInv, SyncTypeOK
<1>3. events' \in Seq(Seqs) /\ Len(events') <= MaxEvents /\ Head(events) \in Seqs
  BY <1>2, EventsAssumption
<1>4. SyncTypeOK'
  BY <1>1, <1>2, <1>3, StoreUntouched DEF SyncInv, SyncTypeOK, DrainEvent
<1>5. FromTheLog'
  BY <1>1, StoreUntouched DEF SyncInv, FromTheLog, DrainEvent
<1>. QED
  BY <1>1, <1>4, <1>5, StoreUntouched DEF SyncInv

\* Clearing or deleting a conversation.
LEMMA DismissMovesCursor ==
  ASSUME SyncInv, NEW latest \in dismissing, cursor' = MaxOf({latest}, cursor)
  PROVE  /\ cursor' \in {latest, cursor} /\ latest \in accepted \cup {0}
         /\ latest \in Nat /\ cursor' >= cursor
<1>1. latest \in accepted \cup {0} /\ latest \in Nat /\ cursor \in Nat
  BY SeqFacts DEF SyncInv, FromTheLog
<1>2. {latest} \subseteq Nat /\ IsFiniteSet({latest})
  BY <1>1, FS_Singleton
<1>. QED
  BY <1>1, <1>2, MaxOfIsMax

LEMMA DismissKeepsSync ==
  ASSUME SyncInv, DismissRequest \/ DismissDone
  PROVE  SyncInv'
<1>1. UNCHANGED storeVars
  BY DEF DismissRequest, DismissDone
<1>2. CASE DismissRequest
  <2>1. Latest \in accepted \cup {0} /\ Latest \in Seqs \cup {0}
    BY LatestRetained, SeqFacts
  <2>2. SyncTypeOK'
    BY <1>1, <1>2, <2>1, StoreUntouched DEF SyncInv, SyncTypeOK, DismissRequest, localVars
  <2>3. FromTheLog'
    BY <1>1, <1>2, <2>1, StoreUntouched DEF SyncInv, FromTheLog, DismissRequest, localVars
  <2>. QED
    BY <1>1, <2>2, <2>3, StoreUntouched DEF SyncInv
<1>3. CASE DismissDone
  <2>1. PICK latest \in dismissing : cursor' = MaxOf({latest}, cursor)
    BY <1>3 DEF DismissDone
  <2>2. cursor' \in {latest, cursor} /\ latest \in accepted \cup {0}
    BY <2>1, DismissMovesCursor
  <2>3. cursor' \in Seqs \cup {0}
    BY <2>2, SeqFacts DEF SyncInv, SyncTypeOK
  <2>4. SyncTypeOK'
    <3>1. /\ stored' \subseteq Seqs \ Undecryptable /\ dismissed' \subseteq RoomSeqs
          /\ passedOver' \subseteq Seqs /\ overtaken' = overtaken
      BY <1>3, SeqFacts DEF SyncInv, SyncTypeOK, DismissDone
    <3>. QED
      BY <1>1, <1>3, <2>3, <3>1, StoreUntouched DEF SyncInv, SyncTypeOK, DismissDone
  <2>5. FromTheLog'
    BY <1>1, <1>3, <2>2, StoreUntouched DEF SyncInv, FromTheLog, DismissDone
  <2>. QED
    BY <1>1, <2>4, <2>5, StoreUntouched DEF SyncInv
<1>. QED
  BY <1>2, <1>3

LEMMA SyncStep ==
  ASSUME SyncInv, [Next]_vars
  PROVE  SyncInv'
<1>1. CASE UNCHANGED vars
  <2>1. UNCHANGED storeVars
    BY <1>1 DEF vars
  <2>. QED
    BY <1>1, <2>1, StoreUntouched
       DEF SyncInv, SyncTypeOK, FromTheLog, vars, sessionVars, localVars
<1>2. CASE Next
  BY <1>2, ArriveKeepsSync, BroadcastKeepsSync, LifeKeepsSync, FetchKeepsSync,
     ApplyKeepsSync, DrainKeepsSync, DismissKeepsSync DEF Next
<1>. QED
  BY <1>1, <1>2

(***************************************************************************)
(* Types of the client's copy: what it holds comes from the stream, and a  *)
(* client that does not run holds no event, response or pending action.    *)
(***************************************************************************)
THEOREM SyncTypeCorrect == Spec => []SyncTypeOK
<1>1. Spec => []SyncInv
  BY SyncInit, SyncStep, PTL DEF Spec
<1>2. SyncInv => SyncTypeOK
  BY DEF SyncInv
<1>. QED
  BY <1>1, <1>2, PTL

-----------------------------------------------------------------------------
\* Only Apply and DismissDone move the cursor, and neither moves it back.
LEMMA CursorStep ==
  ASSUME SyncInv, [Next]_vars
  PROVE  cursor' >= cursor
<1>1. CASE \E f \in Fetchers : Apply(f)
  BY <1>1, ApplyMovesCursor DEF Apply
<1>2. CASE DismissDone
  BY <1>2, DismissMovesCursor DEF DismissDone
<1>3. CASE UNCHANGED cursor
  BY <1>3, SeqFacts
<1>. QED
  BY <1>1, <1>2, <1>3
     DEF Next, vars, localVars, Arrive, Broadcast, StartApp, QuitApp, SetConnected, Fetch,
         SweepFails, DrainEvent, DismissRequest

(***************************************************************************)
(* The cursor never moves back (set_cursor, store.py), in whatever order   *)
(* messages arrive and responses fetched from different cursors are        *)
(* applied.                                                                *)
(***************************************************************************)
THEOREM CursorMonotone == Spec => CursorNeverMovesBack
<1>1. Spec => []SyncInv
  BY SyncInit, SyncStep, PTL DEF Spec
<1>2. SyncInv /\ [Next]_vars => [cursor' >= cursor]_vars
  BY CursorStep
<1>. QED
  BY <1>1, <1>2, PTL DEF Spec, CursorNeverMovesBack

-----------------------------------------------------------------------------
(***************************************************************************)
(* What makes NothingLeftBehind inductive: a message that arrives is above *)
(* everything accepted before, and so above every cursor and every         *)
(* response that exists, or it is overtaken; and a response, however old   *)
(* it is when it is applied, has no gaps above the cursor but for          *)
(* overtaken messages.                                                     *)
(***************************************************************************)
ResponsesReach ==
    \A f \in Fetchers : \A msgs \in fetched[f] : \A m \in msgs, s \in inbox :
        s <= m => s \in msgs \/ s <= cursor \/ s \in overtaken

BehindInv == SyncInv /\ ResponsesReach /\ NothingLeftBehind

\* A message that arrives is above all others, or overtaken, or changes nothing.
\* One that is accepted again was trimmed, so that a full inbox is above it.
LEMMA ArrivesAbove ==
  ASSUME SyncInv, NEW s \in Seqs, Arrive(s)
  PROVE  /\ overtaken \subseteq overtaken'
         /\ \/ inbox' = inbox
            \/ /\ inbox' \subseteq inbox \cup {s}
               /\ \A a \in accepted : a < s \/ s \in overtaken'
<1>1. CASE AddDuplicate(s)
  BY <1>1 DEF AddDuplicate, Arrive, storeVars
<1>2. CASE AddNew(s)
  <2>1. /\ s \notin inbox /\ ~IsDuplicate(s)
        /\ inbox' \subseteq inbox \cup {s}
    BY <1>2 DEF AddNew, IsDuplicate, TrimTx, Newest
  <2>2. (\E t \in accepted : t > s) => s \in overtaken'
    BY <2>1 DEF Arrive
  <2>3. ASSUME NEW a \in accepted PROVE a < s \/ s \in overtaken'
    <3>1. a \in Nat /\ s \in Nat
      BY SeqFacts
    <3>2. CASE a = s
      <4>1. accepted # inbox /\ (\A i \in inbox : s < i) /\ Cardinality(inbox) = Cap
        BY <2>1, <3>2 DEF SyncInv, StoreInv, InboxIsNewestWindow
      <4>2. inbox # {}
        BY <4>1, Caps, FS_EmptySet
      <4>3. PICK i \in inbox : s < i
        BY <4>1, <4>2
      <4>4. i \in accepted /\ i \in Nat
        BY SeqFacts
      <4>. QED
        BY <2>2, <3>1, <4>3, <4>4
    <3>3. CASE a > s
      BY <2>2, <3>3
    <3>. QED
      BY <3>1, <3>2, <3>3
  <2>4. overtaken \subseteq overtaken'
    BY DEF Arrive
  <2>. QED
    BY <2>1, <2>3, <2>4
<1>. QED
  BY <1>1, <1>2 DEF Arrive, Add

LEMMA ArriveLeavesNothing ==
  ASSUME BehindInv, NEW s \in Seqs, Arrive(s)
  PROVE  ResponsesReach' /\ NothingLeftBehind'
<1>. USE DEF BehindInv
<1>1. UNCHANGED <<fetched, cursor, stored, dismissed, passedOver>>
  BY DEF Arrive, sessionVars, localVars
<1>2. overtaken \subseteq overtaken'
  BY ArrivesAbove
<1>3. CASE inbox' = inbox
  BY <1>1, <1>2, <1>3 DEF ResponsesReach, NothingLeftBehind
<1>4. CASE /\ inbox' \subseteq inbox \cup {s}
           /\ \A a \in accepted : a < s \/ s \in overtaken'
  <2>1. s <= cursor => s \in overtaken'
    <3>1. s \in Nat /\ cursor \in Nat /\ s # 0 /\ (cursor = 0 \/ cursor \in accepted)
      BY SeqFacts, SeqsAssumption DEF SyncInv, FromTheLog
    <3>. QED
      BY <1>4, <3>1
  <2>2. ASSUME NEW f \in Fetchers, NEW msgs \in fetched[f], NEW m \in msgs, s <= m
        PROVE  s \in overtaken'
    <3>1. m \in accepted
      BY DEF SyncInv, FromTheLog
    <3>2. m \in Nat /\ s \in Nat
      BY <3>1, SeqFacts
    <3>. QED
      BY <1>4, <2>2, <3>1, <3>2
  <2>3. ResponsesReach'
    BY <1>1, <1>2, <1>4, <2>2 DEF ResponsesReach
  <2>4. NothingLeftBehind'
    BY <1>1, <1>2, <1>4, <2>1 DEF NothingLeftBehind
  <2>. QED
    BY <2>3, <2>4
<1>. QED
  BY <1>3, <1>4, ArrivesAbove

LEMMA FetchLeavesNothing ==
  ASSUME BehindInv, NEW f \in Fetchers, Fetch(f)
  PROVE  ResponsesReach' /\ NothingLeftBehind'
<1>. USE DEF BehindInv
<1>1. /\ UNCHANGED <<inbox, cursor, stored, dismissed, overtaken, passedOver>>
      /\ fetched' = [fetched EXCEPT ![f] = {After(cursor)}]
      /\ fetched \in [Fetchers -> SUBSET SUBSET Seqs]
  BY DEF Fetch, storeVars, localVars, SyncInv, SyncTypeOK
<1>2. \A g \in Fetchers : fetched'[g] = IF g = f THEN {After(cursor)} ELSE fetched[g]
  BY <1>1
<1>3. \A s \in inbox : s \in After(cursor) \/ s <= cursor
  <2>1. ASSUME NEW s \in inbox PROVE s \in Nat /\ cursor \in Nat
    BY SeqFacts
  <2>. QED
    BY <2>1 DEF After
<1>4. ResponsesReach'
  BY <1>1, <1>2, <1>3 DEF ResponsesReach
<1>. QED
  BY <1>1, <1>4 DEF NothingLeftBehind

LEMMA ApplyLeavesNothing ==
  ASSUME BehindInv, NEW f \in Fetchers, Apply(f)
  PROVE  ResponsesReach' /\ NothingLeftBehind'
<1>. USE DEF BehindInv
<1>1. PICK msgs \in fetched[f] :
         /\ stored' = stored \cup (msgs \ Undecryptable)
         /\ cursor' = MaxOf(msgs, cursor)
         /\ fetched' = [fetched EXCEPT ![f] = {}]
  BY DEF Apply, Ingest
<1>2. UNCHANGED <<inbox, dismissed, overtaken, passedOver>>
  BY DEF Apply, storeVars
<1>3. cursor' \in msgs \cup {cursor} /\ cursor' >= cursor
  BY <1>1, ApplyMovesCursor
<1>4. fetched \in [Fetchers -> SUBSET SUBSET Seqs]
  BY DEF SyncInv, SyncTypeOK
<1>5. \A g \in Fetchers : fetched'[g] = IF g = f THEN {} ELSE fetched[g]
  BY <1>1, <1>4
<1>6. ASSUME NEW s \in inbox, s <= cursor PROVE s <= cursor'
  <2>1. s \in Nat /\ cursor \in Nat /\ cursor' \in Nat
    BY <1>1, <1>3, ApplyMovesCursor, SeqFacts
  <2>. QED
    BY <1>3, <1>6, <2>1
<1>7. ResponsesReach'
  BY <1>2, <1>5, <1>6 DEF ResponsesReach
<1>8. NothingLeftBehind'
  BY <1>1, <1>2, <1>3 DEF NothingLeftBehind, ResponsesReach
<1>. QED
  BY <1>7, <1>8

LEMMA DismissLeavesNothing ==
  ASSUME BehindInv, DismissDone
  PROVE  ResponsesReach' /\ NothingLeftBehind'
<1>. USE DEF BehindInv
<1>1. PICK latest \in dismissing :
         /\ stored' = stored \ RoomSeqs
         /\ cursor' = MaxOf({latest}, cursor)
         /\ dismissed' = dismissed \cup
               {s \in accepted \cap RoomSeqs : s <= latest \/ s \in stored}
         /\ passedOver' = passedOver \cup
               {s \in inbox \ (RoomSeqs \cup stored) : cursor < s /\ s <= latest}
  BY DEF DismissDone
<1>2. UNCHANGED <<inbox, fetched, overtaken>>
  BY DEF DismissDone, storeVars
<1>3. cursor' \in {latest, cursor} /\ cursor' >= cursor /\ latest \in Nat
  BY <1>1, DismissMovesCursor
<1>4. inbox \subseteq accepted /\ inbox \subseteq Nat /\ cursor \in Nat
  BY SeqFacts
<1>5. ASSUME NEW s \in inbox, s <= cursor PROVE s <= cursor'
  <2>1. s \in Nat /\ cursor' \in Nat
    BY <1>3, <1>4
  <2>. QED
    BY <1>3, <1>4, <1>5, <2>1
<1>6. ResponsesReach'
  BY <1>2, <1>5 DEF ResponsesReach
<1>7. ASSUME NEW s \in inbox, s <= cursor'
      PROVE  s \in stored' \cup dismissed' \cup Undecryptable \cup overtaken \cup passedOver'
  <2>1. CASE s <= cursor
    <3>1. s \in stored \cup dismissed \cup Undecryptable \cup overtaken \cup passedOver
      BY <2>1 DEF NothingLeftBehind
    <3>. QED
      BY <1>1, <1>4, <3>1
  <2>2. CASE ~(s <= cursor)
    <3>1. cursor < s /\ s <= latest
      BY <1>3, <1>4, <1>7, <2>2
    <3>. QED
      BY <1>1, <1>4, <3>1
  <2>. QED
    BY <2>1, <2>2
<1>8. NothingLeftBehind'
  BY <1>2, <1>7 DEF NothingLeftBehind
<1>. QED
  BY <1>6, <1>8

\* All other steps store more, forget responses, or leave all this alone.
LEMMA RestLeavesNothing ==
  ASSUME BehindInv,
         \/ UNCHANGED vars
         \/ \E s \in Seqs : Broadcast(s)
         \/ StartApp \/ QuitApp
         \/ \E c \in BOOLEAN : SetConnected(c)
         \/ SweepFails \/ DrainEvent \/ DismissRequest
  PROVE  ResponsesReach' /\ NothingLeftBehind'
<1>. USE DEF BehindInv
<1>1. /\ UNCHANGED <<inbox, cursor, dismissed, overtaken, passedOver>>
      /\ stored \subseteq stored'
  BY DEF vars, storeVars, localVars, Broadcast, StartApp, QuitApp, SetConnected,
         SweepFails, DrainEvent, DismissRequest, Ingest
<1>2. UNCHANGED fetched \/ \A f \in Fetchers : fetched'[f] = {}
  BY DEF vars, sessionVars, Broadcast, StartApp, QuitApp, SetConnected, SweepFails,
         DrainEvent, DismissRequest
<1>. QED
  BY <1>1, <1>2 DEF ResponsesReach, NothingLeftBehind

(***************************************************************************)
(* In whatever order messages reach the daemon, and whatever conversations *)
(* share the stream, the cursor leaves no retained message behind but the  *)
(* ones NothingLeftBehind names (Sync.fetch, Sync.apply, service.py;       *)
(* on_clear_history, gtkui.py), for every capacity and every number of     *)
(* messages, whichever of two fetchers applies last and however often the  *)
(* client restarts.                                                        *)
(***************************************************************************)
THEOREM CursorLeavesNothing == Spec => []NothingLeftBehind
<1>1. Init => BehindInv
  <2>1. Init => ResponsesReach /\ NothingLeftBehind
    BY DEF Init, StoreInit, ResponsesReach, NothingLeftBehind
  <2>. QED
    BY <2>1, SyncInit DEF BehindInv
<1>2. BehindInv /\ [Next]_vars => BehindInv'
  <2>. SUFFICES ASSUME BehindInv, [Next]_vars
                PROVE  BehindInv'
    OBVIOUS
  <2>1. SyncInv'
    BY SyncStep DEF BehindInv
  <2>2. ResponsesReach' /\ NothingLeftBehind'
    BY ArriveLeavesNothing, FetchLeavesNothing, ApplyLeavesNothing, DismissLeavesNothing,
       RestLeavesNothing DEF Next
  <2>. QED
    BY <2>1, <2>2 DEF BehindInv
<1>3. BehindInv => NothingLeftBehind
  BY DEF BehindInv
<1>. QED
  BY <1>1, <1>2, <1>3, PTL DEF Spec
=============================================================================
