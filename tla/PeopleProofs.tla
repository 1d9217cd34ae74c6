---------------------------- MODULE PeopleProofs ----------------------------
(***************************************************************************)
(* Contacts and blocking for any number of peers: a block holds and can    *)
(* be undone, and client and daemon agree.                                 *)
(***************************************************************************)
EXTENDS People, TLAPS

PeopleTypes == /\ contacts \in [Peers -> Nat]
               /\ pending \in Seq(Peers) /\ IsInjective(pending)
               /\ prompts \in [Peers -> Nat]

(***************************************************************************)
(* What makes BlockHolds inductive: somebody muted is in at most one       *)
(* pending row, which came in before the block, and the dialog for it is   *)
(* the last one.                                                           *)
(***************************************************************************)
OneMorePrompt(p) == \/ prompts[p] = 0
                    \/ p \in muted /\ prompts[p] = 1 /\ p \notin ToSet(pending)

PromptInv == PeopleTypes /\ \A p \in Peers : OneMorePrompt(p)

(***************************************************************************)
(* What makes DaemonAgrees inductive: what the one thread about a peer, if *)
(* there is one, will make of the daemon's list agrees with the client.    *)
(***************************************************************************)
Settled(p) ==
    /\ ~(<<p, TRUE>> \in threads /\ <<p, FALSE>> \in threads)
    /\ <<p, TRUE>> \in threads => p \notin Known
    /\ <<p, FALSE>> \in threads /\ p \in muted => p \in keptMuted
    /\ <<p, TRUE>> \notin threads /\ <<p, FALSE>> \notin threads
          => /\ p \in Known => p \notin blocked
             /\ p \in muted => p \in blocked \cup keptMuted
    /\ p \in muted /\ p \in Known => p \in keptMuted

AgreeInv == /\ contacts \in [Peers -> Nat]
            /\ \A p \in Peers \ unsettled : Settled(p)

-----------------------------------------------------------------------------
\* Sequences of pending rows.

LEMMA TailPending ==
    ASSUME NEW rows \in Seq(Peers), IsInjective(rows), rows # <<>>
    PROVE  /\ Tail(rows) \in Seq(Peers) /\ IsInjective(Tail(rows))
           /\ Head(rows) \in Peers /\ Head(rows) \notin ToSet(Tail(rows))
           /\ ToSet(Tail(rows)) \subseteq ToSet(rows)
           /\ Head(rows) \in ToSet(rows)
  <1>1. /\ Tail(rows) \in Seq(Peers) /\ Len(rows) \in Nat /\ Len(rows) >= 1
        /\ Len(Tail(rows)) = Len(rows) - 1 /\ Head(rows) = rows[1] /\ rows[1] \in Peers
        /\ \A i \in 1..Len(Tail(rows)) : Tail(rows)[i] = rows[i + 1]
    OBVIOUS
  <1>2. DOMAIN rows = 1..Len(rows) /\ DOMAIN Tail(rows) = 1..Len(Tail(rows))
    BY <1>1
  <1>3. \A i \in DOMAIN Tail(rows) : /\ i + 1 \in DOMAIN rows /\ i + 1 # 1
                                     /\ Tail(rows)[i] = rows[i + 1]
    BY <1>1, <1>2
  <1>4. 1 \in DOMAIN rows
    BY <1>1, <1>2
  <1>5. \A i \in DOMAIN Tail(rows) : Tail(rows)[i] # rows[1]
    BY <1>3, <1>4 DEF IsInjective
  <1>6. IsInjective(Tail(rows))
    <2>1. ASSUME NEW i \in DOMAIN Tail(rows), NEW j \in DOMAIN Tail(rows),
                 Tail(rows)[i] = Tail(rows)[j]
          PROVE  i = j
      <3>1. i + 1 = j + 1
        BY <1>3, <2>1 DEF IsInjective
      <3>2. i \in Nat /\ j \in Nat
        BY <1>1, <1>2
      <3>3. QED
        BY <3>1, <3>2
    <2>2. QED
      BY <2>1 DEF IsInjective
  <1>7. QED
    BY <1>1, <1>3, <1>4, <1>5, <1>6 DEF ToSet

LEMMA AddPendingOnce ==
    ASSUME PeopleTypes, NEW p \in Peers
    PROVE  /\ AddPending(p) \in Seq(Peers) /\ IsInjective(AddPending(p))
           /\ ToSet(AddPending(p)) \subseteq ToSet(pending) \cup {p}
  <1>1. CASE Contains(pending, p)
    BY <1>1 DEF AddPending, PeopleTypes
  <1>2. CASE ~Contains(pending, p)
    <2>. DEFINE rows == Append(pending, p)
    <2>1. AddPending(p) = rows
      BY <1>2 DEF AddPending
    <2>2. /\ rows \in Seq(Peers) /\ Len(pending) \in Nat /\ Len(rows) = Len(pending) + 1
          /\ \A i \in 1..Len(pending) : rows[i] = pending[i]
          /\ rows[Len(pending) + 1] = p
      BY DEF PeopleTypes
    <2>3. DOMAIN rows = 1..Len(rows) /\ DOMAIN pending = 1..Len(pending)
      BY <2>2 DEF PeopleTypes
    <2>4. \A i \in DOMAIN pending : pending[i] # p
      BY <1>2, <2>3 DEF Contains
    <2>5. \A i \in DOMAIN rows : \/ i \in DOMAIN pending /\ rows[i] = pending[i]
                                 \/ i = Len(pending) + 1 /\ rows[i] = p
      BY <2>2, <2>3
    <2>6. IsInjective(rows)
      BY <2>4, <2>5 DEF IsInjective, PeopleTypes
    <2>7. ToSet(rows) \subseteq ToSet(pending) \cup {p}
      BY <2>5 DEF ToSet
    <2>8. QED
      BY <2>1, <2>2, <2>6, <2>7
  <1>3. QED
    BY <1>1, <1>2

-----------------------------------------------------------------------------
\* Contact entries.

LEMMA ChangedEntryKnown ==
    ASSUME contacts \in [Peers -> Nat], NEW p \in Peers, NEW n \in Nat,
           contacts' = [contacts EXCEPT ![p] = n]
    PROVE  contacts' \in [Peers -> Nat] /\ Known' = (Known \ {p}) \cup (IF n > 0 THEN {p} ELSE {})
  BY DEF Known

LEMMA AddedEntryKnown ==
    ASSUME contacts \in [Peers -> Nat], NEW p \in Peers, AddEntry(p)
    PROVE  contacts' \in [Peers -> Nat] /\ Known' \subseteq Known \cup {p}
  <1>1. contacts' = [contacts EXCEPT ![p] = contacts[p] + 1] /\ contacts[p] + 1 \in Nat
    BY DEF AddEntry
  <1>2. QED
    BY <1>1 DEF Known

\* An entry of q becomes one of p.
LEMMA MovedEntryKnown ==
    ASSUME contacts \in [Peers -> Nat], NEW p \in Peers, NEW q \in Known,
           MoveEntry(q, p)
    PROVE  contacts' \in [Peers -> Nat] /\ Known' \subseteq Known \cup {p}
  <1>1. q \in Peers /\ contacts[q] \in Nat /\ contacts[q] > 0
    BY DEF Known
  <1>2. PICK other : other = [contacts EXCEPT ![q] = contacts[q] - 1]
    OBVIOUS
  <1>3. contacts' = [other EXCEPT ![p] = other[p] + 1]
    BY <1>2 DEF MoveEntry
  <1>4. other \in [Peers -> Nat] /\ \A r \in Peers : other[r] <= contacts[r]
    BY <1>1, <1>2
  <1>5. contacts' \in [Peers -> Nat]
    BY <1>3, <1>4
  <1>6. ASSUME NEW r \in Peers, r # p, contacts'[r] > 0 PROVE contacts[r] > 0
    <2>1. contacts'[r] = other[r] /\ other[r] <= contacts[r]
      BY <1>3, <1>4, <1>6
    <2>2. contacts[r] \in Nat /\ other[r] \in Nat
      BY <1>4
    <2>3. QED
      BY <1>6, <2>1, <2>2
  <1>7. QED
    BY <1>5, <1>6 DEF Known

LEMMA NewEntryKnown ==
    ASSUME contacts \in [Peers -> Nat], NEW p \in Peers, NewEntry(p)
    PROVE  contacts' \in [Peers -> Nat] /\ Known' \subseteq Known \cup {p}
  BY AddedEntryKnown, MovedEntryKnown DEF NewEntry

LEMMA RemovedEntryKnown ==
    ASSUME contacts \in [Peers -> Nat], NEW p \in Known,
           contacts' = [contacts EXCEPT ![p] = @ - 1]
    PROVE  contacts' \in [Peers -> Nat] /\ Known' \subseteq Known
  <1>1. p \in Peers /\ contacts[p] \in Nat /\ contacts[p] > 0
    BY DEF Known
  <1>2. contacts[p] - 1 \in Nat
    BY <1>1
  <1>3. QED
    BY <1>1, <1>2 DEF Known

-----------------------------------------------------------------------------
\* BlockHolds.

LEMMA PromptInit == Init => PromptInv
  <1> SUFFICES ASSUME Init PROVE PromptInv
    OBVIOUS
  <1>1. pending \in Seq(Peers) /\ IsInjective(pending)
    BY DEF Init, IsInjective
  <1>2. QED
    BY <1>1 DEF Init, PromptInv, PeopleTypes, OneMorePrompt

\* Surfacing a request takes it out of the pending rows.
LEMMA SurfaceKeepsPrompts ==
    ASSUME PromptInv, NEW rows \in Seq(Peers), IsInjective(rows),
           \A p \in ToSet(rows) \ ToSet(pending) : p \notin muted,
           NEW byEvent \in BOOLEAN, Surface(rows, byEvent), UNCHANGED <<contacts, muted>>
    PROVE  PromptInv'
  <1> USE DEF PromptInv
  <1>1. CASE asking # {} \/ rows = <<>>
    <2>1. pending' = rows /\ prompts' = prompts
      BY <1>1 DEF Surface
    <2>2. ASSUME NEW p \in Peers PROVE OneMorePrompt(p)'
      BY <2>1 DEF OneMorePrompt
    <2>3. QED
      BY <2>1, <2>2 DEF PeopleTypes
  <1>2. CASE ~(asking # {} \/ rows = <<>>)
    <2>. DEFINE h == Head(rows)
    <2>1. /\ pending' = Tail(rows)
          /\ prompts' = IF h \in muted THEN [prompts EXCEPT ![h] = @ + 1] ELSE prompts
      BY <1>2 DEF Surface
    <2>2. /\ pending' \in Seq(Peers) /\ IsInjective(pending') /\ h \in Peers
          /\ h \notin ToSet(pending') /\ ToSet(pending') \subseteq ToSet(rows)
          /\ h \in ToSet(rows)
      BY <1>2, <2>1, TailPending
    <2>3. h \in muted => prompts[h] = 0
      BY <2>2 DEF OneMorePrompt
    <2>4. ASSUME NEW p \in Peers PROVE OneMorePrompt(p)'
      <3>1. CASE p = h /\ h \in muted
        BY <2>1, <2>2, <2>3, <3>1 DEF OneMorePrompt, PeopleTypes
      <3>2. CASE ~(p = h /\ h \in muted)
        <4>1. prompts'[p] = prompts[p]
          BY <2>1, <3>2 DEF PeopleTypes
        <4>2. QED
          BY <2>2, <4>1 DEF OneMorePrompt
      <3>3. QED
        BY <3>1, <3>2
    <2>5. PeopleTypes'
      BY <2>1, <2>2 DEF PeopleTypes
    <2>6. QED
      BY <2>4, <2>5
  <1>3. QED
    BY <1>1, <1>2

\* Muting and unmuting start the count again.
LEMMA MuteKeepsPrompts ==
    ASSUME PromptInv, NEW p \in Peers, contacts' \in [Peers -> Nat], pending' = pending,
           \/ Mute(p) \/ Unmute(p)
           \/ UNCHANGED <<muted, prompts>>
    PROVE  PromptInv'
  <1>1. prompts' \in [Peers -> Nat]
    BY DEF PromptInv, PeopleTypes, Mute, Unmute
  <1>2. ASSUME NEW q \in Peers PROVE OneMorePrompt(q)'
    <2>1. CASE UNCHANGED <<muted, prompts>>
      BY <2>1 DEF PromptInv, OneMorePrompt
    <2>2. CASE Mute(p) \/ Unmute(p)
      <3>1. CASE q = p
        BY <2>2, <3>1 DEF PromptInv, PeopleTypes, OneMorePrompt, Mute, Unmute
      <3>2. CASE q # p
        BY <2>2, <3>2 DEF PromptInv, PeopleTypes, OneMorePrompt, Mute, Unmute
      <3>3. QED
        BY <3>1, <3>2
    <2>3. QED
      BY <2>1, <2>2
  <1>3. QED
    BY <1>1, <1>2 DEF PromptInv, PeopleTypes

LEMMA PeerKeepsPrompts ==
    ASSUME PromptInv, NEW p \in Peers,
           \/ Accept(p) \/ Deny(p) \/ BlockStranger(p)
           \/ Block(p) \/ Unblock(p) \/ OnAdd(p) \/ OnRemove(p) \/ OnMemberChip(p)
           \/ CmdAdd(p) \/ CmdRemove(p) \/ CmdUnblock(p)
    PROVE  PromptInv'
  <1>1. contacts \in [Peers -> Nat]
    BY DEF PromptInv, PeopleTypes
  <1>2. contacts' \in [Peers -> Nat]
    <2>1. CASE OnAdd(p) \/ CmdAdd(p)
      BY <1>1, <2>1, NewEntryKnown DEF OnAdd, CmdAdd
    <2>2. CASE Accept(p) \/ OnMemberChip(p)
      BY <1>1, <2>2, AddedEntryKnown DEF Accept, OnMemberChip
    <2>3. CASE Block(p)
      BY <1>1, <2>3, ChangedEntryKnown DEF Block
    <2>4. CASE OnRemove(p) \/ CmdRemove(p)
      BY <1>1, <2>4, RemovedEntryKnown DEF OnRemove, CmdRemove, ContactRow
    <2>5. CASE Deny(p) \/ BlockStranger(p) \/ Unblock(p) \/ CmdUnblock(p)
      BY <1>1, <2>5 DEF Deny, BlockStranger, Unblock, CmdUnblock
    <2>6. QED
      BY <2>1, <2>2, <2>3, <2>4, <2>5
  <1>3. /\ pending' = pending
        /\ Mute(p) \/ Unmute(p) \/ UNCHANGED <<muted, prompts>>
    BY DEF Accept, Deny, BlockStranger, Block, Unblock, OnAdd, OnRemove, OnMemberChip, CmdAdd,
       CmdRemove, CmdUnblock, uiVars
  <1>4. QED
    BY <1>2, <1>3, MuteKeepsPrompts

\* A contact's new node has the prompts it had.
LEMMA UpdateKeepsPrompts ==
    ASSUME PromptInv, NEW p \in Peers, NEW q \in Peers,
           OnAddUpdates(q, p) \/ CmdAddUpdates(q, p)
    PROVE  PromptInv'
  <1>1. contacts' \in [Peers -> Nat]
    BY MovedEntryKnown DEF PromptInv, PeopleTypes, OnAddUpdates, CmdAddUpdates, NewRoutingKey
  <1>2. pending' = pending /\ UNCHANGED <<muted, prompts>>
    BY DEF OnAddUpdates, CmdAddUpdates, NewRoutingKey
  <1>3. QED
    BY <1>1, <1>2, MuteKeepsPrompts

\* A message that makes its sender ask is from somebody who is not muted.
LEMMA IncomingKeepsPrompts ==
    ASSUME PromptInv, NEW p \in Peers, Incoming(p) \/ StopInIncoming(p)
    PROVE  PromptInv'
  <1>1. /\ AddPending(p) \in Seq(Peers) /\ IsInjective(AddPending(p))
        /\ ToSet(AddPending(p)) \subseteq ToSet(pending) \cup {p}
    BY AddPendingOnce DEF PromptInv
  <1>2. p \notin muted
    BY DEF Incoming, StopInIncoming, Asks
  <1>3. CASE Incoming(p)
    BY <1>1, <1>2, <1>3, SurfaceKeepsPrompts DEF Incoming
  <1>4. CASE StopInIncoming(p)
    <2>1. pending' = AddPending(p) /\ UNCHANGED <<contacts, muted, prompts>>
      BY <1>4 DEF StopInIncoming, ProcessEnds
    <2>2. ASSUME NEW q \in Peers PROVE OneMorePrompt(q)'
      BY <1>1, <1>2, <2>1 DEF PromptInv, OneMorePrompt
    <2>3. QED
      BY <1>1, <2>1, <2>2 DEF PromptInv, PeopleTypes
  <1>5. QED
    BY <1>3, <1>4

LEMMA AppKeepsPrompts ==
    ASSUME PromptInv,
           \/ SurfaceIdle \/ Start \/ Stop \/ OnViewChanged \/ RefreshDone \/ RefreshLate
           \/ \E p \in Peers, b \in BOOLEAN : ThreadDone(p, b) \/ ThreadFails(p, b)
           \/ UNCHANGED vars
    PROVE  PromptInv'
  <1>1. CASE SurfaceIdle
    BY <1>1, SurfaceKeepsPrompts DEF SurfaceIdle, PromptInv, PeopleTypes
  <1>2. CASE Start
    <2>1. /\ UNCHANGED <<contacts, pending>> /\ muted' = muted \ Known
          /\ prompts' = [p \in Peers |-> IF p \in Known THEN 0 ELSE prompts[p]]
      BY <1>2 DEF Start
    <2>2. ASSUME NEW p \in Peers PROVE OneMorePrompt(p)'
      BY <2>1 DEF PromptInv, OneMorePrompt
    <2>3. PeopleTypes'
      BY <2>1 DEF PromptInv, PeopleTypes
    <2>4. QED
      BY <2>2, <2>3 DEF PromptInv
  <1>3. CASE UNCHANGED <<contacts, pending, muted, prompts>>
    BY <1>3 DEF PromptInv, PeopleTypes, OneMorePrompt
  <1>4. QED
    BY <1>1, <1>2, <1>3
       DEF Stop, ProcessEnds, OnViewChanged, RefreshDone, RefreshLate, ThreadDone,
           ThreadFails, vars

LEMMA PromptStep == PromptInv /\ [Next]_vars => PromptInv'
  BY PeerKeepsPrompts, UpdateKeepsPrompts, IncomingKeepsPrompts, AppKeepsPrompts DEF Next

(***************************************************************************)
(* A block holds (incoming and surface_pending_requests, gtkui.py): for    *)
(* any number of peers, somebody who was blocked brings up at most one     *)
(* more dialog, whatever the daemon does.                                  *)
(***************************************************************************)
THEOREM BlocksHold == Spec => []BlockHolds
  <1>1. PromptInv => BlockHolds
    BY DEF PromptInv, PeopleTypes, OneMorePrompt, BlockHolds
  <1>2. QED
    BY <1>1, PromptInit, PromptStep, PTL DEF Spec

-----------------------------------------------------------------------------
\* DaemonAgrees.

\* A step about p leaves the others as they were, who may lose an entry.
LEMMA OthersStaySettled ==
    ASSUME AgreeInv, NEW p \in Peers,
           contacts' \in [Peers -> Nat], Known' \subseteq Known \cup {p},
           unsettled \subseteq unsettled' \cup {p},
           \A q \in Peers \ {p} :
              /\ q \in muted' <=> q \in muted
              /\ q \in keptMuted' <=> q \in keptMuted
              /\ q \in blocked' <=> q \in blocked
              /\ <<q, TRUE>> \in threads' <=> <<q, TRUE>> \in threads
              /\ <<q, FALSE>> \in threads' <=> <<q, FALSE>> \in threads,
           p \notin unsettled' => Settled(p)'
    PROVE  AgreeInv'
  <1>1. ASSUME NEW q \in Peers \ unsettled', q # p PROVE Settled(q)'
    <2>1. Settled(q) /\ (q \in Known' => q \in Known)
      BY <1>1 DEF AgreeInv
    <2>2. QED
      BY <1>1, <2>1 DEF Settled
  <1>2. QED
    BY <1>1 DEF AgreeInv

\* After StartThread a settled peer has that thread alone.
LEMMA ThreadAlone ==
    ASSUME NEW p \in Peers, NEW b \in BOOLEAN, NEW agrees \in BOOLEAN,
           StartThread(p, b, agrees)
    PROVE  /\ unsettled \subseteq unsettled' \cup {p}
           /\ \A q \in Peers \ {p}, c \in BOOLEAN :
                 <<q, c>> \in threads' <=> <<q, c>> \in threads
           /\ <<p, b>> \in threads'
           /\ p \notin unsettled' => agrees /\ <<p, ~b>> \notin threads'
  <1>1. threads' = threads \cup {<<p, b>>}
    BY DEF StartThread
  <1>2. ASSUME p \notin unsettled' PROVE agrees /\ \A t \in threads : t[1] # p
    BY <1>2 DEF StartThread
  <1>3. unsettled \subseteq unsettled' \cup {p}
    BY DEF StartThread
  <1>4. \A q \in Peers, c \in BOOLEAN : /\ <<q, c>>[1] = q
                                        /\ <<q, c>> = <<p, b>> => q = p /\ c = b
    OBVIOUS
  <1>5. (~b) \in BOOLEAN /\ (~b) # b
    OBVIOUS
  <1>6. QED
    BY <1>1, <1>2, <1>3, <1>4, <1>5

\* Unblocking p, who is no longer muted.
LEMMA UnmuteAgrees ==
    ASSUME AgreeInv, NEW p \in Peers, Unmute(p), StartThread(p, FALSE, TRUE),
           blocked' = blocked, contacts' \in [Peers -> Nat], Known' \subseteq Known \cup {p}
    PROVE  AgreeInv'
  <1>1. /\ p \notin muted' /\ <<p, FALSE>> \in threads'
        /\ unsettled \subseteq unsettled' \cup {p}
        /\ \A q \in Peers \ {p}, c \in BOOLEAN : <<q, c>> \in threads' <=> <<q, c>> \in threads
    BY ThreadAlone DEF Unmute
  <1>2. p \notin unsettled' => <<p, TRUE>> \notin threads'
    BY ThreadAlone
  <1>3. p \notin unsettled' => Settled(p)'
    BY <1>1, <1>2 DEF Settled
  <1>4. QED
    BY <1>1, <1>3, OthersStaySettled DEF Unmute

\* Blocking p, who is no contact any more unless the client disagrees.
LEMMA MuteAgrees ==
    ASSUME AgreeInv, NEW p \in Peers, NEW agrees \in BOOLEAN, Mute(p),
           StartThread(p, TRUE, agrees), agrees => p \notin Known',
           blocked' = blocked, contacts' \in [Peers -> Nat], Known' \subseteq Known \cup {p}
    PROVE  AgreeInv'
  <1>1. /\ <<p, TRUE>> \in threads' /\ unsettled \subseteq unsettled' \cup {p}
        /\ \A q \in Peers \ {p}, c \in BOOLEAN : <<q, c>> \in threads' <=> <<q, c>> \in threads
    BY ThreadAlone
  <1>2. p \notin unsettled' => p \notin Known' /\ <<p, FALSE>> \notin threads'
    BY ThreadAlone
  <1>3. p \notin unsettled' => Settled(p)'
    BY <1>1, <1>2 DEF Settled
  <1>4. QED
    BY <1>1, <1>3, OthersStaySettled DEF Mute

\* An entry goes.
LEMMA RemoveAgrees ==
    ASSUME AgreeInv, NEW p \in Known, contacts' = [contacts EXCEPT ![p] = @ - 1],
           UNCHANGED <<muted, keptMuted, blocked, threads, unsettled>>
    PROVE  AgreeInv'
  <1>1. contacts' \in [Peers -> Nat] /\ Known' \subseteq Known
    BY RemovedEntryKnown DEF AgreeInv
  <1>2. ASSUME NEW q \in Peers \ unsettled' PROVE Settled(q)'
    BY <1>1 DEF AgreeInv, Settled
  <1>3. QED
    BY <1>1, <1>2 DEF AgreeInv

LEMMA AddAgrees ==
    ASSUME AgreeInv, NEW p \in Peers, OnAdd(p) \/ CmdAdd(p)
    PROVE  AgreeInv'
  <1>1. /\ contacts' \in [Peers -> Nat] /\ Known' \subseteq Known \cup {p}
        /\ UNCHANGED <<muted, blocked>>
        /\ keptMuted' = keptMuted \cup ({p} \cap muted)
    BY NewEntryKnown DEF OnAdd, CmdAdd, AgreeInv, NewEntry
  <1>2. CASE OnAdd(p)
    <2>1. StartThread(p, FALSE, TRUE)
      BY <1>2 DEF OnAdd
    <2>2. /\ <<p, FALSE>> \in threads' /\ unsettled \subseteq unsettled' \cup {p}
          /\ \A q \in Peers \ {p}, c \in BOOLEAN : <<q, c>> \in threads' <=> <<q, c>> \in threads
      BY <2>1, ThreadAlone
    <2>3. p \notin unsettled' => <<p, TRUE>> \notin threads'
      BY <2>1, ThreadAlone
    <2>4. p \notin unsettled' => Settled(p)'
      BY <1>1, <2>2, <2>3 DEF Settled
    <2>5. QED
      BY <1>1, <2>2, <2>4, OthersStaySettled
  <1>3. CASE CmdAdd(p)
    <2>1. unsettled' = unsettled \cup {p} /\ UNCHANGED threads
      BY <1>3 DEF CmdAdd
    <2>2. QED
      BY <1>1, <2>1, OthersStaySettled
  <1>4. QED
    BY <1>2, <1>3

\* A contact's new node is unsettled, and its old one has lost an entry.
LEMMA UpdateAgrees ==
    ASSUME AgreeInv, NEW p \in Peers, NEW q \in Peers,
           OnAddUpdates(q, p) \/ CmdAddUpdates(q, p)
    PROVE  AgreeInv'
  <1>1. contacts' \in [Peers -> Nat] /\ Known' \subseteq Known \cup {p}
    BY MovedEntryKnown DEF AgreeInv, OnAddUpdates, CmdAddUpdates, NewRoutingKey
  <1>2. /\ UNCHANGED <<muted, blocked, threads>> /\ unsettled' = unsettled \cup {p}
        /\ keptMuted' = keptMuted \cup ({p} \cap muted)
    BY DEF OnAddUpdates, CmdAddUpdates, NewRoutingKey
  <1>3. QED
    BY <1>1, <1>2, OthersStaySettled

LEMMA PeerAgrees ==
    ASSUME AgreeInv, NEW p \in Peers,
           \/ Accept(p) \/ BlockStranger(p)
           \/ Block(p) \/ Unblock(p) \/ OnAdd(p) \/ OnRemove(p) \/ OnMemberChip(p)
           \/ CmdAdd(p) \/ CmdRemove(p) \/ CmdUnblock(p)
    PROVE  AgreeInv'
  <1>1. contacts \in [Peers -> Nat] /\ contacts[p] \in Nat
    BY DEF AgreeInv
  <1>2. CASE Accept(p) \/ OnMemberChip(p)
    <2>1. AddEntry(p)
      BY <1>2 DEF Accept, OnMemberChip
    <2>2. contacts' \in [Peers -> Nat] /\ Known' \subseteq Known \cup {p}
      BY <1>1, <2>1, AddedEntryKnown
    <2>3. Unmute(p) /\ StartThread(p, FALSE, TRUE) /\ blocked' = blocked
      BY <1>2 DEF Accept, OnMemberChip
    <2>4. QED
      BY <2>2, <2>3, UnmuteAgrees
  <1>3. CASE Unblock(p) \/ CmdUnblock(p)
    <2>1. /\ Unmute(p) /\ StartThread(p, FALSE, TRUE)
          /\ UNCHANGED <<blocked, contacts>>
      BY <1>3 DEF Unblock, CmdUnblock
    <2>2. Known' = Known
      BY <2>1 DEF Known
    <2>3. QED
      BY <1>1, <2>1, <2>2, UnmuteAgrees
  <1>4. CASE BlockStranger(p)
    <2>1. /\ Mute(p) /\ StartThread(p, TRUE, p \notin Known)
          /\ UNCHANGED <<blocked, contacts>>
      BY <1>4 DEF BlockStranger
    <2>2. Known' = Known
      BY <2>1 DEF Known
    <2>3. QED
      BY <1>1, <2>1, <2>2, MuteAgrees
  <1>5. CASE Block(p)
    <2>1. /\ Mute(p) /\ StartThread(p, TRUE, TRUE) /\ blocked' = blocked
          /\ contacts' = [contacts EXCEPT ![p] = 0]
      BY <1>5 DEF Block
    <2>2. contacts' \in [Peers -> Nat] /\ Known' \subseteq Known /\ p \notin Known'
      BY <1>1, <2>1 DEF Known
    <2>3. QED
      BY <2>1, <2>2, MuteAgrees
  <1>6. CASE OnAdd(p) \/ CmdAdd(p)
    BY <1>6, AddAgrees
  <1>7. CASE OnRemove(p) \/ CmdRemove(p)
    BY <1>7, RemoveAgrees DEF OnRemove, CmdRemove, ContactRow
  <1>8. QED
    BY <1>2, <1>3, <1>4, <1>5, <1>6, <1>7

\* The daemon carries out the one thread of a settled peer.
LEMMA ThreadAgrees ==
    ASSUME AgreeInv, NEW p \in Peers, NEW b \in BOOLEAN,
           ThreadDone(p, b) \/ ThreadFails(p, b)
    PROVE  AgreeInv'
  <1>1. /\ <<p, b>> \in threads /\ threads' = threads \ {<<p, b>>}
        /\ UNCHANGED <<contacts, muted, keptMuted>>
    BY DEF ThreadDone, ThreadFails
  <1>2. contacts' \in [Peers -> Nat] /\ Known' = Known
    BY <1>1 DEF AgreeInv, Known
  <1>3. \A q \in Peers \ {p}, c \in BOOLEAN : <<q, c>> \in threads' <=> <<q, c>> \in threads
    BY <1>1
  <1>4. CASE ThreadDone(p, b)
    <2>1. /\ blocked' = IF b THEN blocked \cup {p} ELSE blocked \ {p}
          /\ UNCHANGED unsettled
      BY <1>4 DEF ThreadDone
    <2>2. ASSUME p \notin unsettled' PROVE Settled(p)'
      <3>1. Settled(p)
        BY <2>1, <2>2 DEF AgreeInv
      <3>2. CASE b = TRUE
        BY <1>1, <1>2, <2>1, <3>1, <3>2 DEF Settled
      <3>3. CASE b = FALSE
        BY <1>1, <1>2, <2>1, <3>1, <3>3 DEF Settled
      <3>4. QED
        BY <3>2, <3>3
    <2>3. QED
      BY <1>1, <1>2, <1>3, <2>1, <2>2, OthersStaySettled
  <1>5. CASE ThreadFails(p, b)
    <2>1. /\ blocked' \in {blocked, IF b THEN blocked \cup {p} ELSE blocked \ {p}}
          /\ unsettled' = unsettled \cup {p}
      BY <1>5 DEF ThreadFails
    <2>2. QED
      BY <1>1, <1>2, <1>3, <2>1, OthersStaySettled
  <1>6. QED
    BY <1>4, <1>5

\* The process ends: whoever had a thread is unsettled.
LEMMA EndAgrees == ASSUME AgreeInv, ProcessEnds PROVE AgreeInv'
  <1>1. /\ UNCHANGED <<contacts, muted, keptMuted>>
        /\ unsettled' = unsettled \cup {t[1] : t \in threads}
        /\ threads' = {}
        /\ \A p \in Peers : (p \in blocked') # (p \in blocked)
                               => <<p, p \in blocked'>> \in threads
    BY DEF ProcessEnds
  <1>2. Known' = Known
    BY <1>1 DEF Known
  <1>3. ASSUME NEW p \in Peers \ unsettled' PROVE Settled(p)'
    <2>1. p \notin unsettled /\ \A t \in threads : t[1] # p
      BY <1>1, <1>3
    <2>2. \A c \in BOOLEAN : <<p, c>> \notin threads
      <3>1. \A c \in BOOLEAN : <<p, c>>[1] = p
        OBVIOUS
      <3>2. QED
        BY <2>1, <3>1
    <2>3. p \in blocked' <=> p \in blocked
      <3>1. <<p, p \in blocked'>> \notin threads
        <4>1. \A c : <<p, c>>[1] = p
          OBVIOUS
        <4>2. QED
          BY <2>1, <4>1, Zenon
      <3>2. p \in Peers
        BY <1>3
      <3>3. ~((p \in blocked') # (p \in blocked))
        BY <1>1, <3>1, <3>2, Zenon
      <3>4. QED
        BY <3>3
    <2>4. Settled(p)
      BY <2>1 DEF AgreeInv
    <2>5. QED
      BY <1>1, <1>2, <2>2, <2>3, <2>4 DEF Settled
  <1>4. QED
    BY <1>1, <1>3 DEF AgreeInv

LEMMA AppAgrees ==
    ASSUME AgreeInv,
           \/ SurfaceIdle \/ Start \/ OnViewChanged \/ RefreshDone \/ RefreshLate
           \/ \E p \in Peers : Incoming(p) \/ Deny(p)
           \/ UNCHANGED vars
    PROVE  AgreeInv'
  <1>1. UNCHANGED <<contacts, blocked, threads, unsettled>>
    BY DEF SurfaceIdle, Start, OnViewChanged, RefreshDone, RefreshLate, Incoming, Deny, vars
  <1>2. Known' = Known
    BY <1>1 DEF Known
  <1>3. \/ UNCHANGED <<muted, keptMuted>>
        \/ muted' = muted \ Known /\ keptMuted' = keptMuted \ Known
    BY DEF SurfaceIdle, Start, OnViewChanged, RefreshDone, RefreshLate, Incoming, Deny, vars
  <1>4. ASSUME NEW p \in Peers \ unsettled' PROVE Settled(p)'
    <2>1. Settled(p)
      BY <1>1 DEF AgreeInv
    <2>2. CASE UNCHANGED <<muted, keptMuted>>
      BY <1>1, <1>2, <2>1, <2>2 DEF Settled
    <2>3. CASE muted' = muted \ Known /\ keptMuted' = keptMuted \ Known
      BY <1>1, <1>2, <2>1, <2>3 DEF Settled
    <2>4. QED
      BY <1>3, <2>2, <2>3
  <1>5. QED
    BY <1>1, <1>4 DEF AgreeInv

LEMMA AgreeStep == AgreeInv /\ [Next]_vars => AgreeInv'
  BY PeerAgrees, UpdateAgrees, ThreadAgrees, EndAgrees, AppAgrees DEF Next, Stop, StopInIncoming

(***************************************************************************)
(* Client and daemon agree (daemon_block_set and on_add, gtkui.py): for    *)
(* any number of peers and any overlap of the threads that nobody waits    *)
(* for, no contact whose last request went through alone is blocked, and   *)
(* no muted stranger is left unblocked, but for the cases DaemonAgrees     *)
(* names, a contact's new routing key among them.                          *)
(***************************************************************************)
THEOREM ClientAndDaemonAgree == Spec => []DaemonAgrees
  <1>1. Init => AgreeInv
    BY DEF Init, AgreeInv, Settled, Known
  <1>2. AgreeInv => DaemonAgrees
    BY DEF AgreeInv, Settled, DaemonAgrees
  <1>3. QED
    BY <1>1, <1>2, AgreeStep, PTL DEF Spec

-----------------------------------------------------------------------------
\* BlockCanBeUndone.

(***************************************************************************)
(* Once nothing is being fetched, whoever is blocked is on the list that   *)
(* is shown, unless a request about it is under way.                       *)
(***************************************************************************)
OnList(p) ==
    (running /\ ~refreshing /\ ~outdated /\ p \in blocked
     /\ <<p, TRUE>> \notin threads /\ <<p, FALSE>> \notin threads) => p \in shown

ListInv == \A p \in Listed \ unsettled : OnList(p)

LEMMA StartThreadList ==
    ASSUME ListInv, NEW p \in Peers, NEW b \in BOOLEAN, NEW agrees \in BOOLEAN,
           StartThread(p, b, agrees), blocked' = blocked, running' = running,
           UNCHANGED listVars \/ refreshing' = TRUE
    PROVE  ListInv'
  <1>1. /\ unsettled \subseteq unsettled' \cup {p} /\ <<p, b>> \in threads'
        /\ \A q \in Peers \ {p}, c \in BOOLEAN : <<q, c>> \in threads' <=> <<q, c>> \in threads
    BY ThreadAlone
  <1>2. <<p, TRUE>> \in threads' \/ <<p, FALSE>> \in threads'
    BY <1>1
  <1>3. ASSUME NEW q \in Listed \ unsettled' PROVE OnList(q)'
    <2>1. CASE q = p
      BY <1>2, <2>1 DEF OnList
    <2>2. CASE q # p
      <3>1. q \in Peers /\ OnList(q)
        BY <1>1, <1>3, <2>2, ListedAssumption DEF ListInv
      <3>2. QED
        BY <1>1, <2>2, <3>1 DEF OnList, listVars
    <2>3. QED
      BY <2>1, <2>2
  <1>4. QED
    BY <1>3 DEF ListInv

LEMMA ThreadList ==
    ASSUME ListInv, NEW p \in Peers, NEW b \in BOOLEAN,
           ThreadDone(p, b) \/ ThreadFails(p, b)
    PROVE  ListInv'
  <1>1. /\ threads' = threads \ {<<p, b>>} /\ UNCHANGED <<running, shown, outdated>>
        /\ blocked' = blocked \/ blocked' = IF b THEN blocked \cup {p} ELSE blocked \ {p}
        /\ unsettled \subseteq unsettled'
    BY DEF ThreadDone, ThreadFails
  <1>2. refreshing /\ running => refreshing'
    BY Zenon DEF ThreadDone, ThreadFails
  <1>3. ThreadDone(p, b) /\ b /\ running => refreshing'
    BY Zenon DEF ThreadDone
  <1>4. ThreadDone(p, b) /\ ~b => p \notin blocked'
    BY DEF ThreadDone
  <1>5. ThreadFails(p, b) => p \in unsettled'
    BY DEF ThreadFails
  <1>6. ASSUME NEW q \in Listed \ unsettled' PROVE OnList(q)'
    <2>1. q \in Peers /\ OnList(q)
      BY <1>1, <1>6, ListedAssumption DEF ListInv
    <2>2. CASE q = p
      BY <1>1, <1>5, <1>6, <1>3, <1>4, <2>2 DEF OnList
    <2>3. CASE q # p
      BY <1>1, <1>2, <2>1, <2>3 DEF OnList
    <2>4. QED
      BY <2>2, <2>3
  <1>7. QED
    BY <1>6 DEF ListInv

LEMMA ListStep == ListInv /\ [Next]_vars => ListInv'
  <1> SUFFICES ASSUME ListInv, [Next]_vars PROVE ListInv'
    OBVIOUS
  <1>1. CASE \E p \in Peers, b \in BOOLEAN : ThreadDone(p, b) \/ ThreadFails(p, b)
    BY <1>1, ThreadList
  <1>2. ASSUME NEW p \in Peers,
               \/ Accept(p) \/ BlockStranger(p) \/ Block(p) \/ Unblock(p) \/ OnAdd(p)
               \/ OnMemberChip(p) \/ CmdUnblock(p)
        PROVE  ListInv'
    <2>1. /\ \E b, agrees \in BOOLEAN : StartThread(p, b, agrees)
          /\ blocked' = blocked /\ running' = running
          /\ UNCHANGED listVars \/ refreshing' = TRUE
      BY <1>2 DEF Accept, BlockStranger, Block, Unblock, OnAdd, OnMemberChip, CmdUnblock,
                  Refresh
    <2>2. QED
      BY <2>1, StartThreadList
  <1>3. CASE running' = FALSE \/ refreshing' = TRUE
    BY <1>3 DEF ListInv, OnList
  <1>4. CASE RefreshDone
    BY <1>4 DEF RefreshDone, ListInv, OnList
  <1>5. CASE RefreshLate
    BY <1>5 DEF RefreshLate, ListInv, OnList
  <1>6. CASE /\ UNCHANGED <<running, blocked, threads, listVars>>
             /\ unsettled \subseteq unsettled'
    BY <1>6 DEF ListInv, OnList, listVars
  <1>7. QED
    BY <1>1, <1>2, <1>3, <1>4, <1>5, <1>6
       DEF Next, vars, SurfaceIdle, Start, Stop, StopInIncoming, ProcessEnds, OnViewChanged,
           Refresh, Incoming, Deny, OnRemove, CmdAdd, CmdRemove, OnAddUpdates, CmdAddUpdates,
           NewRoutingKey

(***************************************************************************)
(* A block can be undone (ContactsView.refresh and daemon_block_set,       *)
(* gtkui.py): for any peers and any number of fetches and requests that    *)
(* overlap, a muted stranger has a row with a button that unblocks it.     *)
(***************************************************************************)
THEOREM BlocksCanBeUndone == Spec => []BlockCanBeUndone
  <1>1. Init => AgreeInv /\ ListInv
    BY DEF Init, AgreeInv, Settled, Known, ListInv, OnList
  <1>2. AgreeInv /\ ListInv => BlockCanBeUndone
    BY ListedAssumption DEF AgreeInv, Settled, ListInv, OnList, BlockCanBeUndone
  <1>3. QED
    BY <1>1, <1>2, AgreeStep, ListStep, PTL DEF Spec
=============================================================================
