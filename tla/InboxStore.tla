----------------------------- MODULE InboxStore -----------------------------
(***************************************************************************)
(* The durable receive log a daemon keeps for one peer (daemon/store.go,   *)
(* InboxStore): the newest messages, plus a bounded memory of the sequence *)
(* numbers that were trimmed, so that a retransmission is recognised.      *)
(*                                                                         *)
(* Every operation is one SQLite transaction on a single connection        *)
(* (daemon/db.go), hence one step.  Payloads are abstracted to the         *)
(* sequence number the sender gave them.                                   *)
(***************************************************************************)
EXTENDS Naturals, FiniteSets

CONSTANTS Seqs,       \* sequence numbers a peer may send
          Capacity    \* inboxCapacity of the daemon's configuration

ASSUME SeqsAssumption == Seqs \subseteq Nat \ {0}
ASSUME CapacityAssumption == Capacity \in Nat

VARIABLES inbox,        \* table inbox: retained messages
          seen,         \* table inbox_seen: the replay guard
          accepted,     \* history: every seq ever committed as new
          redelivered   \* history: every seq reported new a second time

storeVars == <<inbox, seen, accepted, redelivered>>

-----------------------------------------------------------------------------
\* NewInboxStore repairs a capacity below one and sizes the guard from it.
Cap == IF Capacity < 1 THEN 1 ELSE Capacity
SeenCap == 4 * Cap

\* Deviation: one row too many survives a trim.
NewestOffByOne(S, n) == {s \in S : Cardinality({t \in S : t > s}) <= n}

\* The n largest members of S: what is left of S when the smallest member is
\* deleted until at most n remain.
Newest(S, n) == {s \in S : Cardinality({t \in S : t > s}) < n}

\* Deviation: only the retained rows are searched.
IsDuplicateOfRetained(s) == s \in inbox

IsDuplicate(s) == s \in inbox \cup seen

Smallest(S) == IF S = {} THEN 0 ELSE CHOOSE s \in S : \A t \in S : s <= t

-----------------------------------------------------------------------------
\* A daemon that has never heard from the peer.
StoreInit == /\ inbox = {}
             /\ seen = {}
             /\ accepted = {}
             /\ redelivered = {}

\* Deviation: the guard's bound is enforced before the trimmed rows join it.
TrimTxGuardFirst(rows) == LET kept == Newest(rows, Cap)
                          IN  /\ inbox' = kept
                              /\ seen' = Newest(seen, SeenCap) \cup (rows \ kept)

\* trimTx: rows past the capacity move to the guard, and the guard keeps its
\* newest SeenCap members.  The smallest retained seq it records in peer_state
\* is left out: it is the MIN of the inbox, and nothing ever reads it back.
TrimTx(rows) == LET kept == Newest(rows, Cap)
                IN  /\ inbox' = kept
                    /\ seen' = Newest(seen \cup (rows \ kept), SeenCap)

\* Add of a seq that is neither retained nor remembered.
AddNew(s) == /\ ~IsDuplicate(s)
             /\ TrimTx(inbox \cup {s})
             /\ accepted' = accepted \cup {s}
             /\ redelivered' = redelivered \cup ({s} \cap accepted)

\* Add of a duplicate rolls its transaction back.
AddDuplicate(s) == /\ IsDuplicate(s)
                   /\ UNCHANGED storeVars

Add(s) == AddNew(s) \/ AddDuplicate(s)

StoreNext == \E s \in Seqs : Add(s)

StoreSpec == StoreInit /\ [][StoreNext]_storeVars

-----------------------------------------------------------------------------
\* After: what the history request returns for a client's cursor.
After(cursor) == {s \in inbox : s > cursor}

\* Oldest and Latest: the bounds reported with it, 0 for an empty inbox.
Oldest == Smallest(inbox)
Latest == IF inbox = {} THEN 0 ELSE CHOOSE s \in inbox : \A t \in inbox : t <= s

-----------------------------------------------------------------------------
\* The tables hold sequence numbers, finitely many of them.
StoreTypeOK == /\ inbox \subseteq Seqs
               /\ seen \subseteq Seqs
               /\ accepted \subseteq Seqs
               /\ redelivered \subseteq accepted
               /\ IsFiniteSet(accepted)

(***************************************************************************)
(* The inbox is a window: whatever was accepted and is no longer retained  *)
(* is older than everything retained, and nothing is given up while there  *)
(* is room.  Messages arrive in any order, so a late one must either push  *)
(* out the oldest row or be trimmed at once (trimTx, store.go:181-219).    *)
(***************************************************************************)
InboxIsNewestWindow ==
    /\ inbox \subseteq accepted
    /\ Cardinality(inbox) <= Cap
    /\ \A a \in accepted \ inbox, i \in inbox : a < i
    /\ accepted # inbox => Cardinality(inbox) = Cap

(***************************************************************************)
(* The replay guard is the window right below the inbox: it is disjoint    *)
(* from it, and a seq that was accepted but is in neither table is older   *)
(* than a completely full guard (trimTx, store.go:199-205).                *)
(***************************************************************************)
GuardIsNextWindow ==
    /\ seen \subseteq accepted
    /\ seen \cap inbox = {}
    /\ Cardinality(seen) <= SeenCap
    /\ \A a \in accepted \ (inbox \cup seen), g \in seen : a < g
    /\ accepted # inbox \cup seen => Cardinality(seen) = SeenCap

(***************************************************************************)
(* Add reports an already accepted message as new only when Cap + SeenCap  *)
(* accepted messages have higher sequence numbers, so that it is older     *)
(* than a full inbox and a full guard; within that distance every          *)
(* retransmission is recognised (Add, store.go:149-163).                   *)
(***************************************************************************)
ReplayOnlyBeyondGuard ==
    \A s \in redelivered :
        Cardinality({a \in accepted : a > s}) >= Cap + SeenCap
=============================================================================
