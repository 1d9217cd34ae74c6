-------------------------- MODULE AttachmentStore ---------------------------
(***************************************************************************)
(* The daemon's landing buffer for the file chunks of one peer             *)
(* (daemon/attachments.go).                                                *)
(*                                                                         *)
(* A chunk is a pair <<transfer, index>>; the chunks of a transfer have    *)
(* one size.  Ts is the time the sender stamped on each chunk, which       *)
(* orders transfers for eviction; transfers of one age go by their id.     *)
(***************************************************************************)
EXTENDS Naturals, FiniteSets, FiniteSetsExt

CONSTANTS Total,     \* chunks per transfer, indexed by transfer
          Size,      \* bytes per chunk, indexed by transfer
          Ts,        \* timestamp, indexed by chunk
          CapBytes   \* the peer's byte budget

Tids == DOMAIN Total
Chunks == {c \in Tids \X (0 .. Max({Total[t] : t \in Tids})) : c[2] < Total[c[1]]}

ASSUME TransfersAssumption == /\ Tids \subseteq Nat
                              /\ DOMAIN Size = Tids
                              /\ \A t \in Tids : Total[t] \in Nat \ {0} /\ Size[t] \in Nat \ {0}
ASSUME TsAssumption == Ts \in [Chunks -> Nat]
ASSUME CapBytesAssumption == CapBytes \in Nat

VARIABLES attach,    \* table attach
          evicted    \* history: transfers deleted to make room

attachVars == <<attach, evicted>>

Of(t, C) == {c \in C : c[1] = t}
Without(T, C) == {c \in C : c[1] \notin T}
Complete(t, C) == Cardinality(Of(t, C)) = Total[t]
Held(C) == {c[1] : c \in C}

\* Every byte of the chunks C, and how many they are.
BytesOf(C) == UNION {{c} \X (1..Size[c[1]]) : c \in C}
Bytes(C) == Cardinality(BytesOf(C))

-----------------------------------------------------------------------------
AttachInit == attach = {} /\ evicted = {}

-----------------------------------------------------------------------------
\* transfersTx: a transfer is as old as its oldest chunk that is held.
Age(t) == Min({Ts[c] : c \in Of(t, attach)})
Older(t, u) == Age(t) < Age(u) \/ (Age(t) = Age(u) /\ t < u)

\* Deviation: eviction goes by age alone.
EvictedBeforeByAge(t, u) == Older(t, u)

\* pickEviction's order: incomplete transfers first, then by age.
EvictedBefore(t, u) == IF Complete(t, attach) = Complete(u, attach)
                       THEN Older(t, u)
                       ELSE ~Complete(t, attach)

\* All that may go: never the transfer being written.
Candidates(t) == Held(attach) \ {t}

\* The first victims of pickEviction, as many as needed.
IsPrefix(V, t) == \A v \in V, u \in Candidates(t) \ V : EvictedBefore(v, u)

\* Deviation: a chunk that would fill the budget exactly does not fit.
FitsStrictly(V, t) == Bytes(Without(V, attach)) + Size[t] < CapBytes

Fits(V, t) == Bytes(Without(V, attach)) + Size[t] <= CapBytes

\* Deviation: one eviction is taken to be enough.
MakeRoomOnce(t) == {V \in SUBSET Candidates(t) :
                      /\ IsPrefix(V, t)
                      /\ IF Fits({}, t) THEN V = {} ELSE Cardinality(V) = 1}

\* makeRoomTx: the shortest such prefix that frees enough; none if the budget
\* cannot hold the chunk next to the rest of its own transfer (errAttachBudget,
\* and the transaction's deletions are rolled back).
MakeRoom(t) == {V \in SUBSET Candidates(t) :
                  /\ IsPrefix(V, t) /\ Fits(V, t)
                  /\ \A W \in SUBSET V : W # V /\ IsPrefix(W, t) => ~Fits(W, t)}

\* Add of a chunk the store does not hold: stored if there is or can be room.
AddChunk(c) == /\ c \notin attach
               /\ \E V \in MakeRoom(c[1]) :
                     /\ attach' = Without(V, attach) \cup {c}
                     /\ evicted' = evicted \cup V

AckTid(t) == /\ attach' = Without({t}, attach)
             /\ UNCHANGED evicted

AttachNext == \/ \E c \in Chunks : AddChunk(c)
              \/ \E t \in Tids : AckTid(t)

AttachSpec == AttachInit /\ [][AttachNext]_attachVars

-----------------------------------------------------------------------------
(***************************************************************************)
(* The peer's files never take more than the byte budget, whatever sizes   *)
(* chunks have and however many transfers one chunk must displace          *)
(* (makeRoomTx, attachments.go:122-150).                                   *)
(***************************************************************************)
BudgetRespected == Bytes(attach) <= CapBytes

(***************************************************************************)
(* A complete transfer is displaced only when the store holds no other     *)
(* incomplete transfer but the one being written (pickEviction,            *)
(* attachments.go:152-174): half a file never pushes out a whole one that  *)
(* waits for its client while another half file could go.                  *)
(***************************************************************************)
CompleteEvictedLast ==
    [][\A t \in Held(attach) :
          (Complete(t, attach) /\ t \notin Held(attach') /\ attach' \ attach # {})
             => \A u \in Held(attach') : Complete(u, attach') \/ Of(u, attach' \ attach) # {}
      ]_attachVars

(***************************************************************************)
(* Making room displaces no transfer needlessly: one of the displaced      *)
(* transfers (the last that pickEviction chose) could not have stayed next *)
(* to the rest and the new chunk (makeRoomTx, attachments.go:131).         *)
(***************************************************************************)
NothingEvictedInVain ==
    [][\A c \in attach' \ attach :
          LET gone == Held(attach) \ Held(attach')
          IN  gone # {} => \E last \in gone :
                 Bytes(Without(gone \ {last}, attach)) + Size[c[1]] > CapBytes
      ]_attachVars
=============================================================================
