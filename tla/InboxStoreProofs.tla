-------------------------- MODULE InboxStoreProofs --------------------------
(***************************************************************************)
(* The receive log for every capacity and every set of sequence numbers.   *)
(* The invariant is the conjunction of the properties TLC checks: the two  *)
(* windows depend on each other, because what leaves the inbox enters the  *)
(* guard, and the replay bound follows from both.                          *)
(***************************************************************************)
EXTENDS InboxStore, FiniteSetTheorems, TLAPS

StoreInv == /\ StoreTypeOK
            /\ InboxIsNewestWindow
            /\ GuardIsNextWindow
            /\ ReplayOnlyBeyondGuard

-----------------------------------------------------------------------------
\* Every nonempty set of naturals has a smallest member (the MIN of trimTx).
LEMMA NatMin ==
  ASSUME NEW T, T \subseteq Nat, T # {}
  PROVE  \E x \in T : \A y \in T : x <= y
<1>1. PICK x \in T : \A y \in T : ~(<<y, x>> \in OpToRel(<, Nat))
  BY NatLessThanWellFounded, WFMin
<1>2. ASSUME NEW y \in T PROVE x <= y
  <2>1. x \in Nat /\ y \in Nat
    OBVIOUS
  <2>2. ~(y < x)
    <3>1. SUFFICES ASSUME y < x PROVE FALSE
      OBVIOUS
    <3>2. <<y, x>> \in Nat \X Nat /\ <<y, x>>[1] = y /\ <<y, x>>[2] = x
      BY <2>1
    <3>3. <<y, x>> \in OpToRel(<, Nat)
      BY <3>1, <3>2 DEF OpToRel
    <3>. QED
      BY <1>1, <3>3
  <2>. QED
    BY <2>1, <2>2
<1>. QED
  BY <1>2

\* Smallest is the least member of a nonempty set.
LEMMA SmallestIsMin ==
  ASSUME NEW T, T \subseteq Nat, T # {}
  PROVE  Smallest(T) \in T /\ \A y \in T : Smallest(T) <= y
BY NatMin DEF Smallest

\* The capacities the code works with.
LEMMA Caps == Cap \in Nat \ {0} /\ SeenCap \in Nat \ {0}
BY CapacityAssumption DEF Cap, SeenCap

\* Trimming leaves a set alone that is not above its bound.
LEMMA NewestAll ==
  ASSUME NEW S, IsFiniteSet(S), S \subseteq Nat, NEW n \in Nat, Cardinality(S) <= n
  PROVE  Newest(S, n) = S
<1>1. ASSUME NEW s \in S PROVE Cardinality({t \in S : t > s}) < n
  <2>1. {t \in S : t > s} \in SUBSET (S \ {s})
    OBVIOUS
  <2>2. IsFiniteSet(S \ {s}) /\ Cardinality(S \ {s}) = Cardinality(S) - 1
    BY FS_RemoveElement
  <2>3. Cardinality(S) \in Nat /\ Cardinality({t \in S : t > s}) \in Nat
    BY <2>1, <2>2, FS_Subset, FS_CardinalityType
  <2>4. Cardinality({t \in S : t > s}) <= Cardinality(S \ {s})
    BY <2>1, <2>2, FS_Subset
  <2>. QED
    BY <2>2, <2>3, <2>4
<1>. QED
  BY <1>1 DEF Newest

\* Trimming a set that is one above its bound deletes exactly its smallest
\* member: the loop of trimTx runs once per Add.
LEMMA NewestDropsSmallest ==
  ASSUME NEW S, IsFiniteSet(S), S \subseteq Nat, NEW n \in Nat, Cardinality(S) = n + 1
  PROVE  \E e \in S : /\ \A t \in S \ {e} : e < t
                      /\ Newest(S, n) = S \ {e}
                      /\ Cardinality(S \ {e}) = n
<1>1. S # {}
  BY FS_EmptySet
<1>2. PICK e \in S : \A t \in S : e <= t
  BY <1>1, NatMin
<1>3. \A t \in S \ {e} : e < t
  BY <1>2
<1>4. IsFiniteSet(S \ {e}) /\ Cardinality(S \ {e}) = n
  BY FS_RemoveElement
<1>5. {t \in S : t > e} = S \ {e}
  <2>1. \A t \in S : t > e <=> t # e
    BY <1>2
  <2>. QED
    BY <2>1
<1>6. ~(Cardinality({t \in S : t > e}) < n)
  BY <1>4, <1>5
<1>7. ASSUME NEW s \in S \ {e} PROVE Cardinality({t \in S : t > s}) < n
  <2>1. {t \in S : t > s} \in SUBSET ((S \ {e}) \ {s})
    BY <1>3
  <2>2. IsFiniteSet((S \ {e}) \ {s}) /\ Cardinality((S \ {e}) \ {s}) = n - 1
    BY <1>4, FS_RemoveElement
  <2>3. Cardinality({t \in S : t > s}) \in Nat
    BY <2>1, <2>2, FS_Subset, FS_CardinalityType
  <2>4. Cardinality({t \in S : t > s}) <= Cardinality((S \ {e}) \ {s})
    BY <2>1, <2>2, FS_Subset
  <2>. QED
    BY <2>2, <2>3, <2>4
<1>8. Newest(S, n) = S \ {e}
  BY <1>6, <1>7 DEF Newest
<1>. QED
  BY <1>3, <1>4, <1>8

-----------------------------------------------------------------------------
\* Adding a new seq while the inbox has room: nothing is trimmed.
LEMMA AddWithRoom ==
  ASSUME StoreInv, NEW s \in Seqs, AddNew(s), Cardinality(inbox) < Cap
  PROVE  /\ inbox' = inbox \cup {s} /\ seen' = {} /\ seen = {} /\ accepted = inbox
         /\ Cardinality(inbox') <= Cap
<1>1. accepted = inbox /\ IsFiniteSet(inbox) /\ inbox \subseteq Seqs
  BY Caps DEF StoreInv, StoreTypeOK, InboxIsNewestWindow
<1>2. seen = {}
  BY <1>1 DEF StoreInv, GuardIsNextWindow
<1>3. /\ IsFiniteSet(inbox \cup {s}) /\ inbox \cup {s} \subseteq Nat
      /\ Cardinality(inbox \cup {s}) = Cardinality(inbox) + 1
  BY <1>1, FS_AddElement, SeqsAssumption DEF AddNew, IsDuplicate
<1>4. Cardinality(inbox) \in Nat
  BY <1>1, FS_CardinalityType
<1>5. Cardinality(inbox \cup {s}) <= Cap
  BY <1>3, <1>4, Caps
<1>6. Newest(inbox \cup {s}, Cap) = inbox \cup {s}
  BY <1>3, <1>5, Caps, NewestAll
<1>7. Newest({}, SeenCap) = {}
  BY DEF Newest
<1>8. inbox' = inbox \cup {s}
  BY <1>6 DEF AddNew, TrimTx
<1>9. seen' = Newest(seen \cup ((inbox \cup {s}) \ (inbox \cup {s})), SeenCap)
  BY <1>6 DEF AddNew, TrimTx
<1>10. seen' = {}
  <2>1. seen \cup ((inbox \cup {s}) \ (inbox \cup {s})) = {}
    BY <1>2
  <2>. QED
    BY <1>7, <1>9, <2>1
<1>. QED
  BY <1>1, <1>2, <1>5, <1>8, <1>10

\* Adding a new seq to a full inbox: the smallest row e moves to the guard.
LEMMA AddToFull ==
  ASSUME StoreInv, NEW s \in Seqs, AddNew(s), ~(Cardinality(inbox) < Cap)
  PROVE  \E e \in inbox \cup {s} :
            /\ \A t \in (inbox \cup {s}) \ {e} : e < t
            /\ inbox' = (inbox \cup {s}) \ {e}
            /\ Cardinality(inbox') = Cap
            /\ seen' = Newest(seen \cup {e}, SeenCap)
<1>1. IsFiniteSet(inbox) /\ inbox \subseteq Seqs /\ Cardinality(inbox) <= Cap
  BY FS_Subset DEF StoreInv, StoreTypeOK, InboxIsNewestWindow
<1>2. Cardinality(inbox) = Cap
  BY <1>1, FS_CardinalityType, Caps
<1>3. /\ IsFiniteSet(inbox \cup {s}) /\ inbox \cup {s} \subseteq Nat
      /\ Cardinality(inbox \cup {s}) = Cap + 1
  BY <1>1, <1>2, FS_AddElement, SeqsAssumption DEF AddNew, IsDuplicate
<1>4. PICK e \in inbox \cup {s} :
         /\ \A t \in (inbox \cup {s}) \ {e} : e < t
         /\ Newest(inbox \cup {s}, Cap) = (inbox \cup {s}) \ {e}
         /\ Cardinality((inbox \cup {s}) \ {e}) = Cap
  BY <1>3, Caps, NewestDropsSmallest
<1>5. inbox' = (inbox \cup {s}) \ {e}
  BY <1>4 DEF AddNew, TrimTx
<1>6. seen' = Newest(seen \cup ((inbox \cup {s}) \ ((inbox \cup {s}) \ {e})), SeenCap)
  BY <1>4 DEF AddNew, TrimTx
<1>7. seen \cup ((inbox \cup {s}) \ ((inbox \cup {s}) \ {e})) = seen \cup {e}
  OBVIOUS
<1>. QED
  BY <1>4, <1>5, <1>6, <1>7

\* The guard takes in a trimmed row e: it stays below its bound or drops its
\* own smallest member f.
LEMMA GuardTakes ==
  ASSUME StoreInv, NEW e \in Nat, e \notin seen
  PROVE  LET g == Newest(seen \cup {e}, SeenCap)
         IN  \/ /\ Cardinality(seen) < SeenCap
                /\ g = seen \cup {e} /\ Cardinality(g) <= SeenCap
             \/ /\ Cardinality(seen) = SeenCap /\ Cardinality(g) = SeenCap
                /\ \E f \in seen \cup {e} : /\ \A t \in (seen \cup {e}) \ {f} : f < t
                                            /\ g = (seen \cup {e}) \ {f}
<1>1. IsFiniteSet(seen) /\ seen \subseteq Nat /\ Cardinality(seen) <= SeenCap
  BY FS_Subset, SeqsAssumption DEF StoreInv, StoreTypeOK, GuardIsNextWindow
<1>2. Cardinality(seen) \in Nat
  BY <1>1, FS_CardinalityType
<1>3. /\ IsFiniteSet(seen \cup {e}) /\ seen \cup {e} \subseteq Nat
      /\ Cardinality(seen \cup {e}) = Cardinality(seen) + 1
  BY <1>1, FS_AddElement
<1>4. CASE Cardinality(seen) < SeenCap
  <2>1. Cardinality(seen \cup {e}) <= SeenCap
    BY <1>2, <1>3, <1>4, Caps
  <2>2. Newest(seen \cup {e}, SeenCap) = seen \cup {e}
    BY <1>3, <2>1, Caps, NewestAll
  <2>. QED
    BY <1>4, <2>1, <2>2
<1>5. CASE Cardinality(seen) = SeenCap
  <2>1. PICK f \in seen \cup {e} :
           /\ \A t \in (seen \cup {e}) \ {f} : f < t
           /\ Newest(seen \cup {e}, SeenCap) = (seen \cup {e}) \ {f}
           /\ Cardinality((seen \cup {e}) \ {f}) = SeenCap
    BY <1>3, <1>5, Caps, NewestDropsSmallest
  <2>. QED
    BY <1>5, <2>1
<1>. QED
  BY <1>1, <1>2, <1>4, <1>5, Caps
-----------------------------------------------------------------------------
\* A new seq keeps the types.
LEMMA AddNewType ==
  ASSUME StoreInv, NEW s \in Seqs, AddNew(s)
  PROVE  StoreTypeOK'
<1>1. inbox' \subseteq Seqs /\ seen' \subseteq Seqs
  BY DEF StoreInv, StoreTypeOK, AddNew, TrimTx, Newest
<1>2. accepted' \subseteq Seqs /\ redelivered' \subseteq accepted' /\ IsFiniteSet(accepted')
  BY FS_AddElement DEF StoreInv, StoreTypeOK, AddNew
<1>. QED
  BY <1>1, <1>2 DEF StoreTypeOK

\* A new seq keeps the inbox the newest window.
LEMMA AddNewInbox ==
  ASSUME StoreInv, NEW s \in Seqs, AddNew(s)
  PROVE  InboxIsNewestWindow'
<1>1. accepted' = accepted \cup {s} /\ s \notin inbox /\ inbox \subseteq accepted
  BY DEF StoreInv, AddNew, IsDuplicate, InboxIsNewestWindow
<1>2. CASE Cardinality(inbox) < Cap
  BY <1>1, <1>2, AddWithRoom DEF InboxIsNewestWindow, Cap
<1>3. CASE ~(Cardinality(inbox) < Cap)
  <2>1. PICK e \in inbox \cup {s} :
            /\ \A t \in (inbox \cup {s}) \ {e} : e < t
            /\ inbox' = (inbox \cup {s}) \ {e}
            /\ Cardinality(inbox') = Cap
    BY <1>3, AddToFull
  <2>2. ASSUME NEW a \in accepted' \ inbox', NEW i \in inbox' PROVE a < i
    <3>1. a \in Nat /\ i \in Nat /\ e \in Nat /\ inbox \cup {s} \subseteq Nat
      BY <1>1, SeqsAssumption, <2>1 DEF StoreInv, StoreTypeOK
    <3>2. e < i
      BY <2>1, <2>2
    <3>3. CASE a = e
      BY <3>2, <3>3
    <3>4. CASE a # e
      <4>1. a \in accepted \ inbox
        BY <1>1, <2>1, <3>4
      <4>2. \A j \in inbox : a < j
        BY <4>1 DEF StoreInv, InboxIsNewestWindow
      <4>3. CASE i \in inbox
        BY <4>2, <4>3
      <4>4. CASE i = s
        <5>1. e \in inbox
          BY <2>1, <2>2, <4>4
        <5>. QED
          BY <3>1, <3>2, <4>2, <5>1
      <4>. QED
        BY <2>1, <4>3, <4>4
    <3>. QED
      BY <3>3, <3>4
  <2>3. inbox' \subseteq accepted'
    BY <1>1, <2>1
  <2>4. Cap' = Cap
    BY DEF Cap
  <2>5. Cardinality(inbox') <= Cap
    BY <2>1, Caps
  <2>. QED
    BY <2>1, <2>2, <2>3, <2>4, <2>5 DEF InboxIsNewestWindow
<1>. QED
  BY <1>2, <1>3

\* A new seq keeps the guard the window below the inbox.
LEMMA AddNewGuard ==
  ASSUME StoreInv, NEW s \in Seqs, AddNew(s)
  PROVE  GuardIsNextWindow'
<1>1. /\ accepted' = accepted \cup {s} /\ s \notin inbox /\ s \notin seen
      /\ inbox \subseteq accepted /\ seen \subseteq accepted /\ seen \cap inbox = {}
  BY DEF StoreInv, AddNew, IsDuplicate, InboxIsNewestWindow, GuardIsNextWindow
<1>2. CASE Cardinality(inbox) < Cap
  <2>1. inbox' = accepted' /\ seen' = {}
    BY <1>1, <1>2, AddWithRoom
  <2>2. Cardinality({}) = 0
    BY FS_EmptySet
  <2>. QED
    BY <2>1, <2>2, Caps DEF GuardIsNextWindow, SeenCap, Cap
<1>3. CASE ~(Cardinality(inbox) < Cap)
  <2>1. PICK e \in inbox \cup {s} :
            /\ inbox' = (inbox \cup {s}) \ {e}
            /\ seen' = Newest(seen \cup {e}, SeenCap)
    BY <1>3, AddToFull
  <2>2. e \notin seen /\ e \in Nat /\ seen \subseteq Nat /\ accepted \subseteq Nat
    BY <1>1, <2>1, SeqsAssumption DEF StoreInv, StoreTypeOK
  <2>3. seen' \subseteq seen \cup {e}
    BY <2>1 DEF Newest
  <2>4. seen' \subseteq accepted' /\ seen' \cap inbox' = {}
    BY <1>1, <2>1, <2>3
  <2>5. CASE /\ Cardinality(seen) < SeenCap
             /\ seen' = seen \cup {e} /\ Cardinality(seen') <= SeenCap
    <3>1. accepted = inbox \cup seen
      BY <2>5, Caps DEF StoreInv, GuardIsNextWindow
    <3>2. accepted' = inbox' \cup seen'
      BY <1>1, <2>1, <2>5, <3>1
    <3>. QED
      BY <2>4, <2>5, <3>2 DEF GuardIsNextWindow, SeenCap, Cap
  <2>6. CASE /\ Cardinality(seen) = SeenCap /\ Cardinality(seen') = SeenCap
             /\ \E f \in seen \cup {e} : /\ \A t \in (seen \cup {e}) \ {f} : f < t
                                         /\ seen' = (seen \cup {e}) \ {f}
    <3>1. PICK f \in seen \cup {e} : /\ \A t \in (seen \cup {e}) \ {f} : f < t
                                     /\ seen' = (seen \cup {e}) \ {f}
      BY <2>6
    <3>2. ASSUME NEW a \in accepted' \ (inbox' \cup seen'), NEW g \in seen' PROVE a < g
      <4>1. a \in Nat /\ g \in Nat /\ f \in Nat /\ f < g
        BY <1>1, <2>2, <3>1, SeqsAssumption
      <4>2. CASE a = f
        BY <4>1, <4>2
      <4>3. CASE a # f
        <5>1. a # e
          BY <3>1, <4>3
        <5>2. a \in accepted \ (inbox \cup seen)
          BY <1>1, <2>1, <3>1, <4>3, <5>1
        <5>3. \A h \in seen : a < h
          BY <5>2 DEF StoreInv, GuardIsNextWindow
        <5>4. CASE g \in seen
          BY <5>3, <5>4
        <5>5. CASE g = e
          <6>1. f \in seen
            BY <3>1, <5>5
          <6>. QED
            BY <4>1, <5>3, <6>1
        <5>. QED
          BY <3>1, <5>4, <5>5
      <4>. QED
        BY <4>2, <4>3
    <3>3. SeenCap' = SeenCap /\ Cardinality(seen') <= SeenCap
      BY <2>6, Caps DEF SeenCap, Cap
    <3>. QED
      BY <2>4, <2>6, <3>2, <3>3 DEF GuardIsNextWindow
  <2>. QED
    BY <2>1, <2>2, <2>5, <2>6, GuardTakes
<1>. QED
  BY <1>2, <1>3
\* A message reported new a second time is older than both full windows, and
\* stays so, since accepted messages are never forgotten by the history.
LEMMA AddNewReplay ==
  ASSUME StoreInv, NEW s \in Seqs, AddNew(s)
  PROVE  ReplayOnlyBeyondGuard'
<1>. DEFINE Above(r, A) == {a \in A : a > r}
<1>1. SUFFICES ASSUME NEW r \in redelivered'
               PROVE  Cardinality(Above(r, accepted')) >= Cap + SeenCap
  BY DEF ReplayOnlyBeyondGuard, SeenCap, Cap
<1>2. /\ accepted' = accepted \cup {s} /\ IsFiniteSet(accepted')
      /\ IsFiniteSet(accepted) /\ accepted \subseteq Nat
  BY FS_AddElement, SeqsAssumption DEF StoreInv, StoreTypeOK, AddNew
<1>3. /\ IsFiniteSet(Above(r, accepted')) /\ Cardinality(Above(r, accepted')) \in Nat
  <2>1. Above(r, accepted') \in SUBSET accepted'
    OBVIOUS
  <2>. QED
    BY <1>2, <2>1, FS_Subset, FS_CardinalityType
<1>4. CASE r \in redelivered
  <2>1. Cardinality(Above(r, accepted)) >= Cap + SeenCap
    BY <1>4 DEF StoreInv, ReplayOnlyBeyondGuard
  <2>2. Above(r, accepted) \in SUBSET Above(r, accepted')
    BY <1>2
  <2>3. /\ Cardinality(Above(r, accepted)) <= Cardinality(Above(r, accepted'))
        /\ Cardinality(Above(r, accepted)) \in Nat
    BY <1>3, <2>2, FS_Subset, FS_CardinalityType
  <2>. HIDE DEF Above
  <2>. QED
    BY <1>3, <2>1, <2>3, Caps
<1>5. CASE r \notin redelivered
  <2>1. r = s /\ s \in accepted \ (inbox \cup seen)
    BY <1>5 DEF AddNew, IsDuplicate
  <2>2. /\ Cardinality(inbox) = Cap /\ Cardinality(seen) = SeenCap
        /\ inbox \cap seen = {} /\ IsFiniteSet(inbox) /\ IsFiniteSet(seen)
    BY <1>2, <2>1, FS_Subset DEF StoreInv, InboxIsNewestWindow, GuardIsNextWindow
  <2>3. IsFiniteSet(inbox \cup seen) /\ Cardinality(inbox \cup seen) = Cap + SeenCap
    <3>1. Cardinality(inbox \cap seen) = 0
      BY <2>2, FS_EmptySet
    <3>. QED
      BY <2>2, <3>1, FS_Union, Caps
  <2>4. inbox \cup seen \in SUBSET Above(r, accepted')
    <3>1. inbox \cup seen \subseteq accepted' /\ \A a \in inbox \cup seen : s < a
      BY <1>2, <2>1 DEF StoreInv, InboxIsNewestWindow, GuardIsNextWindow
    <3>. QED
      BY <1>2, <2>1, <3>1
  <2>5. Cardinality(inbox \cup seen) <= Cardinality(Above(r, accepted'))
    BY <1>3, <2>4, FS_Subset
  <2>. HIDE DEF Above
  <2>. QED
    BY <1>3, <2>3, <2>5, Caps
<1>. QED
  BY <1>4, <1>5

\* The invariant is inductive.
LEMMA StoreInvStep ==
  ASSUME StoreInv, [StoreNext]_storeVars
  PROVE  StoreInv'
<1>1. CASE UNCHANGED storeVars
  BY <1>1 DEF StoreInv, StoreTypeOK, InboxIsNewestWindow, GuardIsNextWindow,
     ReplayOnlyBeyondGuard, storeVars, Cap, SeenCap
<1>2. ASSUME NEW s \in Seqs, AddNew(s) PROVE StoreInv'
  BY <1>2, AddNewType, AddNewInbox, AddNewGuard, AddNewReplay DEF StoreInv
<1>. QED
  BY <1>1, <1>2 DEF StoreNext, Add, AddDuplicate

\* An empty store satisfies it.
LEMMA StoreInvInit == StoreInit => StoreInv
<1>1. IsFiniteSet({}) /\ Cardinality({}) = 0
  BY FS_EmptySet
<1>. QED
  BY <1>1, Caps DEF StoreInit, StoreInv, StoreTypeOK, InboxIsNewestWindow,
     GuardIsNextWindow, ReplayOnlyBeyondGuard

-----------------------------------------------------------------------------
LEMMA StoreAlways == StoreSpec => []StoreInv
  BY StoreInvInit, StoreInvStep, PTL DEF StoreSpec

(***************************************************************************)
(* For every capacity: whatever arrives in whatever order, the inbox holds *)
(* the newest accepted messages (Add and trimTx of store.go).              *)
(***************************************************************************)
THEOREM StoreCorrect == StoreSpec => []InboxIsNewestWindow
  BY StoreAlways, PTL DEF StoreInv

(***************************************************************************)
(* The guard is the window right below the inbox: a late message pushes    *)
(* one seq from each of the two windows into the next (trimTx).            *)
(***************************************************************************)
THEOREM GuardCorrect == StoreSpec => []GuardIsNextWindow
  BY StoreAlways, PTL DEF StoreInv

(***************************************************************************)
(* A message is reported new twice only when it is older than a full inbox *)
(* and a full guard (Add of store.go).                                     *)
(***************************************************************************)
THEOREM ReplayRecognised == StoreSpec => []ReplayOnlyBeyondGuard
  BY StoreAlways, PTL DEF StoreInv
=============================================================================
