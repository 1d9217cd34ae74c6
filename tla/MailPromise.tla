---------------------------- MODULE MailPromise -----------------------------
(***************************************************************************)
(* What two daemons promise the clients of one message stream, without     *)
(* journals, packets, retries or restarts.  A submitted message is taken   *)
(* over by the receiving daemon at some later time, once; the sending      *)
(* daemon forgets it only after that, and never goes back on it.           *)
(***************************************************************************)
EXTENDS Naturals

CONSTANT Seqs

VARIABLES submitted,   \* the sender's client was given this seq
          accepted,    \* committed by the receiving daemon
          confirmed    \* acknowledged to the sending daemon

promiseVars == <<submitted, accepted, confirmed>>

PromiseInit == submitted = {} /\ accepted = {} /\ confirmed = {}

\* A seq is given out once, even if the message before it is long confirmed.
Submit(s) == /\ s \notin submitted
             /\ submitted' = submitted \cup {s}
             /\ UNCHANGED <<accepted, confirmed>>

Accept(s) == /\ s \in submitted \ accepted
             /\ accepted' = accepted \cup {s}
             /\ UNCHANGED <<submitted, confirmed>>

Confirm(s) == /\ s \in accepted \ confirmed
              /\ confirmed' = confirmed \cup {s}
              /\ UNCHANGED <<submitted, accepted>>

PromiseNext == \E s \in Seqs : Submit(s) \/ Accept(s) \/ Confirm(s)

PromiseSpec == PromiseInit /\ [][PromiseNext]_promiseVars
=============================================================================
