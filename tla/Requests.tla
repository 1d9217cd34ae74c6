------------------------------ MODULE Requests ------------------------------
(***************************************************************************)
(* The client's end of the daemon connection (client/aimless/daemon.py,    *)
(* class DaemonClient): one reader thread that owns the socket and makes   *)
(* it again when it breaks, and any number of threads that send a request  *)
(* and wait for its answer.  They share the attributes _sock, _generation  *)
(* and _want_reconnect without a lock.                                     *)
(*                                                                         *)
(* Until an answer has carried a request id, requests go one at a time     *)
(* and take the first answer of their kind (the legacy path); afterwards   *)
(* each has a mailbox under its own id (the multiplex path).               *)
(*                                                                         *)
(* No property depends on the order in which the daemon answers, so what   *)
(* is on its way is kept in sets.  An answer names the request, which of   *)
(* its transmissions it answers, and whether it is an error.               *)
(***************************************************************************)
EXTENDS Naturals, FiniteSets

CONSTANTS Reqs,      \* calls of DaemonClient.request
          Op,          \* the operation each of them asks for
          GivenUp,     \* those of them that have timed out when a behaviour begins
          MaxConns     \* bound: the daemon accepts this many connections

ASSUME ConnsAssumption == MaxConns \in Nat \ {0}
ASSUME GivenUpAssumption == GivenUp \subseteq Reqs

VARIABLES sock,        \* _sock: the connection it refers to, 0 for None
          gen,         \* _generation
          want,        \* _want_reconnect
          multiplex,   \* _multiplex
          reader,      \* what the reader thread does
          conn,        \* connections made so far; the last one is conn
          open,        \* the last connection is open at both ends
          wire,        \* requests on it: <<request, transmission>>
          replies,     \* answers on it: <<request, transmission, ok>>
          raw,         \* _raw: answers without a mailbox
          box,         \* _pending: the mailbox of each request
          pc,          \* what each requesting thread does
          legacy,      \* requests on the legacy path
          sentGen,     \* sent_gen of each thread
          hold,        \* the socket a thread is sending on
          sends,       \* history: transmissions of each request
          startGen,    \* history: the generation at which each began
          answer       \* history: the requests whose answer each returned

linkVars == <<sock, gen, want, reader, conn, open>>
dataVars == <<wire, replies, raw, box, multiplex>>
callVars == <<pc, legacy, sentGen, hold, sends, startGen, answer>>
vars == <<linkVars, dataVars, callVars>>

Active == {"check", "regen", "load", "send", "stamp", "retry", "wait"}

-----------------------------------------------------------------------------
\* n for a call that has been made, and has timed out.
Earlier(n) == [r \in Reqs |-> IF r \in GivenUp THEN n ELSE 0]

\* __init__ has connected, and the reader runs.  Perhaps a first request has
\* been answered already: the window asks whoami before anything else.  Calls
\* before that one have timed out, and their answers, come too late, lie in _raw.
Init == /\ sock = 1 /\ gen = 1 /\ conn = 1 /\ open = TRUE
        /\ want = FALSE /\ multiplex \in BOOLEAN
        /\ reader = "read"
        /\ wire = {} /\ replies = {}
        /\ raw = {<<r, 1, TRUE>> : r \in GivenUp}
        /\ box = [r \in Reqs |-> {}]
        /\ pc = [r \in Reqs |-> IF r \in GivenUp THEN "failed" ELSE "idle"]
        /\ legacy = GivenUp
        /\ hold = Earlier(0)
        /\ sentGen = Earlier(1) /\ sends = Earlier(1) /\ startGen = Earlier(1)
        /\ answer = [r \in Reqs |-> {}]

-----------------------------------------------------------------------------
\* The daemon, and the socket or the tunnel to it.

\* A request is carried out and answered, perhaps with an error.
Execute(q, ok) ==
    /\ q \in wire
    /\ wire' = wire \ {q}
    /\ replies' = replies \cup {<<q[1], q[2], ok>>}
    /\ UNCHANGED <<linkVars, raw, box, multiplex, callVars>>

\* The connection breaks.  Requests on their way are lost, or are carried out
\* without an answer.
Break == /\ open
         /\ open' = FALSE
         /\ wire' = {}
         /\ UNCHANGED <<sock, gen, want, reader, conn, replies, raw, box, multiplex,
                        callVars>>

-----------------------------------------------------------------------------
\* The reader thread: _read_loop and _reader_reconnect.

\* A line is handed to the mailbox of its request, or to _raw.
ReadLine(a) ==
    /\ reader = "read" /\ a \in replies
    /\ replies' = replies \ {a}
    /\ IF a[1] \notin legacy /\ pc[a[1]] \in Active
       THEN box' = [box EXCEPT ![a[1]] = @ \cup {a}] /\ UNCHANGED raw
       ELSE raw' = raw \cup {a} /\ UNCHANGED box
    /\ reader' = IF want THEN "lost" ELSE "read"
    /\ UNCHANGED <<sock, gen, want, conn, open, wire, multiplex, callVars>>

\* End of file, with answers perhaps lost.
ReadEnd == /\ reader = "read" /\ ~open
           /\ want' = TRUE
           /\ reader' = "lost"
           /\ UNCHANGED <<sock, gen, conn, open, dataVars, callVars>>

\* _close_socket.
Shut == /\ reader = "lost"
        /\ sock' = 0 /\ open' = FALSE
        /\ wire' = {} /\ replies' = {}
        /\ reader' = "closed"
        /\ UNCHANGED <<gen, want, conn, raw, box, multiplex, callVars>>

\* _connect sets the socket first ...
Connect == /\ reader = "closed"
           /\ conn < MaxConns
           /\ conn' = conn + 1
           /\ sock' = conn + 1 /\ open' = TRUE
           /\ reader' = "connected"
           /\ UNCHANGED <<gen, want, dataVars, callVars>>

\* ... then the generation ...
Bump == /\ reader = "connected"
        /\ gen' = gen + 1
        /\ reader' = "bumped"
        /\ UNCHANGED <<sock, want, conn, open, dataVars, callVars>>

\* ... and only then is the request to reconnect withdrawn.
Clear == /\ reader = "bumped"
         /\ want' = FALSE
         /\ reader' = "read"
         /\ UNCHANGED <<sock, gen, conn, open, dataVars, callVars>>

-----------------------------------------------------------------------------
\* A requesting thread.

\* The path is chosen once.  A legacy call takes the round-trip lock before
\* it looks at the generation.
Start(r) ==
    /\ pc[r] = "idle"
    /\ IF multiplex
       THEN /\ pc' = [pc EXCEPT ![r] = "check"]
            /\ sentGen' = [sentGen EXCEPT ![r] = gen]
            /\ startGen' = [startGen EXCEPT ![r] = gen]
            /\ UNCHANGED legacy
       ELSE /\ pc' = [pc EXCEPT ![r] = "lock"]
            /\ legacy' = legacy \cup {r}
            /\ UNCHANGED <<sentGen, startGen>>
    /\ UNCHANGED <<linkVars, dataVars, hold, sends, answer>>

\* Deviation: legacy calls do not exclude each other.
AcquireNoLock(r) ==
    /\ pc[r] = "lock"
    /\ pc' = [pc EXCEPT ![r] = "check"]
    /\ sentGen' = [sentGen EXCEPT ![r] = gen]
    /\ startGen' = [startGen EXCEPT ![r] = gen]
    /\ UNCHANGED <<linkVars, dataVars, legacy, hold, sends, answer>>

Acquire(r) == /\ pc[r] = "lock"
              /\ \A s \in legacy : pc[s] \notin Active
              /\ pc' = [pc EXCEPT ![r] = "check"]
              /\ sentGen' = [sentGen EXCEPT ![r] = gen]
              /\ startGen' = [startGen EXCEPT ![r] = gen]
              /\ UNCHANGED <<linkVars, dataVars, legacy, hold, sends, answer>>

\* Before the first transmission: is there a connection to use?
Check(r) == /\ pc[r] = "check"
            /\ pc' = [pc EXCEPT ![r] = IF sock = 0 \/ want THEN "regen" ELSE "load"]
            /\ UNCHANGED <<linkVars, dataVars, legacy, sentGen, hold, sends, startGen, answer>>

\* _wait_generation_change sees another generation: transmit again.
Regenerated(r) == /\ pc[r] \in {"regen", "retry"}
                  /\ gen # sentGen[r]
                  /\ pc' = [pc EXCEPT ![r] = IF @ = "regen" THEN "load" ELSE "check"]
                  /\ UNCHANGED <<linkVars, dataVars, legacy, sentGen, hold, sends,
                                 startGen, answer>>

\* Deviation: the wait goes on while a reconnect is wanted.
UnreachableNever(r) == /\ pc[r] \in {"regen", "retry"}
                       /\ gen = sentGen[r] /\ ~want
                       /\ pc' = [pc EXCEPT ![r] = "failed"]
                       /\ box' = [box EXCEPT ![r] = {}]
                       /\ UNCHANGED <<linkVars, wire, replies, raw, multiplex, legacy,
                                      sentGen, hold, sends, startGen, answer>>

\* It sees none in 10 s.
Unreachable(r) == /\ pc[r] \in {"regen", "retry"}
                  /\ gen = sentGen[r]
                  /\ pc' = [pc EXCEPT ![r] = "failed"]
                  /\ box' = [box EXCEPT ![r] = {}]
                  /\ UNCHANGED <<linkVars, wire, replies, raw, multiplex, legacy, sentGen,
                                 hold, sends, startGen, answer>>

\* The sender reads self._sock; on the multiplex path under the send lock.
Load(r) == /\ pc[r] = "load"
           /\ r \notin legacy =>
                \A s \in Reqs \ legacy : pc[s] \notin {"send", "stamp"}
           /\ hold' = [hold EXCEPT ![r] = sock]
           /\ pc' = [pc EXCEPT ![r] = "send"]
           /\ UNCHANGED <<linkVars, dataVars, legacy, sentGen, sends, startGen, answer>>

\* Deviation: a failed transmission counts as one on the present connection.
SendStampsFailure(r) ==
    /\ pc[r] = "send"
    /\ IF open /\ hold[r] = conn
       THEN /\ wire' = wire \cup {<<r, sends[r] + 1>>}
            /\ sends' = [sends EXCEPT ![r] = @ + 1]
            /\ pc' = [pc EXCEPT ![r] = "stamp"]
            /\ UNCHANGED <<want, sentGen>>
       ELSE /\ want' = TRUE
            /\ pc' = [pc EXCEPT ![r] = "retry"]
            /\ sentGen' = [sentGen EXCEPT ![r] = gen]
            /\ UNCHANGED <<wire, sends>>
    /\ hold' = [hold EXCEPT ![r] = 0]
    /\ UNCHANGED <<sock, gen, reader, conn, open, replies, raw, box, multiplex,
                   legacy, startGen, answer>>

\* sendall works on the open connection only.
Send(r) ==
    /\ pc[r] = "send"
    /\ IF open /\ hold[r] = conn
       THEN /\ wire' = wire \cup {<<r, sends[r] + 1>>}
            /\ sends' = [sends EXCEPT ![r] = @ + 1]
            /\ pc' = [pc EXCEPT ![r] = "stamp"]
            /\ UNCHANGED want
       ELSE /\ want' = TRUE
            /\ pc' = [pc EXCEPT ![r] = "retry"]
            /\ UNCHANGED <<wire, sends>>
    /\ hold' = [hold EXCEPT ![r] = 0]
    /\ UNCHANGED <<sock, gen, reader, conn, open, replies, raw, box, multiplex,
                   legacy, sentGen, startGen, answer>>

\* Deviation: sent_gen keeps the generation at which the call began.
StampNot(r) == /\ pc[r] = "stamp"
               /\ pc' = [pc EXCEPT ![r] = "wait"]
               /\ UNCHANGED <<linkVars, dataVars, legacy, sentGen, hold, sends,
                              startGen, answer>>

\* sent_gen is read after the transmission, from a generation that may by
\* then be another connection's.
Stamp(r) == /\ pc[r] = "stamp"
            /\ sentGen' = [sentGen EXCEPT ![r] = gen]
            /\ pc' = [pc EXCEPT ![r] = "wait"]
            /\ UNCHANGED <<linkVars, dataVars, legacy, hold, sends, startGen, answer>>

\* Every half second the waiting thread looks at the connection again.
Lost(r) == /\ pc[r] = "wait"
           /\ sock = 0 \/ want
           /\ pc' = [pc EXCEPT ![r] = "regen"]
           /\ UNCHANGED <<linkVars, dataVars, legacy, sentGen, hold, sends, startGen, answer>>

\* The mailbox of a multiplexed call holds its own answers; an error raises.
TakeOwn(r, a) ==
    /\ pc[r] = "wait" /\ r \notin legacy /\ a \in box[r]
    /\ pc' = [pc EXCEPT ![r] = IF a[3] THEN "ok" ELSE "failed"]
    /\ answer' = [answer EXCEPT ![r] = {a[1]}]
    /\ box' = [box EXCEPT ![r] = {}]
    /\ UNCHANGED <<linkVars, wire, replies, raw, multiplex, legacy, sentGen, hold, sends,
                   startGen>>

\* A legacy call takes any answer of its kind from _raw, whoever asked for it;
\* other answers, errors among them, are stashed and never looked at again.
TakeRaw(r, a) ==
    /\ pc[r] = "wait" /\ r \in legacy /\ a \in raw
    /\ raw' = raw \ {a}
    /\ IF a[3] /\ Op[a[1]] = Op[r]
       THEN /\ pc' = [pc EXCEPT ![r] = "ok"]
            /\ answer' = [answer EXCEPT ![r] = {a[1]}]
            /\ multiplex' = TRUE
       ELSE UNCHANGED <<pc, answer, multiplex>>
    /\ UNCHANGED <<linkVars, wire, replies, box, legacy, sentGen, hold, sends, startGen>>

\* The deadline passes.
Timeout(r) == /\ pc[r] = "wait"
              /\ pc' = [pc EXCEPT ![r] = "failed"]
              /\ box' = [box EXCEPT ![r] = {}]
              /\ UNCHANGED <<linkVars, wire, replies, raw, multiplex, legacy, sentGen,
                             hold, sends, startGen, answer>>

-----------------------------------------------------------------------------
DaemonStep == \E q \in wire, ok \in BOOLEAN : Execute(q, ok)

ReaderStep == \/ \E a \in replies : ReadLine(a)
              \/ ReadEnd \/ Shut \/ Connect \/ Bump \/ Clear

CallStep(r) == \/ Acquire(r) \/ Check(r) \/ Regenerated(r) \/ Unreachable(r)
               \/ Load(r) \/ Send(r) \/ Stamp(r) \/ Lost(r)
               \/ \E a \in box[r] : TakeOwn(r, a)
               \/ \E a \in raw : TakeRaw(r, a)
               \/ Timeout(r)

Next == \/ DaemonStep
        \/ Break
        \/ ReaderStep
        \/ \E r \in Reqs : Start(r) \/ CallStep(r)

\* The threads run, and a daemon that is connected answers.  Nothing makes a
\* connection break or a thread ask.
Fairness == /\ WF_vars(DaemonStep) /\ WF_vars(ReaderStep)
            /\ \A r \in Reqs : WF_vars(CallStep(r))

Spec == Init /\ [][Next]_vars /\ Fairness

-----------------------------------------------------------------------------
Ended == {"ok", "failed"}

(***************************************************************************)
(* A request goes out once, and once more for each connection made while   *)
(* its call lasts: the loops of _request_legacy and _request_multiplex     *)
(* (daemon.py:141-158, 192-211) never repeat it on the same connection,    *)
(* whatever the reader does between two reads of the shared attributes.    *)
(***************************************************************************)
OncePerConnection ==
    \A r \in Reqs : pc[r] \notin {"idle", "lock"} => sends[r] <= 1 + gen - startGen[r]

\* An answer to the call may come when nobody waits for it.
Late(s) == pc[s] = "failed" \/ sends[s] > 1

\* The call has returned the answer to another one.
Misled(s) == answer[s] # {} /\ s \notin answer[s]

(***************************************************************************)
(* A call returns the answer to another request only on the legacy path,   *)
(* which matches answers by operation (daemon.py:168-176), only for the    *)
(* same operation, and only if that other request timed out, had been      *)
(* transmitted twice, or had itself been given another's answer, so that   *)
(* its own was left over.  Where such a chain begins there is a request    *)
(* that timed out or was transmitted twice.                                *)
(***************************************************************************)
ForeignAnswerIsLate ==
    \A r \in Reqs : \A s \in answer[r] \ {r} :
       /\ r \in legacy /\ Op[s] = Op[r]
       /\ Late(s) \/ Misled(s)
       /\ \E t \in Reqs : Late(t)

\* A call whose transmission was for an earlier connection than the last one.
Gone(r) == conn = MaxConns /\ sock = 0 /\ sentGen[r] < gen

(***************************************************************************)
(* Every call comes to an end (the deadlines of daemon.py:88-94, 212-214), *)
(* unless the daemon goes away for good after a reconnect that the call    *)
(* has not transmitted on.  Such a call finds a generation other than its  *)
(* sent_gen at every look, so no wait ever times out.                      *)
(***************************************************************************)
CallEndsUnlessGone ==
    \A r \in Reqs :
       (pc[r] = "lock" \/ pc[r] \in Active)
          ~> (pc[r] \in Ended \/ \E s \in Reqs : pc[s] \in Active /\ Gone(s))

(***************************************************************************)
(* A sender that fails on a socket the reader has already replaced asks    *)
(* for a reconnect nobody needs, while the reader blocks in readline on    *)
(* the new connection (daemon.py:204-206, 96-103).  The sender's own       *)
(* repetition brings the line that wakes the reader, so the client does    *)
(* not stay unusable on a connection that works.                           *)
(***************************************************************************)
ReconnectIsSeen == (want /\ reader = "read") ~> (reader # "read")
=============================================================================
