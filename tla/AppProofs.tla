------------------------------ MODULE AppProofs -----------------------------
(***************************************************************************)
(* The client application, in two parts.  Its connection to the daemon     *)
(* (Requests) for any number of calling threads and of connections: a      *)
(* request is never repeated on one connection, and a call that returns    *)
(* another's answer found one that was left over.  Its life (App) for any  *)
(* number of processes and of faults: no ssh is forgotten, and a quit      *)
(* leaves no daemon.                                                       *)
(***************************************************************************)
EXTENDS Requests, App, FiniteSetTheorems, TLAPS

ReqPcs == {"idle", "lock"} \cup Active \cup Ended

(***************************************************************************)
(* A thread's own variables, against the generation it compares them with. *)
(***************************************************************************)
CallTypes ==
    /\ gen \in Nat
    /\ pc \in [Reqs -> ReqPcs]
    /\ sends \in [Reqs -> Nat]
    /\ sentGen \in [Reqs -> Nat]
    /\ startGen \in [Reqs -> Nat]
    /\ \A r \in Reqs : startGen[r] <= sentGen[r] /\ sentGen[r] <= gen

(***************************************************************************)
(* The count of transmissions, by where the thread is.  A thread about to  *)
(* transmit has one in hand: it has sent at most once per generation it    *)
(* saw before this one.  A waiting thread has used it up to its sent_gen,  *)
(* and only a generation other than that gives it a new one.  That is why  *)
(* the order in Stamp, the generation read after the transmission, matters *)
(* and why a reconnect it overlooks can only make it send less.            *)
(***************************************************************************)
Budget(r) ==
    CASE pc[r] \in {"idle", "lock"} -> sends[r] = 0
      [] pc[r] \in {"check", "load", "send", "retry"} -> sends[r] + startGen[r] <= gen
      [] pc[r] = "regen" -> \/ sends[r] + startGen[r] <= gen
                            \/ sends[r] + startGen[r] <= 1 + sentGen[r]
      [] pc[r] = "wait" -> sends[r] + startGen[r] <= 1 + sentGen[r]
      [] OTHER -> sends[r] + startGen[r] <= 1 + gen

OnceInv == CallTypes /\ \A r \in Reqs : Budget(r)

LEMMA OnceInit == Init => OnceInv
  <1> SUFFICES ASSUME Init PROVE OnceInv
    OBVIOUS
  <1>1. /\ gen = 1 /\ sends = Earlier(1) /\ sentGen = Earlier(1) /\ startGen = Earlier(1)
        /\ pc = [r \in Reqs |-> IF r \in GivenUp THEN "failed" ELSE "idle"]
    BY DEF Init
  <1>2. \A r \in Reqs : /\ Earlier(1)[r] = IF r \in GivenUp THEN 1 ELSE 0
                        /\ pc[r] = IF r \in GivenUp THEN "failed" ELSE "idle"
    BY <1>1 DEF Earlier
  <1>3. Earlier(1) \in [Reqs -> Nat] /\ pc \in [Reqs -> ReqPcs]
    BY <1>1 DEF Earlier, ReqPcs, Ended
  <1>4. QED
    BY <1>1, <1>2, <1>3 DEF OnceInv, CallTypes, Budget

-----------------------------------------------------------------------------
\* Steps of the daemon and of the reader change nothing a thread owns, and the
\* generation only grows.
LEMMA OthersKeepOnce ==
    ASSUME OnceInv, gen' \in Nat, gen <= gen',
           UNCHANGED <<pc, sends, sentGen, startGen>>
    PROVE  OnceInv'
  <1>1. CallTypes'
    BY DEF OnceInv, CallTypes
  <1>2. ASSUME NEW r \in Reqs PROVE Budget(r)'
    <2>1. /\ sends[r] \in Nat /\ sentGen[r] \in Nat /\ startGen[r] \in Nat
          /\ gen \in Nat /\ Budget(r)
      BY DEF OnceInv, CallTypes
    <2>2. QED
      BY <2>1 DEF Budget
  <1>3. QED
    BY <1>1, <1>2 DEF OnceInv

LEMMA DaemonKeepsOnce ==
    OnceInv /\ (DaemonStep \/ Break \/ ReaderStep) => OnceInv'
  <1> SUFFICES ASSUME OnceInv, DaemonStep \/ Break \/ ReaderStep
               PROVE  OnceInv'
    OBVIOUS
  <1>1. gen' \in Nat /\ gen <= gen' /\ UNCHANGED <<pc, sends, sentGen, startGen>>
    BY DEF OnceInv, CallTypes, DaemonStep, Execute, Break, ReaderStep, ReadLine, ReadEnd,
           Shut, Connect, Bump, Clear, linkVars, callVars
  <1>2. QED
    BY <1>1, OthersKeepOnce

-----------------------------------------------------------------------------
\* A step of thread r: the other threads are as they were.
LEMMA ThreadKeepsOnce ==
    ASSUME OnceInv, NEW r \in Reqs, gen' = gen,
           NEW p \in ReqPcs, pc' = [pc EXCEPT ![r] = p],
           NEW n \in Nat, sends' = [sends EXCEPT ![r] = n],
           NEW g \in Nat, sentGen' = [sentGen EXCEPT ![r] = g],
           NEW h \in Nat, startGen' = [startGen EXCEPT ![r] = h],
           h <= g, g <= gen,
           Budget(r)'
    PROVE  OnceInv'
  <1>1. CallTypes'
    BY DEF OnceInv, CallTypes
  <1>2. ASSUME NEW s \in Reqs, s # r PROVE Budget(s)'
    <2>1. /\ pc'[s] = pc[s] /\ sends'[s] = sends[s] /\ sentGen'[s] = sentGen[s]
          /\ startGen'[s] = startGen[s]
      BY <1>2 DEF OnceInv, CallTypes
    <2>2. Budget(s)
      BY DEF OnceInv
    <2>3. QED
      BY <2>1, <2>2 DEF Budget
  <1>3. QED
    BY <1>1, <1>2 DEF OnceInv

LEMMA CallKeepsOnce ==
    ASSUME OnceInv, NEW r \in Reqs, Start(r) \/ CallStep(r)
    PROVE  OnceInv'
  <1> USE DEF linkVars, Active, Ended, ReqPcs
  <1>1. /\ gen \in Nat /\ pc[r] \in ReqPcs /\ sends[r] \in Nat /\ sentGen[r] \in Nat
        /\ startGen[r] \in Nat /\ startGen[r] <= sentGen[r] /\ sentGen[r] <= gen
        /\ pc \in [Reqs -> ReqPcs] /\ sends \in [Reqs -> Nat]
        /\ sentGen \in [Reqs -> Nat] /\ startGen \in [Reqs -> Nat]
        /\ Budget(r)
    BY DEF OnceInv, CallTypes
  <1>2. /\ sends = [sends EXCEPT ![r] = sends[r]] /\ pc = [pc EXCEPT ![r] = pc[r]]
        /\ sentGen = [sentGen EXCEPT ![r] = sentGen[r]]
        /\ startGen = [startGen EXCEPT ![r] = startGen[r]]
    BY <1>1
  <1>3. gen' = gen
    BY DEF Start, CallStep, Acquire, Check, Regenerated, Unreachable, Load, Send, Stamp,
           Lost, TakeOwn, TakeRaw, Timeout
  <1>4. CASE Start(r) \/ Acquire(r)
    <2>1. /\ \E p \in {"lock", "check"} : pc' = [pc EXCEPT ![r] = p]
          /\ sends' = sends
          /\ \/ /\ pc'[r] = "lock" /\ UNCHANGED <<sentGen, startGen>>
             \/ /\ sentGen' = [sentGen EXCEPT ![r] = gen]
                /\ startGen' = [startGen EXCEPT ![r] = gen]
          /\ sends[r] = 0
      BY <1>1, <1>4 DEF Start, Acquire, Budget
    <2>2. Budget(r)'
      BY <1>1, <1>3, <2>1 DEF Budget
    <2>3. PICK p \in ReqPcs : pc' = [pc EXCEPT ![r] = p]
      BY <2>1
    <2>4. CASE UNCHANGED <<sentGen, startGen>>
      BY <1>1, <1>2, <1>3, <2>1, <2>2, <2>3, <2>4, ThreadKeepsOnce
    <2>5. CASE /\ sentGen' = [sentGen EXCEPT ![r] = gen]
               /\ startGen' = [startGen EXCEPT ![r] = gen]
      <3>1. gen <= gen /\ sends' = [sends EXCEPT ![r] = sends[r]]
        BY <1>1, <1>2, <2>1
      <3>2. QED
        BY <1>1, <1>3, <2>2, <2>3, <2>5, <3>1, ThreadKeepsOnce, Zenon
    <2>6. QED
      BY <2>1, <2>4, <2>5
  <1>5. CASE Check(r) \/ Regenerated(r) \/ Unreachable(r) \/ Load(r) \/ Lost(r) \/ Timeout(r)
    <2>1. UNCHANGED <<sends, sentGen, startGen>>
      BY <1>5 DEF Check, Regenerated, Unreachable, Load, Lost, Timeout
    <2>2. PICK p \in ReqPcs : pc' = [pc EXCEPT ![r] = p]
      BY <1>1, <1>5 DEF Check, Regenerated, Unreachable, Load, Lost, Timeout
    <2>3. Budget(r)'
      <3>1. CASE Check(r)
        BY <1>1, <1>3, <2>1, <3>1 DEF Check, Budget
      <3>2. CASE Regenerated(r)
        BY <1>1, <1>3, <2>1, <3>2 DEF Regenerated, Budget
      <3>3. CASE Unreachable(r)
        BY <1>1, <1>3, <2>1, <3>3 DEF Unreachable, Budget
      <3>4. CASE Load(r)
        BY <1>1, <1>3, <2>1, <3>4 DEF Load, Budget
      <3>5. CASE Lost(r)
        BY <1>1, <1>3, <2>1, <3>5 DEF Lost, Budget
      <3>6. CASE Timeout(r)
        BY <1>1, <1>3, <2>1, <3>6 DEF Timeout, Budget
      <3>7. QED
        BY <1>5, <3>1, <3>2, <3>3, <3>4, <3>5, <3>6
    <2>4. QED
      BY <1>1, <1>2, <1>3, <2>1, <2>2, <2>3, ThreadKeepsOnce
  <1>6. CASE Send(r)
    <2>1. /\ UNCHANGED <<sentGen, startGen>>
          /\ \/ /\ pc' = [pc EXCEPT ![r] = "stamp"]
                /\ sends' = [sends EXCEPT ![r] = sends[r] + 1]
             \/ /\ pc' = [pc EXCEPT ![r] = "retry"]
                /\ UNCHANGED sends
          /\ sends[r] + startGen[r] <= gen
      BY <1>1, <1>6 DEF Send, Budget
    <2>2. Budget(r)'
      BY <1>1, <1>3, <2>1 DEF Budget
    <2>3. PICK p \in ReqPcs : pc' = [pc EXCEPT ![r] = p]
      BY <2>1
    <2>4. PICK n \in Nat : sends' = [sends EXCEPT ![r] = n]
      BY <1>1, <1>2, <2>1
    <2>5. QED
      BY <1>1, <1>2, <1>3, <2>1, <2>2, <2>3, <2>4, ThreadKeepsOnce
  <1>7. CASE Stamp(r)
    <2>1. /\ UNCHANGED <<sends, startGen>>
          /\ pc' = [pc EXCEPT ![r] = "wait"]
          /\ sentGen' = [sentGen EXCEPT ![r] = gen]
          /\ sends[r] + startGen[r] <= 1 + gen
      BY <1>1, <1>7 DEF Stamp, Budget
    <2>2. Budget(r)'
      BY <1>1, <1>3, <2>1 DEF Budget
    <2>3. startGen[r] <= gen /\ gen <= gen /\ "wait" \in ReqPcs
      BY <1>1
    <2>4. /\ sends' = [sends EXCEPT ![r] = sends[r]]
          /\ startGen' = [startGen EXCEPT ![r] = startGen[r]]
      BY <1>2, <2>1
    <2>5. QED
      BY <1>1, <1>3, <2>1, <2>2, <2>3, <2>4, ThreadKeepsOnce, Zenon
  <1>8. CASE (\E a \in box[r] : TakeOwn(r, a)) \/ (\E a \in raw : TakeRaw(r, a))
    <2>1. /\ UNCHANGED <<sends, sentGen, startGen>>
          /\ \E p \in {"wait", "ok", "failed"} : pc' = [pc EXCEPT ![r] = p]
          /\ sends[r] + startGen[r] <= 1 + sentGen[r]
      BY <1>1, <1>2, <1>8 DEF TakeOwn, TakeRaw, Budget
    <2>2. Budget(r)'
      BY <1>1, <1>3, <2>1 DEF Budget
    <2>3. QED
      BY <1>1, <1>2, <1>3, <2>1, <2>2, ThreadKeepsOnce
  <1>9. QED
    BY <1>4, <1>5, <1>6, <1>7, <1>8 DEF CallStep

LEMMA OnceStep == OnceInv /\ [Next]_vars => OnceInv'
  <1> SUFFICES ASSUME OnceInv, [Next]_vars
               PROVE  OnceInv'
    OBVIOUS
  <1>1. CASE UNCHANGED vars
    <2>1. gen' \in Nat /\ gen <= gen' /\ UNCHANGED <<pc, sends, sentGen, startGen>>
      BY <1>1 DEF OnceInv, CallTypes, vars, linkVars, callVars
    <2>2. QED
      BY <2>1, OthersKeepOnce
  <1>2. CASE Next
    BY <1>2, DaemonKeepsOnce, CallKeepsOnce DEF Next
  <1>3. QED
    BY <1>1, <1>2

LEMMA OnceImplies == OnceInv => OncePerConnection
  BY DEF OnceInv, CallTypes, Budget, OncePerConnection, ReqPcs, Active, Ended

(***************************************************************************)
(* A request is transmitted at most once for each connection made while    *)
(* its call lasts (_request_legacy and _request_multiplex, daemon.py),     *)
(* for any number of threads, connections and requests, whatever the       *)
(* reader does between two accesses to the attributes they share.          *)
(***************************************************************************)
THEOREM RequestedOncePerConnection == Spec => []OncePerConnection
  <1>1. Spec => []OnceInv
    BY OnceInit, OnceStep, PTL DEF Spec
  <1>2. QED
    BY <1>1, OnceImplies, PTL
-----------------------------------------------------------------------------
AtMostOne(S) == \A x, y \in S : x = y

\* Where the transmissions of a call and their answers are.
Flight(s) == ({"wire"} \X {q \in wire : q[1] = s})
               \cup ({"replies"} \X {a \in replies : a[1] = s})
               \cup ({"raw"} \X {a \in raw : a[1] = s})
               \cup ({"box"} \X box[s])

FlightTypes ==
    /\ legacy \subseteq Reqs /\ answer \in [Reqs -> SUBSET Reqs]
    /\ \A m \in wire \cup replies \cup raw : m[1] \in Reqs
    /\ DOMAIN box = Reqs
    /\ \A r \in Reqs : \A a \in box[r] : a[1] = r

(***************************************************************************)
(* What makes ForeignAnswerIsLate inductive.  A request transmitted once   *)
(* is in one place, on the wire or as an answer; a call that has returned  *)
(* its own answer has left nothing behind; an answer goes to _raw only if  *)
(* its call takes from there, or has ended.                                *)
(***************************************************************************)
CallFlight(s) ==
    /\ pc[s] = "idle" => s \notin legacy
    /\ pc[s] = "lock" => s \in legacy
    /\ pc[s] \in Ended \/ answer[s] = {}
    /\ pc[s] = "ok" => answer[s] # {}
    /\ sends[s] = 0 => Flight(s) = {}
    /\ sends[s] = 1 => AtMostOne(Flight(s))
    /\ pc[s] = "ok" /\ s \in answer[s] /\ sends[s] = 1 => Flight(s) = {}
    /\ (\E a \in raw : a[1] = s) /\ s \notin legacy => pc[s] \notin Active

\* The round-trip lock.
OneLegacy == \A r, s \in legacy : pc[r] \in Active /\ pc[s] \in Active => r = s

FlightInv == FlightTypes /\ OneLegacy /\ \A s \in Reqs : CallFlight(s)

LEMMA FlightInit == Init => FlightInv
  <1> SUFFICES ASSUME Init PROVE FlightInv
    OBVIOUS
  <1>1. /\ wire = {} /\ replies = {} /\ raw = {<<r, 1, TRUE>> : r \in GivenUp}
        /\ legacy = GivenUp /\ sends = Earlier(1)
        /\ box = [r \in Reqs |-> {}] /\ answer = [r \in Reqs |-> {}]
        /\ pc = [r \in Reqs |-> IF r \in GivenUp THEN "failed" ELSE "idle"]
    BY DEF Init
  <1>2. \A s \in Reqs : /\ sends[s] = IF s \in GivenUp THEN 1 ELSE 0
                        /\ pc[s] = IF s \in GivenUp THEN "failed" ELSE "idle"
                        /\ box[s] = {} /\ answer[s] = {}
    BY <1>1 DEF Earlier
  <1>3. (\A a \in raw : a[1] \in GivenUp) /\ \A a, b \in raw : a[1] = b[1] => a = b
    <2>1. \A a \in raw : \E r \in GivenUp : a = <<r, 1, TRUE>>
      BY <1>1, Zenon
    <2>2. \A r, t : <<r, 1, t>>[1] = r
      OBVIOUS
    <2>3. ASSUME NEW a \in raw PROVE a[1] \in GivenUp /\ a = <<a[1], 1, TRUE>>
      <3>1. PICK r \in GivenUp : a = <<r, 1, TRUE>>
        BY <2>1, Zenon
      <3>2. a[1] = r
        BY <2>2, <3>1, Zenon
      <3>3. QED
        BY <3>1, <3>2, Zenon
    <2>4. QED
      BY <2>3, Zenon
  <1>4. FlightTypes
    BY <1>1, <1>2, <1>3, GivenUpAssumption DEF FlightTypes
  <1>5. OneLegacy
    BY <1>1, <1>2, GivenUpAssumption DEF OneLegacy, Active
  <1>6. ASSUME NEW s \in Reqs PROVE CallFlight(s)
    <2>1. Flight(s) = {"raw"} \X {a \in raw : a[1] = s}
      BY <1>1, <1>2 DEF Flight
    <2>2. AtMostOne(Flight(s)) /\ (s \notin GivenUp => Flight(s) = {})
      <3>1. \A x \in Flight(s) : \E a \in raw : a[1] = s /\ x = <<"raw", a>>
        BY <2>1
      <3>2. QED
        BY <1>3, <3>1 DEF AtMostOne
    <2>3. QED
      BY <1>1, <1>2, <1>3, <2>2 DEF CallFlight, Active, Ended
  <1>7. QED
    BY <1>4, <1>5, <1>6 DEF FlightInv

-----------------------------------------------------------------------------
\* A message that goes from one place to another stays one.
LEMMA MovedIsOne ==
    ASSUME NEW F, NEW G, NEW x \in F, NEW y, G \subseteq (F \ {x}) \cup {y}, AtMostOne(F)
    PROVE  AtMostOne(G)
  BY DEF AtMostOne

\* Steps of the daemon, of the connection and of the reader: messages move or
\* are lost, and the calls are as they were.
LEMMA LinkKeepsFlight ==
    ASSUME FlightInv, UNCHANGED <<pc, legacy, sends, answer>>, FlightTypes',
           \A s \in Reqs : \/ Flight(s)' \subseteq Flight(s)
                           \/ \E x \in Flight(s) : \E y :
                                 Flight(s)' \subseteq (Flight(s) \ {x}) \cup {y},
           \A s \in Reqs : (\E a \in raw' : a[1] = s) /\ s \notin legacy => pc[s] \notin Active
    PROVE  FlightInv'
  <1>1. OneLegacy'
    BY DEF FlightInv, OneLegacy
  <1>2. ASSUME NEW s \in Reqs PROVE CallFlight(s)'
    <2>1. CallFlight(s)
      BY DEF FlightInv
    <2>2. Flight(s) = {} => Flight(s)' = {}
      OBVIOUS
    <2>3. AtMostOne(Flight(s)) => AtMostOne(Flight(s))'
      <3>1. CASE Flight(s)' \subseteq Flight(s)
        BY <3>1 DEF AtMostOne
      <3>2. CASE \E x \in Flight(s) : \E y : Flight(s)' \subseteq (Flight(s) \ {x}) \cup {y}
        BY <3>2, MovedIsOne DEF AtMostOne
      <3>3. QED
        BY <3>1, <3>2
    <2>4. QED
      BY <2>1, <2>2, <2>3 DEF CallFlight
  <1>3. QED
    BY <1>1, <1>2 DEF FlightInv

LEMMA DaemonKeepsFlight ==
    ASSUME FlightInv, DaemonStep \/ Break \/ ReaderStep
    PROVE  FlightInv'
  <1>1. UNCHANGED <<pc, legacy, sends, answer>>
    BY DEF DaemonStep, Execute, Break, ReaderStep, ReadLine, ReadEnd, Shut, Connect, Bump,
           Clear, callVars
  <1>2. \A s \in Reqs : (\E a \in raw : a[1] = s) /\ s \notin legacy => pc[s] \notin Active
    BY DEF FlightInv, CallFlight
  <1>3. CASE DaemonStep
    <2>1. PICK q \in wire, ok \in BOOLEAN : Execute(q, ok)
      BY <1>3 DEF DaemonStep
    <2>2. DEFINE a == <<q[1], q[2], ok>>
    <2>3. /\ wire' = wire \ {q} /\ replies' = replies \cup {a} /\ UNCHANGED <<raw, box>>
          /\ a[1] = q[1]
      BY <2>1 DEF Execute
    <2> HIDE DEF a
    <2>4. FlightTypes'
      BY <1>1, <2>3 DEF FlightInv, FlightTypes
    <2>5. ASSUME NEW s \in Reqs
          PROVE  \/ Flight(s)' \subseteq Flight(s)
                 \/ \E x \in Flight(s) : \E y : Flight(s)' \subseteq (Flight(s) \ {x}) \cup {y}
      <3>1. CASE s # q[1]
        BY <2>3, <3>1 DEF Flight
      <3>2. CASE s = q[1]
        <4>1. <<"wire", q>> \in Flight(s)
          BY <3>2 DEF Flight
        <4>2. Flight(s)' \subseteq (Flight(s) \ {<<"wire", q>>}) \cup {<<"replies", a>>}
          BY <2>3, <3>2 DEF Flight
        <4>3. QED
          BY <4>1, <4>2
      <3>3. QED
        BY <3>1, <3>2
    <2>6. QED
      BY <1>1, <1>2, <2>3, <2>4, <2>5, LinkKeepsFlight
  <1>4. CASE \E a \in replies : ReadLine(a)
    <2>1. PICK a \in replies : ReadLine(a)
      BY <1>4
    <2>2. a[1] \in Reqs /\ replies' = replies \ {a} /\ UNCHANGED wire
      BY <2>1 DEF ReadLine, FlightInv, FlightTypes
    <2>3. CASE a[1] \notin legacy /\ pc[a[1]] \in Active
      <3>1. box' = [box EXCEPT ![a[1]] = @ \cup {a}] /\ UNCHANGED raw
        BY <2>1, <2>3 DEF ReadLine
      <3>2. /\ box'[a[1]] = box[a[1]] \cup {a} /\ DOMAIN box' = Reqs
            /\ \A s \in Reqs : s # a[1] => box'[s] = box[s]
        BY <2>2, <3>1 DEF FlightInv, FlightTypes
      <3>3. FlightTypes'
        BY <1>1, <2>2, <3>1, <3>2 DEF FlightInv, FlightTypes
      <3>4. ASSUME NEW s \in Reqs
            PROVE  \/ Flight(s)' \subseteq Flight(s)
                   \/ \E x \in Flight(s) : \E y : Flight(s)' \subseteq (Flight(s) \ {x}) \cup {y}
        <4>1. CASE s # a[1]
          BY <2>2, <3>1, <3>2, <4>1 DEF Flight
        <4>2. CASE s = a[1]
          <5>1. <<"replies", a>> \in Flight(s)
            BY <4>2 DEF Flight
          <5>2. Flight(s)' \subseteq (Flight(s) \ {<<"replies", a>>}) \cup {<<"box", a>>}
            BY <2>2, <3>1, <3>2, <4>2 DEF Flight
          <5>3. QED
            BY <5>1, <5>2
        <4>3. QED
          BY <4>1, <4>2
      <3>5. QED
        BY <1>1, <1>2, <3>1, <3>3, <3>4, LinkKeepsFlight
    <2>4. CASE ~(a[1] \notin legacy /\ pc[a[1]] \in Active)
      <3>1. raw' = raw \cup {a} /\ UNCHANGED box
        BY <2>1, <2>4 DEF ReadLine
      <3>2. FlightTypes'
        BY <1>1, <2>2, <3>1 DEF FlightInv, FlightTypes
      <3>3. ASSUME NEW s \in Reqs
            PROVE  \/ Flight(s)' \subseteq Flight(s)
                   \/ \E x \in Flight(s) : \E y : Flight(s)' \subseteq (Flight(s) \ {x}) \cup {y}
        <4>1. CASE s # a[1]
          BY <2>2, <3>1, <4>1 DEF Flight
        <4>2. CASE s = a[1]
          <5>1. <<"replies", a>> \in Flight(s)
            BY <4>2 DEF Flight
          <5>2. Flight(s)' \subseteq (Flight(s) \ {<<"replies", a>>}) \cup {<<"raw", a>>}
            BY <2>2, <3>1, <4>2 DEF Flight
          <5>3. QED
            BY <5>1, <5>2
        <4>3. QED
          BY <4>1, <4>2
      <3>4. \A s \in Reqs : (\E b \in raw' : b[1] = s) /\ s \notin legacy => pc[s] \notin Active
        BY <1>2, <2>4, <3>1
      <3>5. QED
        BY <1>1, <3>2, <3>3, <3>4, LinkKeepsFlight
    <2>5. QED
      BY <2>3, <2>4
  <1>5. CASE Break \/ ReadEnd \/ Shut \/ Connect \/ Bump \/ Clear
    <2>1. wire' \subseteq wire /\ replies' \subseteq replies /\ UNCHANGED <<raw, box>>
      BY <1>5 DEF Break, ReadEnd, Shut, Connect, Bump, Clear, dataVars
    <2>2. FlightTypes'
      BY <1>1, <2>1 DEF FlightInv, FlightTypes
    <2>3. \A s \in Reqs : Flight(s)' \subseteq Flight(s)
      BY <2>1 DEF Flight
    <2>4. QED
      BY <1>1, <1>2, <2>1, <2>2, <2>3, LinkKeepsFlight
  <1>6. QED
    BY <1>3, <1>4, <1>5 DEF ReaderStep

-----------------------------------------------------------------------------
\* A step of call r: nothing is added to what the others have on the way.
LEMMA CallKeepsFlight ==
    ASSUME OnceInv, FlightInv, NEW r \in Reqs, NEW p, pc' = [pc EXCEPT ![r] = p],
           raw' \subseteq raw, FlightTypes', OneLegacy', CallFlight(r)',
           \A s \in Reqs \ {r} : /\ sends'[s] = sends[s] /\ answer'[s] = answer[s]
                                 /\ s \in legacy' <=> s \in legacy
                                 /\ Flight(s)' \subseteq Flight(s)
    PROVE  FlightInv'
  <1>1. ASSUME NEW s \in Reqs, s # r PROVE CallFlight(s)'
    <2>1. CallFlight(s) /\ pc'[s] = pc[s]
      BY <1>1 DEF FlightInv, OnceInv, CallTypes
    <2>2. /\ sends'[s] = sends[s] /\ answer'[s] = answer[s] /\ s \in legacy' <=> s \in legacy
          /\ Flight(s)' \subseteq Flight(s)
      BY <1>1
    <2>3. AtMostOne(Flight(s)) => AtMostOne(Flight(s))'
      BY <2>2 DEF AtMostOne
    <2>4. QED
      BY <2>1, <2>2, <2>3 DEF CallFlight
  <1>2. QED
    BY <1>1 DEF FlightInv

\* The round-trip lock is not taken by a step that keeps to the path chosen.
LEMMA LockKept ==
    ASSUME OnceInv, FlightInv, NEW r \in Reqs, NEW p, pc' = [pc EXCEPT ![r] = p],
           pc[r] \in Active \/ p \notin Active, UNCHANGED legacy
    PROVE  OneLegacy'
  <1>1. pc'[r] = p /\ \A s \in Reqs : s # r => pc'[s] = pc[s]
    BY DEF OnceInv, CallTypes
  <1>2. \A s \in legacy : s \in Reqs /\ (pc'[s] \in Active => pc[s] \in Active)
    BY <1>1 DEF FlightInv, FlightTypes
  <1>3. QED
    BY <1>2 DEF OneLegacy, FlightInv

LEMMA BeginKeepsFlight ==
    ASSUME OnceInv, FlightInv, NEW r \in Reqs, Start(r) \/ Acquire(r)
    PROVE  FlightInv'
  <1>1. /\ UNCHANGED <<wire, replies, raw, box, sends, answer>>
        /\ pc[r] \in {"idle", "lock"}
    BY DEF Start, Acquire, dataVars
  <1>2. sends[r] = 0 /\ Flight(r) = {} /\ answer[r] = {} /\ CallFlight(r)
    BY <1>1 DEF OnceInv, Budget, FlightInv, CallFlight, Ended
  <1>3. \A s \in Reqs : Flight(s)' = Flight(s)
    BY <1>1 DEF Flight
  <1>4. ~ \E a \in raw : a[1] = r
    <2>1. \A a \in raw : a[1] = r => <<"raw", a>> \in Flight(r)
      BY DEF Flight
    <2>2. QED
      BY <1>2, <2>1
  <1>5. \E p \in {"lock", "check"} :
           /\ pc' = [pc EXCEPT ![r] = p]
           /\ p = "lock" => legacy' = legacy \cup {r}
           /\ p = "check" => legacy' = legacy
                             /\ (r \in legacy => \A s \in legacy : pc[s] \notin Active)
    BY <1>1, <1>2 DEF Start, Acquire, CallFlight
  <1>6. PICK p \in {"lock", "check"} :
           /\ pc' = [pc EXCEPT ![r] = p]
           /\ p = "lock" => legacy' = legacy \cup {r}
           /\ p = "check" => legacy' = legacy
                             /\ (r \in legacy => \A s \in legacy : pc[s] \notin Active)
    BY <1>5
  <1>7. pc'[r] = p /\ \A s \in Reqs : s # r => pc'[s] = pc[s]
    BY <1>6 DEF OnceInv, CallTypes
  <1>8. FlightTypes'
    BY <1>1, <1>6 DEF FlightInv, FlightTypes
  <1>9. OneLegacy'
    <2>1. CASE p = "lock"
      <3>1. \A s \in legacy' : pc'[s] \in Active => s \in legacy /\ pc[s] \in Active
        BY <1>6, <1>7, <2>1 DEF FlightInv, FlightTypes, Active
      <3>2. QED
        BY <3>1 DEF FlightInv, OneLegacy
    <2>2. CASE p = "check"
      <3>1. \A s \in legacy' : /\ s \in legacy /\ s \in Reqs
                               /\ pc'[s] \in Active => s = r \/ pc[s] \in Active
        BY <1>6, <1>7, <2>2 DEF FlightInv, FlightTypes
      <3>2. QED
        BY <1>6, <2>2, <3>1 DEF FlightInv, OneLegacy
    <2>3. QED
      BY <2>1, <2>2
  <1>10. CallFlight(r)'
    <2>1. p = "lock" => r \in legacy'
      BY <1>6
    <2>2. pc'[r] # "idle" /\ pc'[r] # "ok" /\ Flight(r)' = {} /\ answer'[r] = {} /\ sends'[r] = 0
      BY <1>1, <1>2, <1>3, <1>7
    <2>3. QED
      BY <1>1, <1>4, <1>7, <2>1, <2>2 DEF CallFlight
  <1>11. QED
    BY <1>1, <1>3, <1>6, <1>8, <1>9, <1>10, CallKeepsFlight

\* A step that sends nothing and takes no answer.
LEMMA LoopKeepsFlight ==
    ASSUME OnceInv, FlightInv, NEW r \in Reqs,
           Check(r) \/ Regenerated(r) \/ Load(r) \/ Stamp(r) \/ Lost(r)
    PROVE  FlightInv'
  <1>1. UNCHANGED <<wire, replies, raw, box, sends, answer, legacy>> /\ pc[r] \in Active
    BY DEF Check, Regenerated, Load, Stamp, Lost, dataVars, Active
  <1>2. PICK p \in Active : pc' = [pc EXCEPT ![r] = p]
    BY DEF Check, Regenerated, Load, Stamp, Lost, Active
  <1>3. pc'[r] = p
    BY <1>2 DEF OnceInv, CallTypes
  <1>4. \A s \in Reqs : Flight(s)' = Flight(s)
    BY <1>1 DEF Flight
  <1>5. FlightTypes' /\ OneLegacy'
    BY <1>1, <1>2, LockKept DEF FlightInv, FlightTypes
  <1>6. CallFlight(r)'
    BY <1>1, <1>3, <1>4 DEF FlightInv, CallFlight, Active, Ended
  <1>7. QED
    BY <1>1, <1>2, <1>4, <1>5, <1>6, CallKeepsFlight

\* The call gives up, and its mailbox goes.
LEMMA GivingUpKeepsFlight ==
    ASSUME OnceInv, FlightInv, NEW r \in Reqs, Unreachable(r) \/ Timeout(r)
    PROVE  FlightInv'
  <1>1. /\ UNCHANGED <<wire, replies, raw, sends, answer, legacy>> /\ pc[r] \in Active
        /\ pc' = [pc EXCEPT ![r] = "failed"] /\ box' = [box EXCEPT ![r] = {}]
    BY DEF Unreachable, Timeout, Active
  <1>2. pc'[r] = "failed" /\ \A s \in Reqs : box'[s] \subseteq box[s]
    BY <1>1 DEF OnceInv, CallTypes, FlightInv, FlightTypes
  <1>3. \A s \in Reqs : Flight(s)' \subseteq Flight(s)
    BY <1>1, <1>2 DEF Flight
  <1>4. FlightTypes' /\ OneLegacy'
    <2>1. FlightTypes'
      BY <1>1, <1>2 DEF FlightInv, FlightTypes
    <2>2. "failed" \notin Active
      BY DEF Active
    <2>3. QED
      BY <1>1, <2>1, <2>2, LockKept
  <1>5. CallFlight(r)'
    <2>1. CallFlight(r) /\ Flight(r)' \subseteq Flight(r)
      BY <1>3 DEF FlightInv
    <2>2. AtMostOne(Flight(r)) => AtMostOne(Flight(r))'
      BY <2>1 DEF AtMostOne
    <2>3. QED
      BY <1>1, <1>2, <2>1, <2>2 DEF CallFlight, Active, Ended
  <1>6. QED
    BY <1>1, <1>3, <1>4, <1>5, CallKeepsFlight

\* A transmission: the first one is the only message of the call.
LEMMA SendKeepsFlight ==
    ASSUME OnceInv, FlightInv, NEW r \in Reqs, Send(r)
    PROVE  FlightInv'
  <1>1. UNCHANGED <<replies, raw, box, answer, legacy>> /\ pc[r] = "send" /\ sends[r] \in Nat
    BY DEF Send, OnceInv, CallTypes
  <1>2. CASE open /\ hold[r] = conn
    <2>1. DEFINE q == <<r, sends[r] + 1>>
    <2>2. /\ wire' = wire \cup {q} /\ q[1] = r
          /\ sends' = [sends EXCEPT ![r] = sends[r] + 1]
          /\ pc' = [pc EXCEPT ![r] = "stamp"]
      BY <1>2 DEF Send
    <2> HIDE DEF q
    <2>3. /\ pc'[r] = "stamp" /\ sends'[r] = sends[r] + 1
          /\ \A s \in Reqs : s # r => sends'[s] = sends[s]
      BY <1>1, <2>2 DEF OnceInv, CallTypes
    <2>4. /\ Flight(r)' \subseteq Flight(r) \cup {<<"wire", q>>}
          /\ \A s \in Reqs : s # r => Flight(s)' \subseteq Flight(s)
      BY <1>1, <2>2 DEF Flight
    <2>5. FlightTypes'
      BY <1>1, <2>2 DEF FlightInv, FlightTypes
    <2>6. OneLegacy'
      BY <1>1, <2>2, LockKept DEF Active
    <2>7. CallFlight(r)'
      <3>1. CallFlight(r)
        BY DEF FlightInv
      <3>2. sends'[r] # 0 /\ (sends'[r] = 1 => AtMostOne(Flight(r))')
        BY <1>1, <2>3, <2>4, <3>1 DEF CallFlight, AtMostOne
      <3>3. QED
        BY <1>1, <2>3, <3>1, <3>2 DEF CallFlight, Active, Ended
    <2>8. QED
      BY <1>1, <2>2, <2>3, <2>4, <2>5, <2>6, <2>7, CallKeepsFlight
  <1>3. CASE ~(open /\ hold[r] = conn)
    <2>1. UNCHANGED <<wire, sends>> /\ pc' = [pc EXCEPT ![r] = "retry"]
      BY <1>3 DEF Send
    <2>2. pc'[r] = "retry"
      BY <2>1 DEF OnceInv, CallTypes
    <2>3. \A s \in Reqs : Flight(s)' = Flight(s)
      BY <1>1, <2>1 DEF Flight
    <2>4. FlightTypes'
      BY <1>1, <2>1 DEF FlightInv, FlightTypes
    <2>5. OneLegacy'
      BY <1>1, <2>1, LockKept DEF Active
    <2>6. CallFlight(r)'
      BY <1>1, <2>1, <2>2, <2>3 DEF FlightInv, CallFlight, Active, Ended
    <2>7. QED
      BY <1>1, <2>1, <2>3, <2>4, <2>5, <2>6, CallKeepsFlight
  <1>4. QED
    BY <1>2, <1>3

LEMMA TakeOwnKeepsFlight ==
    ASSUME OnceInv, FlightInv, NEW r \in Reqs, NEW a \in box[r], TakeOwn(r, a)
    PROVE  FlightInv'
  <1>1. /\ UNCHANGED <<wire, replies, raw, sends, legacy>> /\ pc[r] = "wait"
        /\ answer' = [answer EXCEPT ![r] = {a[1]}] /\ box' = [box EXCEPT ![r] = {}]
        /\ a[1] = r
    BY DEF TakeOwn, FlightInv, FlightTypes
  <1>2. PICK p \in Ended : pc' = [pc EXCEPT ![r] = p]
    BY DEF TakeOwn, Ended
  <1>3. /\ pc'[r] = p /\ answer'[r] = {r} /\ box'[r] = {}
        /\ \A s \in Reqs : s # r => answer'[s] = answer[s] /\ box'[s] = box[s]
    BY <1>1, <1>2 DEF OnceInv, CallTypes, FlightInv, FlightTypes
  <1>4. \A s \in Reqs : Flight(s)' \subseteq Flight(s)
    BY <1>1, <1>3 DEF Flight
  <1>5. FlightTypes'
    BY <1>1, <1>3 DEF FlightInv, FlightTypes
  <1>6. OneLegacy'
    BY <1>1, <1>2, LockKept DEF Active, Ended
  <1>7. CallFlight(r)'
    <2>1. CallFlight(r) /\ r \notin legacy
      BY DEF FlightInv, TakeOwn
    <2>2. <<"box", a>> \in Flight(r) /\ <<"box", a>> \notin Flight(r)'
      BY <1>3 DEF Flight
    <2>3. sends[r] # 0 /\ (sends[r] = 1 => Flight(r)' = {})
      BY <1>4, <2>1, <2>2 DEF CallFlight, AtMostOne
    <2>4. QED
      BY <1>1, <1>2, <1>3, <2>1, <2>3 DEF CallFlight, Active, Ended, AtMostOne
  <1>8. QED
    BY <1>1, <1>2, <1>3, <1>4, <1>5, <1>6, <1>7, CallKeepsFlight

LEMMA TakeRawKeepsFlight ==
    ASSUME OnceInv, FlightInv, NEW r \in Reqs, NEW a \in raw, TakeRaw(r, a)
    PROVE  FlightInv'
  <1>1. /\ UNCHANGED <<wire, replies, box, sends, legacy>> /\ pc[r] = "wait" /\ r \in legacy
        /\ raw' = raw \ {a} /\ a[1] \in Reqs
    BY DEF TakeRaw, FlightInv, FlightTypes
  <1>2. \A s \in Reqs : Flight(s)' \subseteq Flight(s)
    BY <1>1 DEF Flight
  <1>3. CallFlight(r)
    BY DEF FlightInv
  <1>4. CASE a[3] /\ Op[a[1]] = Op[r]
    <2>1. pc' = [pc EXCEPT ![r] = "ok"] /\ answer' = [answer EXCEPT ![r] = {a[1]}]
      BY <1>4 DEF TakeRaw
    <2>2. /\ pc'[r] = "ok" /\ answer'[r] = {a[1]}
          /\ \A s \in Reqs : s # r => answer'[s] = answer[s]
      BY <2>1 DEF OnceInv, CallTypes, FlightInv, FlightTypes
    <2>3. FlightTypes'
      BY <1>1, <2>1 DEF FlightInv, FlightTypes
    <2>4. OneLegacy'
      BY <1>1, <2>1, LockKept DEF Active
    <2>5. a[1] = r /\ sends[r] = 1 => Flight(r)' = {}
      <3>1. a[1] = r => <<"raw", a>> \in Flight(r) /\ <<"raw", a>> \notin Flight(r)'
        BY <1>1 DEF Flight
      <3>2. QED
        BY <1>2, <1>3, <3>1 DEF CallFlight, AtMostOne
    <2>6. AtMostOne(Flight(r)) => AtMostOne(Flight(r))'
      BY <1>2 DEF AtMostOne
    <2>7. CallFlight(r)'
      BY <1>1, <1>2, <1>3, <2>2, <2>5, <2>6 DEF CallFlight, Active, Ended
    <2>8. QED
      BY <1>1, <1>2, <2>1, <2>2, <2>3, <2>4, <2>7, CallKeepsFlight
  <1>5. CASE ~(a[3] /\ Op[a[1]] = Op[r])
    <2>1. UNCHANGED <<pc, answer>>
      BY <1>5 DEF TakeRaw
    <2>2. pc' = [pc EXCEPT ![r] = pc[r]]
      BY <2>1 DEF OnceInv, CallTypes
    <2>3. FlightTypes'
      BY <1>1, <2>1 DEF FlightInv, FlightTypes
    <2>4. OneLegacy'
      BY <1>1, <2>1 DEF FlightInv, OneLegacy
    <2>5. CallFlight(r)'
      <3>1. AtMostOne(Flight(r)) => AtMostOne(Flight(r))'
        BY <1>2 DEF AtMostOne
      <3>2. QED
        BY <1>1, <1>2, <1>3, <2>1, <3>1 DEF CallFlight
    <2>6. QED
      BY <1>1, <1>2, <2>1, <2>2, <2>3, <2>4, <2>5, CallKeepsFlight
  <1>6. QED
    BY <1>4, <1>5

LEMMA FlightStep == OnceInv /\ FlightInv /\ [Next]_vars => FlightInv'
  <1> SUFFICES ASSUME OnceInv, FlightInv, [Next]_vars
               PROVE  FlightInv'
    OBVIOUS
  <1>1. CASE UNCHANGED vars
    <2>1. UNCHANGED <<wire, replies, raw, box, pc, legacy, sends, answer>>
      BY <1>1 DEF vars, dataVars, callVars
    <2>2. QED
      BY <2>1 DEF FlightInv, FlightTypes, OneLegacy, CallFlight, Flight, AtMostOne
  <1>2. CASE Next
    BY <1>2, DaemonKeepsFlight, BeginKeepsFlight, LoopKeepsFlight, GivingUpKeepsFlight,
       SendKeepsFlight, TakeOwnKeepsFlight, TakeRawKeepsFlight
       DEF Next, CallStep
  <1>3. QED
    BY <1>1, <1>2

-----------------------------------------------------------------------------
\* What lies in _raw while a legacy call waits is its own, or left over.
LEMMA RawIsLeftOver ==
    ASSUME OnceInv, FlightInv, NEW r \in legacy, pc[r] \in Active,
           NEW a \in raw, a[1] # r
    PROVE  Late(a[1]) \/ Misled(a[1])
  <1>1. DEFINE s == a[1]
  <1>2. s \in Reqs /\ CallFlight(s) /\ pc[s] \in ReqPcs /\ sends[s] \in Nat
        /\ answer[s] \subseteq Reqs
    BY DEF FlightInv, FlightTypes, OnceInv, CallTypes
  <1>3. <<"raw", a>> \in Flight(s)
    BY DEF Flight
  <1>4. sends[s] # 0
    BY <1>2, <1>3 DEF CallFlight
  <1>5. pc[s] \notin {"idle", "lock"}
    BY <1>2, <1>4 DEF OnceInv, Budget
  <1>6. pc[s] \notin Active
    BY <1>2 DEF FlightInv, OneLegacy, CallFlight
  <1>7. pc[s] = "ok" \/ pc[s] = "failed"
    BY <1>2, <1>5, <1>6 DEF ReqPcs, Ended
  <1>8. pc[s] = "ok" /\ sends[s] = 1 => Misled(s)
    BY <1>2, <1>3 DEF CallFlight, Misled
  <1>9. QED
    BY <1>2, <1>4, <1>7, <1>8 DEF Late

\* Having failed, having been repeated and having returned something is for good.
LEMMA LateStays ==
    ASSUME OnceInv, FlightInv, Next, NEW s \in Reqs
    PROVE  /\ Late(s) => Late(s)'
           /\ Misled(s) => Misled(s)'
           /\ s \in legacy => s \in legacy'
  <1>1. pc[s] \in ReqPcs /\ sends[s] \in Nat /\ pc \in [Reqs -> ReqPcs]
        /\ sends \in [Reqs -> Nat] /\ answer \in [Reqs -> SUBSET Reqs]
    BY DEF OnceInv, CallTypes, FlightInv, FlightTypes
  <1>2. /\ pc[s] = "failed" => pc'[s] = "failed"
        /\ sends[s] <= sends'[s] /\ sends'[s] \in Nat
        /\ s \in legacy => s \in legacy'
        /\ pc[s] # "wait" => answer'[s] = answer[s]
    <2>1. CASE DaemonStep \/ Break \/ ReaderStep
      BY <1>1, <2>1 DEF DaemonStep, Execute, Break, ReaderStep, ReadLine, ReadEnd, Shut,
                        Connect, Bump, Clear, callVars
    <2>2. ASSUME NEW r \in Reqs, Start(r) \/ CallStep(r)
          PROVE  /\ pc[s] = "failed" => pc'[s] = "failed"
                 /\ sends[s] <= sends'[s] /\ sends'[s] \in Nat
                 /\ s \in legacy => s \in legacy'
                 /\ pc[s] # "wait" => answer'[s] = answer[s]
      <3>1. CASE Start(r) \/ Acquire(r) \/ Check(r) \/ Regenerated(r) \/ Unreachable(r)
        BY <1>1, <3>1 DEF Start, Acquire, Check, Regenerated, Unreachable
      <3>2. CASE Load(r) \/ Stamp(r) \/ Lost(r) \/ Timeout(r)
        BY <1>1, <3>2 DEF Load, Stamp, Lost, Timeout
      <3>3. CASE Send(r)
        BY <1>1, <3>3 DEF Send
      <3>4. CASE \E a \in box[r] : TakeOwn(r, a)
        BY <1>1, <3>4 DEF TakeOwn
      <3>5. CASE \E a \in raw : TakeRaw(r, a)
        BY <1>1, <3>5 DEF TakeRaw
      <3>6. QED
        BY <2>2, <3>1, <3>2, <3>3, <3>4, <3>5 DEF CallStep
    <2>3. QED
      BY <2>1, <2>2 DEF Next
  <1>3. Misled(s) => pc[s] # "wait"
    BY DEF Misled, FlightInv, CallFlight, Ended
  <1>4. QED
    BY <1>1, <1>2, <1>3 DEF Late, Misled

LEMMA LateStep == OnceInv /\ FlightInv /\ ForeignAnswerIsLate /\ [Next]_vars => ForeignAnswerIsLate'
  <1> SUFFICES ASSUME OnceInv, FlightInv, ForeignAnswerIsLate, [Next]_vars
               PROVE  ForeignAnswerIsLate'
    OBVIOUS
  <1>1. CASE UNCHANGED vars
    BY <1>1 DEF vars, callVars, ForeignAnswerIsLate, Late, Misled
  <1>2. CASE Next
    <2>1. ASSUME NEW r \in Reqs, NEW s \in answer'[r] \ {r}, s \in answer[r]
          PROVE  /\ r \in legacy' /\ Op[s] = Op[r]
                 /\ Late(s)' \/ Misled(s)'
                 /\ \E t \in Reqs : Late(t)'
      <3>1. /\ r \in legacy /\ Op[s] = Op[r] /\ (Late(s) \/ Misled(s))
            /\ \E t \in Reqs : Late(t)
        BY <2>1 DEF ForeignAnswerIsLate
      <3>2. s \in Reqs
        BY <2>1 DEF FlightInv, FlightTypes
      <3>3. QED
        BY <1>2, <3>1, <3>2, LateStays
    <2>2. ASSUME NEW r \in Reqs, NEW s \in answer'[r] \ {r}, s \notin answer[r]
          PROVE  /\ r \in legacy' /\ Op[s] = Op[r]
                 /\ Late(s)' \/ Misled(s)'
                 /\ \E t \in Reqs : Late(t)'
      <3>1. PICK a \in raw : TakeRaw(r, a) /\ s = a[1]
        <4>1. PICK c \in Reqs : CallStep(c)
          BY <1>2, <2>2 DEF Next, DaemonStep, Execute, Break, ReaderStep, ReadLine, ReadEnd,
                            Shut, Connect, Bump, Clear, callVars, Start
        <4>2. (\E a \in box[c] : TakeOwn(c, a)) \/ (\E a \in raw : TakeRaw(c, a))
          BY <2>2, <4>1 DEF CallStep, Acquire, Check, Regenerated, Unreachable, Load, Send,
                            Stamp, Lost, Timeout
        <4>3. ASSUME NEW a \in box[c], TakeOwn(c, a) PROVE FALSE
          <5>1. a[1] = c /\ answer' = [answer EXCEPT ![c] = {a[1]}]
            BY <4>3 DEF TakeOwn, FlightInv, FlightTypes
          <5>2. QED
            BY <2>2, <5>1 DEF FlightInv, FlightTypes
        <4>4. PICK a \in raw : TakeRaw(c, a)
          BY <4>2, <4>3
        <4>5. answer' = [answer EXCEPT ![c] = {a[1]}]
          BY <2>2, <4>4 DEF TakeRaw
        <4>6. c = r /\ s = a[1]
          BY <2>2, <4>5 DEF FlightInv, FlightTypes
        <4>7. QED
          BY <4>4, <4>6
      <3>2. r \in legacy /\ pc[r] \in Active /\ Op[s] = Op[r] /\ s \in Reqs
        <4>1. r \in legacy /\ pc[r] = "wait"
          BY <3>1 DEF TakeRaw
        <4>2. a[3] /\ Op[a[1]] = Op[r]
          BY <2>2, <3>1 DEF TakeRaw
        <4>3. QED
          BY <3>1, <4>1, <4>2 DEF Active, FlightInv, FlightTypes
      <3>3. Late(s) \/ Misled(s)
        BY <2>2, <3>1, <3>2, RawIsLeftOver
      <3>4. \E t \in Reqs : Late(t)
        <4>1. CASE Late(s)
          BY <3>2, <4>1
        <4>2. CASE Misled(s)
          <5>1. PICK t \in answer[s] : t # s
            BY <4>2 DEF Misled
          <5>2. QED
            BY <3>2, <5>1 DEF ForeignAnswerIsLate
        <4>3. QED
          BY <3>3, <4>1, <4>2
      <3>5. QED
        BY <1>2, <3>2, <3>3, <3>4, LateStays
    <2>3. QED
      BY <2>1, <2>2 DEF ForeignAnswerIsLate
  <1>3. QED
    BY <1>1, <1>2

(***************************************************************************)
(* A call returns another's answer only on the legacy path, for the same   *)
(* operation, and only when that answer was left over by a request that    *)
(* timed out, was repeated after a reconnect, or had been misled itself    *)
(* (_request_legacy, _request_multiplex, _read_loop; daemon.py:168-176),   *)
(* for any number of threads and connections.  The round-trip lock and the *)
(* mailboxes are what the proof rests on.                                  *)
(***************************************************************************)
THEOREM ForeignAnswersAreLate == Spec => []ForeignAnswerIsLate
  <1>1. Init => ForeignAnswerIsLate
    BY DEF Init, ForeignAnswerIsLate
  <1>2. Spec => [](OnceInv /\ FlightInv /\ ForeignAnswerIsLate)
    BY <1>1, OnceInit, OnceStep, FlightInit, FlightStep, LateStep, PTL DEF Spec
  <1>3. QED
    BY <1>2, PTL

-----------------------------------------------------------------------------
(***************************************************************************)
(* The life of the application.  Which threads may be at work in which     *)
(* phase, and the types of what they share.                                *)
(***************************************************************************)
AtRestart == {"kill", "clean", "spawn", "write", "wait", "up", "down", "raised"}
AtQuit == {"quitKill", "quitClean", "quitDone"}
Opening == {"off", "setup", "ensuring"}

LifeOK == /\ external \in BOOLEAN /\ armed \in BOOLEAN
          /\ phase \in {"off", "setup", "ensuring", "stopping", "closing"} \cup Working
          /\ armed => phase \notin Opening
          /\ phase \in {"ensuring", "polling", "restopping", "restarted"} => ~external

DaemonsOK == /\ dstate \in [Daemonlings -> {"none", "boot", "locked", "up", "closing"}]
             /\ {apiSock, dpid, dchild, victim} \subseteq Daemonlings \cup {0}
             /\ dlock \cup term \subseteq LiveDaemons
             /\ IsFiniteSet(LiveDaemons)
             /\ external => LiveDaemons = {}

SshOK == /\ forwarding \subseteq ssh /\ ssh \subseteq Pids
         /\ alien \subseteq Pids \ ssh
         /\ tunnelPid \in Pids \cup {0}
         /\ child \in [{"app", "cli"} -> Pids \cup {0}]

ThreadsOK ==
    /\ step \in [Threads -> {"idle", "ensure"} \cup AtRestart \cup AtQuit]
    /\ step["main"] # "ensure" /\ step["cli"] # "ensure"
    /\ step["worker"] \notin AtQuit /\ step["cli"] \notin AtQuit
    /\ step["main"] \in AtRestart => phase = "ready" /\ ~awaiting
    /\ step["main"] \in AtQuit => phase = "stopping"
    /\ phase \in Opening => child["app"] = 0 /\ step["main"] = "idle" /\ step["worker"] = "idle"
    /\ ~external => /\ timers \subseteq {"poll"} /\ ~awaiting /\ child["app"] = 0
                    /\ \A t \in Threads : step[t] = "idle"
    /\ step["cli"] = "idle" => child["cli"] = 0

TimersOK == /\ fail \in {0, 1} /\ restarting \in BOOLEAN
            /\ timers \subseteq {"poll", "probe", "confirm", "restart", "retry"}
            /\ timers # {} => phase \notin Opening
            /\ timers \ {"poll"} # {} \/ awaiting => phase = "ready"
            /\ "retry" \in timers => step["worker"] = "idle"
            /\ awaiting => "restart" \notin timers /\ "confirm" \notin timers

FaultsOK == faults \in 0..MaxFaults

AppInv == LifeOK /\ DaemonsOK /\ SshOK /\ ThreadsOK /\ TimersOK /\ FaultsOK

LEMMA AppInvTypes == AppInv => AppTypeOK
  BY DEF AppInv, LifeOK, DaemonsOK, SshOK, ThreadsOK, TimersOK, FaultsOK, AppTypeOK, Opening

\* What the tunnel's side sees of the local mode, and the other way round.
LocalStep == /\ UNCHANGED <<ssh, alien, forwarding, tunnelPid, child, step, remoteVars,
                            external, strayed>>
             /\ ~external \/ UNCHANGED phase
             /\ phase' \in Opening => phase \in Opening

RemoteStep == UNCHANGED <<daemonVars, external, lifeVars, shared>>

\* A daemon's binary cannot be started.
NoBinary == \E e \in {"RuntimeError", "OSError"} : EnsureRaises(e)

\* Every step that the application, its daemons and its tunnel can take.
LEMMA AppSteps ==
    ASSUME [AppNext]_appVars
    PROVE  \/ EnsureSpawn \/ SetupDone \/ SetupFails \/ PollEnds \/ StopEnds \/ RestartFound
           \/ (QuitEnds \/ KillApp \/ LaunchSecond) /\ ProcessEnds
           \/ LaunchSecond /\ armed
           \/ Launch \/ Quit \/ RestartDaemon \/ StopAllDaemons
           \/ \E d \in Daemonlings : DaemonLife(d) \/ LockCollected(d) \/ DaemonFault(d)
           \/ ConnectEnsure \/ (\E b \in BOOLEAN : ConnectDone(b)) \/ RetryConnect
           \/ PollTunnel \/ ProbeTunnel \/ ConfirmTunnel \/ RestartTunnel \/ RestartTunnelEnds
           \/ QuitRemote \/ TunnelStep(QuitRemoteStep) \/ QuitRemoteEnds
           \/ CliEnsure \/ CliEnds
           \/ NoBinary
           \/ \E t \in Threads : TunnelStep(RestartStep(t))
           \/ \E t \in Threads : PidUnwritten(t)
           \/ TunnelStep(SshStep)
           \/ UNCHANGED appVars
  BY Zenon DEF AppNext, NoBinary, Lifecycle, Supervision, QuitEnds, KillApp, LaunchSecond

LEMMA LocalSteps ==
    ASSUME LifeOK, [AppNext]_appVars
    PROVE  \/ LocalStep \/ SetupDone \/ Launch
           \/ (QuitEnds \/ KillApp \/ LaunchSecond) /\ ProcessEnds
           \/ ConnectEnsure \/ (\E b \in BOOLEAN : ConnectDone(b)) \/ RetryConnect
           \/ PollTunnel \/ ProbeTunnel \/ ConfirmTunnel \/ RestartTunnel \/ RestartTunnelEnds
           \/ QuitRemote \/ TunnelStep(QuitRemoteStep) \/ QuitRemoteEnds
           \/ CliEnsure \/ CliEnds
           \/ NoBinary
           \/ \E t \in Threads : TunnelStep(RestartStep(t))
           \/ \E t \in Threads : PidUnwritten(t)
           \/ TunnelStep(SshStep)
  <1> USE DEF Opening
  <1>1. EnsureSpawn \/ Quit \/ RestartDaemon \/ StopEnds \/ StopAllDaemons => LocalStep
    BY DEF EnsureSpawn, Quit, RestartDaemon, StopDaemon, StopEnds, StopAllDaemons, LocalStep,
           tunnelVars, lifeVars, history
  <1>2. SetupFails \/ PollEnds \/ RestartFound => LocalStep
    BY DEF SetupFails, PollEnds, RestartFound, LifeOK, LocalStep, tunnelVars, lifeVars, history
  <1>3. (\E d \in Daemonlings : DaemonLife(d) \/ LockCollected(d) \/ DaemonFault(d)) => LocalStep
    BY DEF DaemonLife, LockCollected, DaemonFault, LocalStep, tunnelVars, lifeVars, history
  <1>4. LaunchSecond /\ armed => LocalStep
    BY DEF LaunchSecond, LocalStep, tunnelVars, history
  <1>5. UNCHANGED appVars => LocalStep
    BY DEF appVars, LocalStep, tunnelVars, lifeVars, history
  <1>6. QED
    BY <1>1, <1>2, <1>3, <1>4, <1>5, AppSteps, Zenon

LEMMA RemoteSteps ==
    ASSUME [AppNext]_appVars
    PROVE  \/ RemoteStep
           \/ EnsureSpawn \/ SetupDone \/ SetupFails \/ PollEnds \/ StopEnds \/ RestartFound
           \/ (QuitEnds \/ KillApp \/ LaunchSecond) /\ ProcessEnds
           \/ LaunchSecond /\ armed
           \/ Launch \/ Quit \/ RestartDaemon \/ StopAllDaemons
           \/ \E d \in Daemonlings : DaemonLife(d) \/ LockCollected(d) \/ DaemonFault(d)
           \/ QuitRemote \/ QuitRemoteEnds
           \/ NoBinary
  <1>1. ConnectEnsure \/ (\E b \in BOOLEAN : ConnectDone(b)) \/ RetryConnect => RemoteStep
    BY DEF ConnectEnsure, ConnectDone, RetryConnect, RemoteStep, history
  <1>2. PollTunnel \/ ProbeTunnel \/ ConfirmTunnel => RemoteStep
    BY DEF PollTunnel, ProbeTunnel, ConfirmTunnel, RemoteStep, history
  <1>3. RestartTunnel \/ RestartTunnelEnds \/ CliEnsure \/ CliEnds => RemoteStep
    BY DEF RestartTunnel, RestartTunnelEnds, CliEnsure, CliEnds, RemoteStep, history
  <1>5. /\ TunnelStep(QuitRemoteStep) \/ TunnelStep(SshStep) => RemoteStep
        /\ (\E t \in Threads : TunnelStep(RestartStep(t))) => RemoteStep
        /\ (\E t \in Threads : PidUnwritten(t)) => RemoteStep
    BY DEF TunnelStep, PidUnwritten, RemoteStep, history
  <1>6. UNCHANGED appVars => RemoteStep
    BY DEF appVars, RemoteStep, history
  <1>7. QED
    BY <1>1, <1>2, <1>3, <1>5, <1>6, AppSteps, Zenon

LEMMA AppInvInit == AppInit => AppInv
  <1> SUFFICES ASSUME AppInit PROVE AppInv
    OBVIOUS
  <1>1. LifeOK /\ FaultsOK
    <2>1. external \in BOOLEAN /\ armed \in BOOLEAN /\ ~armed /\ phase = "off"
      BY Zenon DEF AppInit
    <2>2. faults = 0
      BY DEF AppInit, TunnelInit
    <2>3. QED
      BY <2>1, <2>2, FaultsAssumption DEF LifeOK, FaultsOK
  <1>2. DaemonsOK
    <2>1. LiveDaemons = {}
      BY DEF AppInit, DaemonsInit, LiveDaemons
    <2>2. QED
      BY <2>1, FS_EmptySet DEF AppInit, DaemonsInit, DaemonsOK
  <1>3. SshOK /\ ThreadsOK /\ TimersOK
    BY DEF AppInit, TunnelInit, SshOK, ThreadsOK, TimersOK, Threads, AtRestart, AtQuit
  <1>4. QED
    BY <1>1, <1>2, <1>3 DEF AppInv

LEMMA FaultsStep == FaultsOK /\ [AppNext]_appVars => FaultsOK'
  <1> SUFFICES ASSUME FaultsOK, [AppNext]_appVars PROVE FaultsOK'
    OBVIOUS
  <1>1. UNCHANGED faults \/ Disturbance => FaultsOK'
    BY FaultsAssumption DEF FaultsOK, Disturbance
  <1>2. EnsureSpawn \/ Quit \/ RestartDaemon \/ StopEnds \/ StopAllDaemons
           \/ RestartFound \/ Launch \/ SetupDone => UNCHANGED faults \/ Disturbance
    BY DEF EnsureSpawn, Quit, RestartDaemon, StopDaemon, StopEnds, StopAllDaemons, RestartFound,
           Launch, SetupDone, tunnelVars
  <1>3. SetupFails \/ PollEnds => UNCHANGED faults \/ Disturbance
    BY DEF SetupFails, PollEnds, GivesUp
  <1>4. QuitEnds \/ KillApp \/ LaunchSecond => UNCHANGED faults \/ Disturbance
    BY DEF QuitEnds, KillApp, LaunchSecond, tunnelVars
  <1>5. (\E d \in Daemonlings : DaemonLife(d) \/ LockCollected(d) \/ DaemonFault(d))
           => UNCHANGED faults \/ Disturbance
    BY DEF DaemonLife, LockCollected, DaemonFault, tunnelVars
  <1>6. ConnectEnsure \/ (\E b \in BOOLEAN : ConnectDone(b)) \/ RetryConnect \/ PollTunnel
           \/ ProbeTunnel \/ ConfirmTunnel \/ RestartTunnel \/ RestartTunnelEnds
           => UNCHANGED faults
    BY DEF ConnectEnsure, ConnectDone, RetryConnect, PollTunnel, ProbeTunnel, ConfirmTunnel,
           RestartTunnel, RestartTunnelEnds, tunnelVars
  <1>7. QuitRemote \/ QuitRemoteEnds \/ TunnelStep(QuitRemoteStep) \/ CliEnsure \/ CliEnds
           => UNCHANGED faults \/ Disturbance
    BY DEF QuitRemote, QuitRemoteEnds, TunnelStep, QuitRemoteStep, StopKill, StopClean,
           CliEnsure, CliEnds
  <1>8. ASSUME NEW t \in Threads, RestartStep(t) PROVE UNCHANGED faults \/ Disturbance
    BY <1>8 DEF RestartStep, StopKill, StopClean, Spawn, SpawnRaises, WritePid, SocketUp,
           SocketNot, Disturbance
  <1>9. SshStep => UNCHANGED faults \/ Disturbance
    BY DEF SshStep, Forward, SshEnds, PidRecycled, AlienEnds, Disturbance
  <1>10. UNCHANGED appVars => UNCHANGED faults
    BY DEF appVars, tunnelVars
  <1>11. (\E t \in Threads : TunnelStep(RestartStep(t))) \/ TunnelStep(SshStep)
            => UNCHANGED faults \/ Disturbance
    BY <1>8, <1>9 DEF TunnelStep
  <1>12. NoBinary \/ (\E t \in Threads : PidUnwritten(t)) => Disturbance
    BY DEF NoBinary, EnsureRaises, PidUnwritten, WritePidFails, Disturbance
  <1>13. QED
    BY <1>1, <1>2, <1>3, <1>4, <1>5, <1>6, <1>7, <1>10, <1>11, <1>12, AppSteps, Zenon

LEMMA LifeStep == AppInv /\ [AppNext]_appVars => LifeOK'
  <1> SUFFICES ASSUME AppInv, [AppNext]_appVars PROVE LifeOK'
    OBVIOUS
  <1>1. LifeOK /\ ThreadsOK
    BY DEF AppInv
  <1>2. CASE RemoteStep
    BY <1>1, <1>2 DEF RemoteStep, LifeOK, lifeVars, Opening
  <1>3. CASE EnsureSpawn \/ SetupFails \/ PollEnds \/ RestartFound
    BY <1>1, <1>3 DEF EnsureSpawn, SetupFails, PollEnds, RestartFound, LifeOK, Opening, Working
  <1>4. CASE SetupDone
    BY <1>1, <1>4 DEF SetupDone, LifeOK, Opening, Working
  <1>5. CASE ProcessEnds
    BY <1>1, <1>5 DEF ProcessEnds, LifeOK, Opening, Working
  <1>6. CASE LaunchSecond /\ armed
    BY <1>1, <1>6 DEF LaunchSecond, LifeOK, Opening, Working
  <1>7. CASE Launch \/ Quit \/ RestartDaemon
    BY <1>1, <1>7 DEF Launch, Quit, RestartDaemon, StopDaemon, LifeOK, Opening, Working
  <1>8. CASE StopEnds
    BY <1>1, <1>8 DEF StopEnds, LifeOK, Opening, Working
  <1>9. CASE \/ StopAllDaemons
             \/ \E d \in Daemonlings : DaemonLife(d) \/ LockCollected(d) \/ DaemonFault(d)
    <2>1. UNCHANGED <<external, phase, armed>>
      BY <1>9 DEF StopAllDaemons, DaemonLife, LockCollected, DaemonFault, lifeVars
    <2>2. QED
      BY <1>1, <2>1 DEF LifeOK, Opening
  <1>10. CASE QuitRemote \/ QuitRemoteEnds
    <2>1. phase = "ready" \/ phase = "stopping"
      BY <1>1, <1>10 DEF QuitRemote, QuitRemoteEnds, MainFree, ThreadsOK, AtQuit
    <2>2. UNCHANGED <<external, armed>> /\ phase' \in {"stopping", "closing"}
      BY <1>10 DEF QuitRemote, QuitRemoteEnds
    <2>3. QED
      BY <1>1, <2>1, <2>2 DEF LifeOK, Opening, Working
  <1>11. CASE NoBinary
    BY <1>1, <1>11 DEF NoBinary, EnsureRaises, LifeOK, Opening, Working
  <1>12. QED
    BY <1>2, <1>3, <1>4, <1>5, <1>6, <1>7, <1>8, <1>9, <1>10, <1>11, RemoteSteps, Zenon

LEMMA SshStepOK == AppInv /\ [AppNext]_appVars => SshOK'
  <1> SUFFICES ASSUME AppInv, [AppNext]_appVars PROVE SshOK'
    OBVIOUS
  <1> USE DEF SshOK
  <1>1. SshOK /\ LifeOK
    BY DEF AppInv
  <1>2. CASE LocalStep
    BY <1>1, <1>2 DEF LocalStep
  <1>3. CASE SetupDone \/ Launch \/ ConnectEnsure \/ (\E b \in BOOLEAN : ConnectDone(b))
             \/ RetryConnect \/ PollTunnel \/ ProbeTunnel \/ ConfirmTunnel \/ RestartTunnel
             \/ RestartTunnelEnds \/ QuitRemote \/ QuitRemoteEnds \/ CliEnsure \/ NoBinary
    <2>1. UNCHANGED <<ssh, alien, forwarding, tunnelPid, child>>
      BY <1>3 DEF NoBinary, EnsureRaises, SetupDone, Launch, ConnectEnsure, ConnectDone, RetryConnect, PollTunnel,
              ProbeTunnel, ConfirmTunnel, RestartTunnel, RestartTunnelEnds, QuitRemote,
              QuitRemoteEnds, CliEnsure, tunnelVars
    <2>2. QED
      BY <1>1, <2>1
  <1>4. CASE ProcessEnds
    BY <1>1, <1>4 DEF ProcessEnds
  <1>5. CASE CliEnds
    BY <1>1, <1>5 DEF CliEnds
  <1>6. ASSUME NEW t \in Threads, NEW at, NEW next, StopKill(t, at, next) PROVE SshOK'
    BY <1>1, <1>6 DEF StopKill
  <1>7. ASSUME NEW t \in Threads, NEW at, NEW next, StopClean(t, at, next) PROVE SshOK'
    BY <1>1, <1>7 DEF StopClean, ProcessOf
  <1>8. ASSUME NEW t \in Threads, Spawn(t) PROVE SshOK'
    BY <1>1, <1>8 DEF Spawn, FreshPid, ProcessOf
  <1>9. ASSUME NEW t \in Threads, SpawnRaises(t) \/ SocketUp(t) \/ SocketNot(t) PROVE SshOK'
    BY <1>1, <1>9 DEF SpawnRaises, SocketUp, SocketNot
  <1>10. ASSUME NEW t \in Threads, WritePid(t) PROVE SshOK'
    BY <1>1, <1>10 DEF WritePid, ProcessOf
  <1>11. CASE TunnelStep(QuitRemoteStep)
    BY <1>6, <1>7, <1>11 DEF TunnelStep, QuitRemoteStep, Threads
  <1>12. CASE \E t \in Threads : TunnelStep(RestartStep(t))
    BY <1>6, <1>7, <1>8, <1>9, <1>10, <1>12 DEF TunnelStep, RestartStep
  <1>13. CASE TunnelStep(SshStep)
    BY <1>1, <1>13 DEF TunnelStep, SshStep, Forward, SshEnds, PidRecycled, AlienEnds
  <1>14. CASE \E t \in Threads : PidUnwritten(t)
    BY <1>1, <1>14 DEF PidUnwritten, WritePidFails
  <1>15. QED
    BY <1>1, <1>2, <1>3, <1>4, <1>5, <1>11, <1>12, <1>13, <1>14, LocalSteps, Zenon

\* A thread goes on with its restart.
LEMMA ThreadsMove ==
    ASSUME ThreadsOK, LifeOK, NEW t \in Threads, NEW s \in AtRestart,
           step[t] \in AtRestart \cup {"ensure"},
           step' = [step EXCEPT ![t] = s],
           child'["cli"] = child["cli"] \/ t = "cli", child'["app"] = child["app"] \/ t # "cli",
           UNCHANGED <<phase, awaiting, external, timers>>
    PROVE  ThreadsOK'
  <1>1. \A u \in Threads : u # t => step'[u] = step[u]
    BY DEF ThreadsOK
  <1>2. step'[t] = s /\ step[t] # "idle" /\ step[t] \notin AtQuit
    BY DEF ThreadsOK, AtRestart, AtQuit
  <1>3. step' \in [Threads -> {"idle", "ensure"} \cup AtRestart \cup AtQuit]
    BY DEF ThreadsOK
  <1>4. external /\ (t # "cli" => phase \notin Opening)
    BY <1>2 DEF ThreadsOK, Threads, LifeOK
  <1>5. CASE t = "main"
    BY <1>1, <1>2, <1>3, <1>4, <1>5 DEF ThreadsOK, Threads, AtRestart, AtQuit
  <1>6. CASE t = "worker"
    BY <1>1, <1>2, <1>3, <1>4, <1>6 DEF ThreadsOK, Threads, AtRestart, AtQuit
  <1>7. CASE t = "cli"
    BY <1>1, <1>2, <1>3, <1>4, <1>7 DEF ThreadsOK, Threads, AtRestart, AtQuit
  <1>8. QED
    BY <1>5, <1>6, <1>7 DEF Threads

LEMMA ThreadsStep == AppInv /\ [AppNext]_appVars => ThreadsOK'
  <1> SUFFICES ASSUME AppInv, [AppNext]_appVars PROVE ThreadsOK'
    OBVIOUS
  <1>1. ThreadsOK /\ LifeOK /\ TimersOK /\ SshOK
    BY DEF AppInv
  <1>2. CASE LocalStep
    <2>1. UNCHANGED <<child, step, awaiting, timers, external>> /\ (~external \/ UNCHANGED phase)
      BY <1>2 DEF LocalStep, remoteVars
    <2>2. CASE ~external
      BY <1>1, <2>1, <2>2 DEF ThreadsOK, Threads, AtRestart, AtQuit
    <2>3. CASE UNCHANGED phase
      BY <1>1, <2>1, <2>3 DEF ThreadsOK
    <2>4. QED
      BY <2>1, <2>2, <2>3
  <1>3. CASE SetupDone
    <2>1. /\ phase \in Opening /\ phase' = "ready" /\ UNCHANGED <<child, external>>
          /\ external => step' = [step EXCEPT !["worker"] = "ensure"]
          /\ ~external => UNCHANGED <<step, awaiting>> /\ timers' = {"poll"}
      BY <1>3 DEF SetupDone, Opening
    <2>2. CASE external
      BY <1>1, <2>1, <2>2 DEF ThreadsOK, Threads, AtRestart, AtQuit, Opening
    <2>3. CASE ~external
      BY <1>1, <2>1, <2>3 DEF ThreadsOK, Threads, AtRestart, AtQuit, Opening
    <2>4. QED
      BY <2>2, <2>3
  <1>4. CASE Launch
    BY <1>1, <1>4 DEF Launch, ThreadsOK, tunnelVars, remoteVars, Opening, Threads, AtRestart, AtQuit
  <1>5. CASE ProcessEnds
    <2>1. /\ phase' = "off" /\ ~awaiting' /\ timers' = {}
          /\ child' = [child EXCEPT !["app"] = 0] /\ UNCHANGED external
          /\ step' = [step EXCEPT !["main"] = "idle", !["worker"] = "idle"]
      BY <1>5 DEF ProcessEnds
    <2>2. /\ step' \in [Threads -> {"idle", "ensure"} \cup AtRestart \cup AtQuit]
          /\ step'["main"] = "idle" /\ step'["worker"] = "idle" /\ step'["cli"] = step["cli"]
          /\ child'["app"] = 0 /\ child'["cli"] = child["cli"]
      BY <1>1, <2>1 DEF ThreadsOK, SshOK, Threads
    <2>3. QED
      BY <1>1, <2>1, <2>2 DEF ThreadsOK, Threads, AtRestart, AtQuit
  <1>6. CASE ConnectEnsure
    <2>1. /\ step["worker"] = "ensure"
          /\ \E s \in AtRestart : step' = [step EXCEPT !["worker"] = s]
          /\ UNCHANGED <<child, phase, awaiting, external, timers>>
      BY <1>6 DEF ConnectEnsure, AtRestart, lifeVars, remoteVars
    <2>2. QED
      BY <1>1, <2>1, ThreadsMove DEF Threads
  <1>7. ASSUME NEW b \in BOOLEAN, ConnectDone(b) PROVE ThreadsOK'
    <2>1. /\ step["worker"] # "idle" /\ step' = [step EXCEPT !["worker"] = "idle"]
          /\ UNCHANGED <<child, phase, external>> /\ (awaiting' => awaiting)
      BY <1>7 DEF ConnectDone, lifeVars
    <2>2. external
      BY <1>1, <2>1 DEF ThreadsOK, Threads, LifeOK
    <2>3. QED
      BY <1>1, <2>1, <2>2 DEF ThreadsOK, Threads, AtRestart, AtQuit, Opening
  <1>8. CASE RetryConnect
    <2>1. /\ "retry" \in timers /\ step["main"] = "idle"
          /\ UNCHANGED <<child, phase, external, awaiting>>
          /\ \E s \in {"ensure", step["worker"]} : step' = [step EXCEPT !["worker"] = s]
      BY <1>8 DEF RetryConnect, lifeVars
    <2>2. external /\ phase = "ready"
      BY <1>1, <2>1 DEF ThreadsOK, TimersOK, LifeOK
    <2>3. QED
      BY <1>1, <2>1, <2>2 DEF ThreadsOK, Threads, AtRestart, AtQuit, Opening
  <1>9. CASE PollTunnel \/ ProbeTunnel \/ ConfirmTunnel
    <2>1. external /\ UNCHANGED <<child, step, phase, external, awaiting>>
      BY <1>9 DEF PollTunnel, ProbeTunnel, ConfirmTunnel, MainFree, tunnelVars, lifeVars
    <2>2. QED
      BY <1>1, <2>1 DEF ThreadsOK
  <1>10. CASE RestartTunnel
    <2>1. /\ external /\ phase = "ready" /\ "restart" \in timers
          /\ UNCHANGED <<child, phase, external, awaiting>>
          /\ step' = [step EXCEPT !["main"] = "kill"]
      BY <1>10 DEF RestartTunnel, MainFree, lifeVars
    <2>2. QED
      BY <1>1, <2>1 DEF ThreadsOK, TimersOK, Threads, AtRestart, AtQuit, Opening
  <1>11. CASE RestartTunnelEnds
    <2>1. /\ step["main"] # "idle" /\ step' = [step EXCEPT !["main"] = "idle"]
          /\ UNCHANGED <<child, phase, external, awaiting>>
      BY <1>11 DEF RestartTunnelEnds, lifeVars
    <2>2. external
      BY <1>1, <2>1 DEF ThreadsOK, Threads, LifeOK
    <2>3. QED
      BY <1>1, <2>1, <2>2 DEF ThreadsOK, Threads, AtRestart, AtQuit, Opening
  <1>12. CASE QuitRemote
    <2>1. /\ external /\ phase' = "stopping" /\ ~awaiting'
          /\ UNCHANGED <<child, external>>
          /\ step' = [step EXCEPT !["main"] = "quitKill"]
      BY <1>12 DEF QuitRemote, MainFree
    <2>2. QED
      BY <1>1, <2>1 DEF ThreadsOK, Threads, AtRestart, AtQuit, Opening
  <1>13. ASSUME NEW s \in AtQuit, step["main"] \in AtQuit,
                step' = [step EXCEPT !["main"] = s],
                child' \in {child, [child EXCEPT !["app"] = 0]},
                UNCHANGED <<phase, awaiting, external, timers>>
         PROVE  ThreadsOK'
    <2>1. external
      BY <1>1, <1>13 DEF ThreadsOK, Threads, LifeOK, AtQuit
    <2>2. child'["cli"] = child["cli"]
      BY <1>1, <1>13 DEF SshOK
    <2>3. QED
      BY <1>1, <1>13, <2>1, <2>2 DEF ThreadsOK, Threads, AtRestart, AtQuit, Opening
  <1>14. CASE TunnelStep(QuitRemoteStep)
    <2>1. UNCHANGED <<phase, awaiting, external, timers>>
      BY <1>14 DEF TunnelStep, lifeVars, remoteVars
    <2>2. /\ step["main"] \in AtQuit /\ child' \in {child, [child EXCEPT !["app"] = 0]}
          /\ \E s \in AtQuit : step' = [step EXCEPT !["main"] = s]
      BY <1>14 DEF TunnelStep, QuitRemoteStep, StopKill, StopClean, AtQuit, ProcessOf
    <2>3. QED
      BY <1>13, <2>1, <2>2
  <1>15. CASE QuitRemoteEnds
    <2>1. /\ step["main"] \in AtQuit /\ step' = [step EXCEPT !["main"] = "idle"]
          /\ phase' = "closing" /\ UNCHANGED <<child, external, awaiting>>
      BY <1>15 DEF QuitRemoteEnds, AtQuit, remoteVars
    <2>2. external
      BY <1>1, <2>1 DEF ThreadsOK, Threads, LifeOK, AtQuit
    <2>3. QED
      BY <1>1, <2>1, <2>2 DEF ThreadsOK, Threads, AtRestart, AtQuit, Opening
  <1>16. CASE CliEnsure
    <2>1. external /\ step' = [step EXCEPT !["cli"] = "kill"]
          /\ UNCHANGED <<child, phase, external, awaiting>>
      BY <1>16 DEF CliEnsure, lifeVars, remoteVars
    <2>2. QED
      BY <1>1, <2>1 DEF ThreadsOK, Threads, AtRestart, AtQuit, Opening
  <1>17. CASE CliEnds
    <2>1. /\ step["cli"] # "idle" /\ step' = [step EXCEPT !["cli"] = "idle"]
          /\ child' = [child EXCEPT !["cli"] = 0]
          /\ UNCHANGED <<phase, external, awaiting>>
      BY <1>17 DEF CliEnds, lifeVars, remoteVars
    <2>2. external
      BY <1>1, <2>1 DEF ThreadsOK, Threads, LifeOK
    <2>3. child'["cli"] = 0 /\ child'["app"] = child["app"]
      BY <1>1, <2>1 DEF SshOK
    <2>4. QED
      BY <1>1, <2>1, <2>2, <2>3 DEF ThreadsOK, Threads, AtRestart, AtQuit, Opening
  <1>18. ASSUME NEW t \in Threads, TunnelStep(RestartStep(t)) PROVE ThreadsOK'
    <2>1. UNCHANGED <<phase, awaiting, external, timers>>
      BY <1>18 DEF TunnelStep, lifeVars, remoteVars
    <2>2. /\ step[t] \in AtRestart
          /\ \E s \in AtRestart : step' = [step EXCEPT ![t] = s]
          /\ child' = child \/ \E c : child' = [child EXCEPT ![ProcessOf(t)] = c]
      BY <1>18 DEF TunnelStep, RestartStep, StopKill, StopClean, Spawn, SpawnRaises, WritePid,
              SocketUp, SocketNot, AtRestart
    <2>3. /\ child'["cli"] = child["cli"] \/ t = "cli"
          /\ child'["app"] = child["app"] \/ t # "cli"
      BY <1>1, <2>2 DEF SshOK, ProcessOf
    <2>4. QED
      BY <1>1, <2>1, <2>2, <2>3, ThreadsMove
  <1>19. CASE TunnelStep(SshStep)
    <2>1. UNCHANGED <<child, step, phase, awaiting, external, timers>>
      BY <1>19 DEF TunnelStep, SshStep, Forward, SshEnds, PidRecycled, AlienEnds, lifeVars,
              remoteVars
    <2>2. QED
      BY <1>1, <2>1 DEF ThreadsOK
  <1>20. ASSUME NEW t \in Threads, PidUnwritten(t) PROVE ThreadsOK'
    <2>1. /\ UNCHANGED <<phase, awaiting, external, timers, child>>
          /\ step[t] \in AtRestart /\ step' = [step EXCEPT ![t] = "wait"]
      BY <1>20 DEF PidUnwritten, WritePidFails, AtRestart, lifeVars, remoteVars
    <2>2. "wait" \in AtRestart
      BY DEF AtRestart
    <2>3. QED
      BY <1>1, <2>1, <2>2, ThreadsMove
  <1>21. CASE NoBinary
    <2>1. /\ ~external /\ UNCHANGED <<child, step, awaiting, external>>
          /\ timers' \subseteq timers
      BY <1>21 DEF NoBinary, EnsureRaises
    <2>2. QED
      BY <1>1, <2>1 DEF ThreadsOK, Threads, AtRestart, AtQuit
  <1>22. QED
    BY <1>1, <1>2, <1>3, <1>4, <1>5, <1>6, <1>7, <1>8, <1>9, <1>10, <1>11, <1>12, <1>14, <1>15,
       <1>16, <1>17, <1>18, <1>19, <1>20, <1>21, LocalSteps, Zenon

LEMMA TimersStep == AppInv /\ [AppNext]_appVars => TimersOK'
  <1> SUFFICES ASSUME AppInv, [AppNext]_appVars PROVE TimersOK'
    OBVIOUS
  <1>1. ThreadsOK /\ LifeOK /\ TimersOK
    BY DEF AppInv
  <1>2. CASE LocalStep
    <2>1. /\ UNCHANGED <<step, awaiting, timers, fail, restarting>>
          /\ ~external \/ UNCHANGED phase
          /\ phase' \in Opening => phase \in Opening
      BY <1>2 DEF LocalStep, remoteVars
    <2>2. QED
      BY <1>1, <2>1 DEF ThreadsOK, TimersOK
  <1>3. CASE SetupDone
    <2>1. /\ phase \in Opening /\ phase' = "ready" /\ UNCHANGED <<fail, restarting>>
          /\ external => timers' = {"poll", "probe"}
          /\ ~external => UNCHANGED <<step, awaiting>> /\ timers' = {"poll"}
      BY <1>3 DEF SetupDone, Opening
    <2>2. QED
      BY <1>1, <2>1 DEF ThreadsOK, TimersOK, Opening
  <1>4. CASE Launch
    BY <1>1, <1>4 DEF Launch, TimersOK, tunnelVars, remoteVars, Opening
  <1>5. CASE ProcessEnds
    <2>1. /\ timers' = {} /\ ~awaiting' /\ fail' = 0 /\ restarting' \in BOOLEAN
      BY <1>5, Zenon DEF ProcessEnds
    <2>2. QED
      BY <2>1 DEF TimersOK
  <1>6. CASE ConnectEnsure
    <2>1. /\ step["worker"] = "ensure"
          /\ UNCHANGED <<awaiting, timers, fail, restarting, phase>>
      BY <1>6 DEF ConnectEnsure, lifeVars, remoteVars
    <2>2. QED
      BY <1>1, <2>1 DEF TimersOK
  <1>7. ASSUME NEW b \in BOOLEAN, ConnectDone(b) PROVE TimersOK'
    <2>1. /\ step' = [step EXCEPT !["worker"] = "idle"]
          /\ (awaiting' => awaiting) /\ UNCHANGED <<fail, restarting, phase>>
          /\ timers' = timers \/ (awaiting' /\ timers' = timers \cup {"retry"})
      BY <1>7 DEF ConnectDone, lifeVars
    <2>2. step'["worker"] = "idle"
      BY <1>1, <2>1 DEF ThreadsOK, Threads
    <2>3. QED
      BY <1>1, <2>1, <2>2 DEF TimersOK, Opening
  <1>8. CASE RetryConnect
    <2>1. /\ timers' = timers \ {"retry"} /\ UNCHANGED <<fail, restarting, phase, awaiting>>
      BY <1>8 DEF RetryConnect, lifeVars
    <2>2. QED
      BY <1>1, <2>1 DEF TimersOK
  <1>9. ASSUME MainFree, NEW left, left \subseteq timers, ~awaiting, Schedule(left),
               UNCHANGED <<phase, awaiting, step>>, fail' \in {0, 1}
        PROVE  TimersOK'
    <2>1. timers' \subseteq left \cup {"restart"}
      BY <1>9 DEF Schedule
    <2>2. restarting' \in BOOLEAN
      BY <1>1, <1>9 DEF Schedule, TimersOK
    <2>3. QED
      BY <1>1, <1>9, <2>1, <2>2 DEF TimersOK, MainFree, Opening
  <1>10. CASE PollTunnel
    <2>1. /\ MainFree /\ ~awaiting /\ Schedule(timers) /\ UNCHANGED <<fail, phase, awaiting, step>>
      BY <1>10 DEF PollTunnel, tunnelVars, lifeVars
    <2>2. QED
      BY <1>1, <1>9, <2>1 DEF TimersOK
  <1>11. CASE ProbeTunnel
    <2>1. /\ MainFree /\ UNCHANGED <<phase, awaiting, step>> /\ fail \in {0, 1}
      BY <1>1, <1>11 DEF ProbeTunnel, tunnelVars, lifeVars, TimersOK
    <2>2. \/ timers' \subseteq timers /\ UNCHANGED <<fail, restarting>>
          \/ fail' = 0 /\ UNCHANGED <<timers, restarting>>
          \/ ~awaiting /\ fail' = 1 /\ timers' = timers \cup {"confirm"} /\ UNCHANGED restarting
          \/ ~awaiting /\ fail' = 0 /\ Schedule(timers)
      BY <1>11 DEF ProbeTunnel
    <2>3. QED
      BY <1>1, <1>9, <2>1, <2>2 DEF TimersOK, MainFree, Opening
  <1>12. CASE ConfirmTunnel
    <2>1. /\ MainFree /\ "confirm" \in timers /\ UNCHANGED <<phase, awaiting, step>>
          /\ fail \in {0, 1} /\ ~awaiting
      BY <1>1, <1>12 DEF ConfirmTunnel, tunnelVars, lifeVars, TimersOK
    <2>2. \/ timers' \subseteq timers /\ UNCHANGED restarting /\ fail' \in {0, fail}
          \/ fail' = 0 /\ Schedule(timers \ {"confirm"})
      BY <1>12 DEF ConfirmTunnel
    <2>3. QED
      BY <1>1, <1>9, <2>1, <2>2 DEF TimersOK
  <1>13. CASE RestartTunnel
    <2>1. /\ timers' \subseteq timers /\ UNCHANGED <<fail, restarting, phase, awaiting>>
          /\ step' = [step EXCEPT !["main"] = "kill"]
      BY <1>13 DEF RestartTunnel, lifeVars
    <2>2. step'["worker"] = step["worker"]
      BY <1>1, <2>1 DEF ThreadsOK, Threads
    <2>3. QED
      BY <1>1, <2>1, <2>2 DEF TimersOK
  <1>14. CASE RestartTunnelEnds
    <2>1. /\ step["main"] \in AtRestart /\ UNCHANGED <<fail, phase, awaiting>>
          /\ step' = [step EXCEPT !["main"] = "idle"]
      BY <1>14 DEF RestartTunnelEnds, AtRestart, lifeVars
    <2>2. timers' \subseteq timers \cup {"restart"}
      BY <1>14 DEF RestartTunnelEnds
    <2>3. restarting' \in BOOLEAN
      BY <1>1, <1>14 DEF RestartTunnelEnds, TimersOK
    <2>4. step'["worker"] = step["worker"] /\ phase = "ready" /\ ~awaiting
      BY <1>1, <2>1 DEF ThreadsOK, Threads
    <2>5. QED
      BY <1>1, <2>1, <2>2, <2>3, <2>4 DEF TimersOK, Opening
  <1>15. CASE QuitRemote
    <2>1. timers' = {} /\ ~awaiting' /\ UNCHANGED <<fail, restarting>>
      BY <1>15 DEF QuitRemote
    <2>2. QED
      BY <1>1, <2>1 DEF TimersOK
  <1>16. CASE QuitRemoteEnds
    <2>1. /\ step["main"] \in AtQuit /\ UNCHANGED <<timers, awaiting, fail, restarting>>
          /\ phase' = "closing" /\ step' = [step EXCEPT !["main"] = "idle"]
      BY <1>16 DEF QuitRemoteEnds, AtQuit, remoteVars
    <2>2. phase # "ready" /\ step'["worker"] = step["worker"]
      BY <1>1, <2>1 DEF ThreadsOK, Threads
    <2>3. QED
      BY <1>1, <2>1, <2>2 DEF TimersOK, Opening
  <1>17. ASSUME NEW t \in Threads, NEW s, t # "worker" \/ step[t] # "idle",
                step' = [step EXCEPT ![t] = s],
                UNCHANGED <<phase, timers, awaiting, fail, restarting>>
         PROVE  TimersOK'
    <2>1. "retry" \in timers => step'["worker"] = "idle"
      BY <1>1, <1>17 DEF ThreadsOK, Threads, TimersOK
    <2>2. QED
      BY <1>1, <1>17, <2>1 DEF TimersOK
  <1>18. CASE TunnelStep(QuitRemoteStep) \/ CliEnsure \/ CliEnds
    <2>1. /\ UNCHANGED <<phase, timers, awaiting, fail, restarting>>
          /\ \E t \in {"main", "cli"}, s \in {"quitClean", "quitDone", "kill", "idle"} :
                step' = [step EXCEPT ![t] = s]
      BY <1>18 DEF TunnelStep, QuitRemoteStep, StopKill, StopClean, CliEnsure, CliEnds, lifeVars,
              remoteVars
    <2>2. QED
      BY <1>17, <2>1 DEF Threads
  <1>19. ASSUME NEW t \in Threads, TunnelStep(RestartStep(t)) PROVE TimersOK'
    <2>1. /\ UNCHANGED <<phase, timers, awaiting, fail, restarting>> /\ step[t] # "idle"
          /\ \E s \in AtRestart : step' = [step EXCEPT ![t] = s]
      BY <1>19 DEF AtRestart, TunnelStep, RestartStep, StopKill, StopClean, Spawn, SpawnRaises,
              WritePid, SocketUp, SocketNot, lifeVars, remoteVars
    <2>2. QED
      BY <1>17, <2>1
  <1>20. CASE TunnelStep(SshStep)
    <2>1. UNCHANGED <<step, phase, timers, awaiting, fail, restarting>>
      BY <1>20 DEF TunnelStep, SshStep, Forward, SshEnds, PidRecycled, AlienEnds, lifeVars,
              remoteVars
    <2>2. QED
      BY <1>1, <2>1 DEF TimersOK
  <1>21. ASSUME NEW t \in Threads, PidUnwritten(t) PROVE TimersOK'
    <2>1. /\ UNCHANGED <<phase, timers, awaiting, fail, restarting>> /\ step[t] # "idle"
          /\ step' = [step EXCEPT ![t] = "wait"]
      BY <1>21 DEF PidUnwritten, WritePidFails, lifeVars, remoteVars
    <2>2. QED
      BY <1>17, <2>1
  <1>22. CASE NoBinary
    <2>1. /\ ~external /\ UNCHANGED <<step, awaiting, fail, restarting>>
          /\ timers' \subseteq timers
          /\ phase \in Opening \/ phase' \notin Opening
      BY <1>22 DEF NoBinary, EnsureRaises, Opening
    <2>2. timers \subseteq {"poll"} /\ ~awaiting
      BY <1>1, <2>1 DEF ThreadsOK
    <2>3. QED
      BY <1>1, <2>1, <2>2 DEF TimersOK
  <1>23. QED
    BY <1>1, <1>2, <1>3, <1>4, <1>5, <1>6, <1>7, <1>8, <1>10, <1>11, <1>12, <1>13, <1>14, <1>15,
       <1>16, <1>18, <1>19, <1>20, <1>21, <1>22, LocalSteps, Zenon

\* Daemons that come and go.
LEMMA DaemonEnds ==
    ASSUME DaemonsOK, NEW d \in Daemonlings, DaemonGone(d)
    PROVE  /\ dstate' \in [Daemonlings -> {"none", "boot", "locked", "up", "closing"}]
           /\ LiveDaemons' = LiveDaemons \ {d} /\ dlock' \cup term' \subseteq LiveDaemons'
           /\ \A e \in Daemonlings : e # d => dstate'[e] = dstate[e]
  BY DEF DaemonGone, DaemonsOK, LiveDaemons

LEMMA DaemonGoesOn ==
    ASSUME DaemonsOK, NEW d \in LiveDaemons, NEW s \in {"locked", "up", "closing"},
           dstate' = [dstate EXCEPT ![d] = s], dlock' \cup term' \subseteq LiveDaemons
    PROVE  /\ dstate' \in [Daemonlings -> {"none", "boot", "locked", "up", "closing"}]
           /\ LiveDaemons' = LiveDaemons /\ dlock' \cup term' \subseteq LiveDaemons'
           /\ dstate'[d] = s /\ \A e \in Daemonlings : e # d => dstate'[e] = dstate[e]
  BY DEF DaemonsOK, LiveDaemons

LEMMA DaemonActsOK ==
    ASSUME DaemonsOK, NEW d \in Daemonlings, DaemonActs(d)
    PROVE  /\ dstate' \in [Daemonlings -> {"none", "boot", "locked", "up", "closing"}]
           /\ LiveDaemons' \subseteq LiveDaemons /\ dlock' \cup term' \subseteq LiveDaemons'
           /\ {apiSock', dpid', dchild'} \subseteq Daemonlings \cup {0}
  <1>1. CASE TakeLock(d)
    <2>1. d \in LiveDaemons /\ UNCHANGED <<apiSock, dpid, dchild>>
      BY <1>1 DEF TakeLock, LiveDaemons
    <2>2. \/ DaemonGone(d)
          \/ dlock' = {d} /\ dstate' = [dstate EXCEPT ![d] = "locked"] /\ UNCHANGED term
      BY <1>1 DEF TakeLock
    <2>3. QED
      BY <2>1, <2>2, DaemonEnds, DaemonGoesOn DEF DaemonsOK
  <1>2. CASE Listen(d)
    <2>1. d \in LiveDaemons /\ dstate' = [dstate EXCEPT ![d] = "up"]
          /\ apiSock' = d /\ UNCHANGED <<dlock, term, dpid, dchild>>
      BY <1>2 DEF Listen, LiveDaemons
    <2>2. /\ dlock' \cup term' \subseteq LiveDaemons
          /\ {apiSock', dpid', dchild'} \subseteq Daemonlings \cup {0}
      BY <2>1 DEF DaemonsOK
    <2>3. QED
      BY <2>1, <2>2, DaemonGoesOn
  <1>3. CASE Obey(d)
    <2>1. d \in LiveDaemons /\ apiSock' \in {0, apiSock} /\ UNCHANGED <<dpid, dchild>>
      BY <1>3 DEF Obey, DaemonsOK
    <2>2. \/ DaemonGone(d)
          \/ dstate' = [dstate EXCEPT ![d] = "closing"] /\ term' = term \ {d} /\ UNCHANGED dlock
      BY <1>3 DEF Obey
    <2>3. QED
      BY <2>1, <2>2, DaemonEnds, DaemonGoesOn DEF DaemonsOK
  <1>4. CASE DaemonExit(d)
    BY <1>4, DaemonEnds DEF DaemonExit, DaemonsOK
  <1>5. QED
    BY <1>1, <1>2, <1>3, <1>4 DEF DaemonActs

LEMMA DaemonsStep == AppInv /\ [AppNext]_appVars => DaemonsOK'
  <1> SUFFICES ASSUME AppInv, [AppNext]_appVars PROVE DaemonsOK'
    OBVIOUS
  <1>1. DaemonsOK /\ LifeOK
    BY DEF AppInv
  <1>2. ASSUME UNCHANGED <<dstate, dlock, term, apiSock, dpid, external>>,
               dchild' \in {0, dchild}, victim' \in {0, victim}
        PROVE  DaemonsOK'
    BY <1>1, <1>2 DEF DaemonsOK, LiveDaemons
  <1>3. CASE RemoteStep \/ SetupDone \/ RestartFound \/ ProcessEnds
             \/ (LaunchSecond /\ armed) \/ Launch \/ QuitRemote \/ QuitRemoteEnds
             \/ NoBinary
    BY <1>2, <1>3 DEF NoBinary, EnsureRaises, RemoteStep, SetupDone, RestartFound, ProcessEnds, LaunchSecond, Launch,
            QuitRemote, QuitRemoteEnds, daemonVars, lifeVars
  <1>4. CASE SetupFails \/ PollEnds
    BY <1>2, <1>4 DEF SetupFails, PollEnds, daemonVars
  <1>5. CASE EnsureSpawn
    <2>1. PICK d \in FreshDaemons : /\ dstate' = [dstate EXCEPT ![d] = "boot"]
                                    /\ dpid' \in {d, dpid} /\ dchild' = d
                                    /\ UNCHANGED <<dlock, term, apiSock>>
      BY <1>5 DEF EnsureSpawn, SpawnDaemon
    <2>2. UNCHANGED <<external, victim>> /\ ~external
      BY <1>5 DEF EnsureSpawn
    <2>3. LiveDaemons' = LiveDaemons \cup {d}
      BY <1>1, <2>1 DEF FreshDaemons, LiveDaemons, DaemonsOK
    <2>4. IsFiniteSet(LiveDaemons')
      BY <1>1, <2>3, FS_AddElement DEF DaemonsOK
    <2>5. QED
      BY <1>1, <2>1, <2>2, <2>3, <2>4 DEF DaemonsOK, FreshDaemons
  <1>6. DaemonTargets \subseteq Daemonlings
    BY <1>1 DEF DaemonTargets, PidFromSocket, PidFromFile, PidFromProcs, Listening, DaemonsOK,
            LiveDaemons
  <1>7. CASE Quit \/ RestartDaemon
    <2>1. /\ ~external /\ UNCHANGED <<dstate, dlock, apiSock, dpid, dchild, external>>
          /\ victim' \in DaemonTargets \cup {0} /\ term' \subseteq term \cup LiveDaemons
      BY <1>7 DEF Quit, RestartDaemon, StopDaemon
    <2>2. QED
      BY <1>1, <1>6, <2>1 DEF DaemonsOK, LiveDaemons
  <1>8. CASE StopEnds
    <2>1. ~external /\ dpid' = 0 /\ victim' = 0 /\ UNCHANGED <<apiSock, dchild, external>>
      BY <1>8 DEF StopEnds
    <2>2. \/ UNCHANGED <<dstate, dlock, term>>
          \/ victim \in LiveDaemons /\ DaemonGone(victim)
      BY <1>8 DEF StopEnds
    <2>3. CASE UNCHANGED <<dstate, dlock, term>>
      BY <1>1, <2>1, <2>3 DEF DaemonsOK, LiveDaemons
    <2>4. CASE victim \in LiveDaemons /\ DaemonGone(victim)
      <3>1. victim \in Daemonlings
        BY <2>4 DEF LiveDaemons
      <3>2. LiveDaemons' \subseteq LiveDaemons
        BY <1>1, <2>4, <3>1, DaemonEnds
      <3>3. IsFiniteSet(LiveDaemons')
        BY <1>1, <3>2, FS_Subset DEF DaemonsOK
      <3>4. QED
        BY <1>1, <2>1, <2>4, <3>1, <3>3, DaemonEnds DEF DaemonsOK
    <2>5. QED
      BY <2>2, <2>3, <2>4
  <1>9. CASE StopAllDaemons
    BY <1>1, <1>9 DEF StopAllDaemons, DaemonsOK, LiveDaemons, lifeVars
  <1>10. ASSUME NEW d \in Daemonlings, DaemonLife(d) \/ LockCollected(d) \/ DaemonFault(d)
         PROVE  DaemonsOK'
    <2>1. UNCHANGED <<external, victim>>
      BY <1>10 DEF DaemonLife, LockCollected, DaemonFault, lifeVars
    <2>2. /\ dstate' \in [Daemonlings -> {"none", "boot", "locked", "up", "closing"}]
          /\ LiveDaemons' \subseteq LiveDaemons /\ dlock' \cup term' \subseteq LiveDaemons'
          /\ {apiSock', dpid', dchild'} \subseteq Daemonlings \cup {0}
      <3>1. CASE DaemonLife(d)
        BY <1>1, <3>1, DaemonActsOK DEF DaemonLife
      <3>2. CASE LockCollected(d)
        BY <1>1, <3>2 DEF LockCollected, CollectLock, DaemonsOK, LiveDaemons
      <3>3. CASE DaemonFault(d)
        BY <1>1, <3>3, DaemonEnds DEF DaemonFault, DaemonCrash, DaemonsOK
      <3>4. QED
        BY <1>10, <3>1, <3>2, <3>3
    <2>3. IsFiniteSet(LiveDaemons')
      BY <1>1, <2>2, FS_Subset DEF DaemonsOK
    <2>4. QED
      BY <1>1, <2>1, <2>2, <2>3 DEF DaemonsOK
  <1>11. QED
    BY <1>3, <1>4, <1>5, <1>7, <1>8, <1>9, <1>10, RemoteSteps, Zenon

LEMMA AppInvStep == AppInv /\ [AppNext]_appVars => AppInv'
  BY LifeStep, DaemonsStep, SshStepOK, ThreadsStep, TimersStep, FaultsStep DEF AppInv

LEMMA AppInvAlways == AppSpec => []AppInv
  BY AppInvInit, AppInvStep, PTL DEF AppSpec

(***************************************************************************)
(* AppTypeOK for any processes and any number of faults: timers and the    *)
(* first connection belong to an application that is ready, and locks and  *)
(* signals to daemons that live (gtkui.py, AimlessApp).                    *)
(***************************************************************************)
THEOREM AppTypes == AppSpec => []AppTypeOK
  BY AppInvAlways, AppInvTypes, PTL

-----------------------------------------------------------------------------
(***************************************************************************)
(* Where the one ssh process is.  While no start was cut short, tunnel.pid *)
(* could be written and the command line kept out of a running             *)
(* application's way, one thread at a time works on the tunnel, and at     *)
(* each of its steps the ssh that lives is known: to the pid file, and to  *)
(* the child handle until it is written.                                   *)
(***************************************************************************)
OneAtATime == /\ step["worker"] # "idle" => awaiting
              /\ step["cli"] # "idle" => phase = "off"

Tidy == /\ \A t \in Threads : step[t] \in {"clean", "quitClean", "spawn"} => ssh = {}
        /\ \A t \in Threads : step[t] \in {"spawn", "write"} => tunnelPid = 0
        /\ \A t \in Threads : step[t] = "spawn" => \A p \in {"app", "cli"} : child[p] = 0
        /\ \A t \in Threads : step[t] = "write" =>
              /\ ssh \subseteq {child[ProcessOf(t)]}
              /\ \A p \in {"app", "cli"} : p # ProcessOf(t) => child[p] = 0
        /\ (\A t \in Threads : step[t] # "write") =>
              /\ ssh \subseteq {tunnelPid}
              /\ \A p \in {"app", "cli"} : child[p] \in {0, tunnelPid}

TunnelInv == strayed \/ (OneAtATime /\ Tidy)

LEMMA OnlyOneAtWork ==
    ASSUME AppInv, OneAtATime, NEW t \in Threads, step[t] # "idle"
    PROVE  /\ \A u \in Threads : u # t => step[u] = "idle"
           /\ \A p \in {"app", "cli"} : p # ProcessOf(t) => child[p] = 0
  <1>1. CASE t = "main"
    <2>1. phase # "off" /\ ~awaiting
      BY <1>1 DEF AppInv, ThreadsOK, TimersOK
    <2>2. step["worker"] = "idle" /\ step["cli"] = "idle"
      BY <2>1 DEF OneAtATime
    <2>3. QED
      BY <1>1, <2>2 DEF AppInv, ThreadsOK, Threads, ProcessOf
  <1>2. CASE t = "worker"
    BY <1>2 DEF AppInv, ThreadsOK, TimersOK, OneAtATime, Threads, AtRestart, AtQuit, ProcessOf
  <1>3. CASE t = "cli"
    BY <1>3 DEF AppInv, ThreadsOK, OneAtATime, Threads, Opening, ProcessOf
  <1>4. QED
    BY <1>1, <1>2, <1>3 DEF Threads

\* A thread moves among the steps that touch nothing.
LEMMA QuietMove ==
    ASSUME ThreadsOK, Tidy, NEW t \in Threads, NEW s,
           s \notin {"clean", "quitClean", "spawn", "write"}, step[t] # "write",
           step' = [step EXCEPT ![t] = s], UNCHANGED <<ssh, tunnelPid, child>>
    PROVE  Tidy'
  <1>1. step'[t] = s /\ \A u \in Threads : u # t => step'[u] = step[u]
    BY DEF ThreadsOK
  <1>2. \A u \in Threads : step'[u] # step[u] => u = t
    BY <1>1
  <1>3. QED
    BY <1>1, <1>2 DEF Tidy

LEMMA OneAtATimeStep ==
    ASSUME AppInv, OneAtATime, [AppNext]_appVars
    PROVE  strayed' \/ OneAtATime'
  <1>1. ThreadsOK /\ LifeOK /\ TimersOK /\ ThreadsOK' /\ LifeOK'
    BY AppInvStep DEF AppInv
  <1>2. CASE LocalStep
    BY <1>1, <1>2 DEF LocalStep, remoteVars, OneAtATime, ThreadsOK, Threads
  <1>3. CASE SetupDone
    <2>1. phase # "off" /\ UNCHANGED external /\ (external => awaiting')
      BY <1>3 DEF SetupDone
    <2>2. step'["cli"] = step["cli"]
      BY <1>1, <1>3 DEF SetupDone, ThreadsOK, Threads
    <2>3. QED
      BY <1>1, <2>1, <2>2 DEF OneAtATime, ThreadsOK, Threads
  <1>4. CASE Launch
    <2>1. strayed' \/ step["cli"] = "idle"
      BY <1>4 DEF Launch
    <2>2. UNCHANGED <<step, awaiting>>
      BY <1>4 DEF Launch, tunnelVars, remoteVars
    <2>3. QED
      BY <2>1, <2>2 DEF OneAtATime
  <1>5. CASE ProcessEnds
    <2>1. phase' = "off"
      BY <1>5 DEF ProcessEnds
    <2>2. QED
      BY <1>1, <2>1 DEF OneAtATime, ThreadsOK, Opening
  <1>6. CASE ConnectEnsure \/ TunnelStep(QuitRemoteStep) \/ RestartTunnel \/ RestartTunnelEnds
    <2>1. /\ UNCHANGED <<phase, awaiting>>
          /\ \/ step["worker"] # "idle" /\ \E s : step' = [step EXCEPT !["worker"] = s]
             \/ \E s : step' = [step EXCEPT !["main"] = s]
      BY <1>6 DEF ConnectEnsure, TunnelStep, QuitRemoteStep, StopKill, StopClean, RestartTunnel,
             RestartTunnelEnds, lifeVars, remoteVars
    <2>2. step'["cli"] = step["cli"] /\ (step'["worker"] # "idle" => step["worker"] # "idle")
      BY <1>1, <2>1 DEF ThreadsOK, Threads
    <2>3. QED
      BY <2>1, <2>2 DEF OneAtATime
  <1>7. ASSUME NEW b \in BOOLEAN, ConnectDone(b) PROVE OneAtATime'
    <2>1. UNCHANGED phase /\ step' = [step EXCEPT !["worker"] = "idle"]
      BY <1>7 DEF ConnectDone, lifeVars
    <2>2. step'["cli"] = step["cli"] /\ step'["worker"] = "idle"
      BY <1>1, <2>1 DEF ThreadsOK, Threads
    <2>3. QED
      BY <2>1, <2>2 DEF OneAtATime
  <1>8. CASE RetryConnect
    <2>1. /\ UNCHANGED <<phase, awaiting>>
          /\ \/ awaiting /\ step' = [step EXCEPT !["worker"] = "ensure"]
             \/ step' = [step EXCEPT !["worker"] = step["worker"]]
      BY <1>8 DEF RetryConnect, lifeVars
    <2>2. step'["cli"] = step["cli"] /\ (awaiting \/ step'["worker"] = step["worker"])
      BY <1>1, <2>1 DEF ThreadsOK, Threads
    <2>3. QED
      BY <2>1, <2>2 DEF OneAtATime
  <1>9. CASE PollTunnel \/ ProbeTunnel \/ ConfirmTunnel \/ TunnelStep(SshStep)
    <2>1. UNCHANGED <<phase, awaiting, step>>
      BY <1>9 DEF PollTunnel, ProbeTunnel, ConfirmTunnel, TunnelStep, SshStep, Forward, SshEnds,
             PidRecycled, AlienEnds, tunnelVars, lifeVars, remoteVars
    <2>2. QED
      BY <2>1 DEF OneAtATime
  <1>10. CASE QuitRemote
    <2>1. /\ strayed' \/ step["worker"] = "idle"
          /\ phase = "ready" /\ step' = [step EXCEPT !["main"] = "quitKill"]
      BY <1>10 DEF QuitRemote, MainFree
    <2>2. step'["cli"] = step["cli"] /\ step'["worker"] = step["worker"]
      BY <1>1, <2>1 DEF ThreadsOK, Threads
    <2>3. QED
      BY <2>1, <2>2 DEF OneAtATime
  <1>11. CASE QuitRemoteEnds
    <2>1. /\ step["main"] \in AtQuit /\ step' = [step EXCEPT !["main"] = "idle"]
          /\ UNCHANGED awaiting
      BY <1>11 DEF QuitRemoteEnds, AtQuit, remoteVars
    <2>2. step'["cli"] = step["cli"] /\ step'["worker"] = step["worker"] /\ phase # "off"
      BY <1>1, <2>1 DEF ThreadsOK, Threads
    <2>3. QED
      BY <2>1, <2>2 DEF OneAtATime
  <1>12. CASE CliEnsure \/ CliEnds
    <2>1. /\ UNCHANGED <<phase, awaiting>>
          /\ \/ (strayed' \/ phase = "off") /\ step' = [step EXCEPT !["cli"] = "kill"]
             \/ step' = [step EXCEPT !["cli"] = "idle"]
      BY <1>12 DEF CliEnsure, CliEnds, lifeVars, remoteVars
    <2>2. /\ step'["worker"] = step["worker"]
          /\ step'["cli"] = "idle" \/ strayed' \/ phase = "off"
      BY <1>1, <2>1 DEF ThreadsOK, Threads
    <2>3. QED
      BY <2>1, <2>2 DEF OneAtATime
  <1>13. ASSUME NEW t \in Threads, TunnelStep(RestartStep(t)) PROVE OneAtATime'
    <2>1. /\ UNCHANGED <<phase, awaiting>> /\ step[t] # "idle"
          /\ \E s : step' = [step EXCEPT ![t] = s]
      BY <1>13 DEF TunnelStep, RestartStep, StopKill, StopClean, Spawn, SpawnRaises, WritePid,
              SocketUp, SocketNot, lifeVars, remoteVars
    <2>2. \A u \in Threads : step'[u] # "idle" => step[u] # "idle"
      BY <1>1, <2>1 DEF ThreadsOK
    <2>3. QED
      BY <2>1, <2>2 DEF OneAtATime, Threads
  <1>14. CASE NoBinary
    <2>1. ~external /\ UNCHANGED step
      BY <1>14 DEF NoBinary, EnsureRaises
    <2>2. QED
      BY <1>1, <2>1 DEF OneAtATime, ThreadsOK, Threads
  <1>15. (\E t \in Threads : PidUnwritten(t)) => strayed'
    BY DEF PidUnwritten
  <1>16. QED
    BY <1>1, <1>2, <1>3, <1>4, <1>5, <1>6, <1>7, <1>8, <1>9, <1>10, <1>11, <1>12, <1>13,
       <1>14, <1>15, LocalSteps, Zenon

LEMMA TidyStep ==
    ASSUME AppInv, OneAtATime, Tidy, [AppNext]_appVars
    PROVE  strayed' \/ Tidy'
  <1>1. ThreadsOK /\ LifeOK /\ TimersOK /\ SshOK
    BY DEF AppInv
  <1>2. ASSUME UNCHANGED <<ssh, tunnelPid, child, step>> PROVE Tidy'
    BY <1>2 DEF Tidy
  <1>3. CASE LocalStep \/ Launch \/ PollTunnel \/ ProbeTunnel \/ ConfirmTunnel \/ NoBinary
    BY <1>2, <1>3 DEF NoBinary, EnsureRaises, LocalStep, Launch, PollTunnel, ProbeTunnel, ConfirmTunnel, tunnelVars
  <1>4. CASE SetupDone
    <2>1. /\ UNCHANGED <<ssh, tunnelPid, child>> /\ phase \in Opening
          /\ UNCHANGED step \/ step' = [step EXCEPT !["worker"] = "ensure"]
      BY <1>4 DEF SetupDone, Opening
    <2>2. step["worker"] # "write"
      BY <1>1, <2>1 DEF ThreadsOK
    <2>3. QED
      BY <1>1, <1>2, <2>1, <2>2, QuietMove DEF Threads
  <1>5. CASE (QuitEnds \/ KillApp \/ LaunchSecond) /\ ProcessEnds
    <2>1. phase # "off"
      BY <1>5 DEF QuitEnds, KillApp, LaunchSecond
    <2>2. /\ step' = [step EXCEPT !["main"] = "idle", !["worker"] = "idle"]
          /\ child' = [child EXCEPT !["app"] = 0] /\ UNCHANGED <<ssh, tunnelPid>>
          /\ strayed' \/ (step["worker"] # "write" /\ step["main"] # "write")
      BY <1>5 DEF ProcessEnds
    <2>3. /\ step["cli"] = "idle" /\ \A t \in Threads : step'[t] = "idle"
          /\ child'["app"] = 0 /\ child'["cli"] = child["cli"]
      BY <1>1, <2>1, <2>2 DEF OneAtATime, ThreadsOK, SshOK, Threads
    <2>4. strayed' \/ \A t \in Threads : step[t] # "write"
      BY <2>2, <2>3 DEF Threads
    <2>5. QED
      BY <2>2, <2>3, <2>4 DEF Tidy
  <1>6. CASE ConnectEnsure \/ (\E b \in BOOLEAN : ConnectDone(b)) \/ RetryConnect
    <2>1. /\ UNCHANGED <<ssh, tunnelPid, child>>
          /\ step["worker"] \in {"ensure", "up", "down", "raised"} \/ "retry" \in timers
          /\ \E s \in {"up", "kill", "idle", "ensure", step["worker"]} :
                step' = [step EXCEPT !["worker"] = s]
      BY <1>6 DEF ConnectEnsure, ConnectDone, RetryConnect
    <2>2. step["worker"] \in {"ensure", "up", "down", "raised", "idle"}
      BY <1>1, <2>1 DEF TimersOK
    <2>3. QED
      BY <1>1, <2>1, <2>2, QuietMove DEF Threads
  <1>7. CASE RestartTunnel \/ RestartTunnelEnds \/ QuitRemote \/ QuitRemoteEnds
    <2>1. /\ UNCHANGED <<ssh, tunnelPid, child>>
          /\ step["main"] \in {"idle", "up", "down", "raised", "quitDone"}
          /\ \E s \in {"kill", "idle", "quitKill"} : step' = [step EXCEPT !["main"] = s]
      BY <1>7 DEF RestartTunnel, RestartTunnelEnds, QuitRemote, QuitRemoteEnds, MainFree
    <2>2. QED
      BY <1>1, <2>1, QuietMove DEF Threads
  <1>8. CASE CliEnsure
    <2>1. /\ UNCHANGED <<ssh, tunnelPid, child>> /\ step["cli"] = "idle"
          /\ step' = [step EXCEPT !["cli"] = "kill"]
      BY <1>8 DEF CliEnsure
    <2>2. QED
      BY <1>1, <2>1, QuietMove DEF Threads
  <1>9. CASE CliEnds
    <2>1. /\ UNCHANGED <<ssh, tunnelPid>> /\ step["cli"] \in {"up", "down", "raised"}
          /\ step' = [step EXCEPT !["cli"] = "idle"]
          /\ child' = [child EXCEPT !["cli"] = 0]
      BY <1>9 DEF CliEnds
    <2>2. \A t \in Threads : step[t] # "write" /\ step'[t] = "idle"
      BY <1>1, <2>1, OnlyOneAtWork DEF ThreadsOK, Threads
    <2>3. child'["cli"] = 0 /\ child'["app"] = child["app"]
      BY <1>1, <2>1 DEF SshOK
    <2>4. QED
      BY <2>1, <2>2, <2>3 DEF Tidy
  <1>10. ASSUME NEW t \in Threads, NEW at \in {"kill", "quitKill"},
                NEW s \in {"clean", "quitClean"},
                StopKill(t, at, s)
         PROVE  Tidy'
    <2>1. \A u \in Threads : step[u] # "write"
      BY <1>10, OnlyOneAtWork DEF StopKill
    <2>2. ssh' = {}
      BY <1>1, <1>10, <2>1 DEF StopKill, StopTarget, IsOurSsh, Tidy, ProcessOf, SshOK
    <2>3. UNCHANGED <<tunnelPid, child>> /\ step' = [step EXCEPT ![t] = s]
      BY <1>10 DEF StopKill
    <2>4. \A u \in Threads : step'[u] = IF u = t THEN s ELSE "idle"
      BY <1>1, <1>10, <2>3, OnlyOneAtWork DEF ThreadsOK, StopKill
    <2>5. QED
      BY <2>1, <2>2, <2>3, <2>4 DEF Tidy
  <1>11. ASSUME NEW t \in Threads, NEW at \in {"clean", "quitClean"},
                NEW s \in {"spawn", "quitDone"},
                StopClean(t, at, s)
         PROVE  Tidy'
    <2>1. /\ ssh = {} /\ UNCHANGED ssh /\ tunnelPid' = 0
          /\ child' = [child EXCEPT ![ProcessOf(t)] = 0] /\ step' = [step EXCEPT ![t] = s]
      BY <1>11 DEF StopClean, Tidy
    <2>2. \A u \in Threads : step'[u] = IF u = t THEN s ELSE "idle"
      BY <1>1, <1>11, <2>1, OnlyOneAtWork DEF ThreadsOK, StopClean
    <2>3. \A p \in {"app", "cli"} : child'[p] = 0
      BY <1>1, <1>11, <2>1, OnlyOneAtWork DEF SshOK, StopClean
    <2>4. QED
      BY <2>1, <2>2, <2>3 DEF Tidy
  <1>12. ASSUME NEW t \in Threads, Spawn(t) PROVE Tidy'
    <2>1. PICK pid \in FreshPid : /\ ssh' = ssh \cup {pid}
                                  /\ child' = [child EXCEPT ![ProcessOf(t)] = pid]
      BY <1>12 DEF Spawn
    <2>2. step[t] = "spawn" /\ step' = [step EXCEPT ![t] = "write"] /\ UNCHANGED tunnelPid
      BY <1>12 DEF Spawn
    <2>3. \A u \in Threads : step'[u] = IF u = t THEN "write" ELSE "idle"
      BY <1>1, <2>2, OnlyOneAtWork DEF ThreadsOK
    <2>4. child'[ProcessOf(t)] = pid /\ \A p \in {"app", "cli"} : p # ProcessOf(t) => child'[p] = 0
      BY <1>1, <2>1, <2>2, OnlyOneAtWork DEF SshOK, ProcessOf
    <2>5. ssh' = {pid} /\ tunnelPid' = 0
      BY <2>1, <2>2 DEF Tidy
    <2>6. QED
      BY <2>3, <2>4, <2>5 DEF Tidy
  <1>13. ASSUME NEW t \in Threads, WritePid(t) PROVE Tidy'
    <2>1. /\ step[t] = "write" /\ step' = [step EXCEPT ![t] = "wait"]
          /\ tunnelPid' = child[ProcessOf(t)] /\ UNCHANGED <<ssh, child>>
      BY <1>13 DEF WritePid
    <2>2. \A u \in Threads : step'[u] = IF u = t THEN "wait" ELSE "idle"
      BY <1>1, <2>1, OnlyOneAtWork DEF ThreadsOK
    <2>3. \A p \in {"app", "cli"} : child[p] \in {0, child[ProcessOf(t)]}
      BY <2>1, OnlyOneAtWork
    <2>4. QED
      BY <2>1, <2>2, <2>3 DEF Tidy
  <1>14. ASSUME NEW t \in Threads, SpawnRaises(t) \/ SocketUp(t) \/ SocketNot(t) PROVE Tidy'
    <2>1. /\ UNCHANGED <<ssh, tunnelPid, child>> /\ step[t] \in {"spawn", "wait"}
          /\ \E s \in {"raised", "up", "down"} : step' = [step EXCEPT ![t] = s]
      BY <1>14 DEF SpawnRaises, SocketUp, SocketNot
    <2>2. QED
      BY <1>1, <2>1, QuietMove
  <1>15. CASE TunnelStep(QuitRemoteStep)
    BY <1>10, <1>11, <1>15 DEF TunnelStep, QuitRemoteStep, Threads
  <1>16. CASE \E t \in Threads : TunnelStep(RestartStep(t))
    BY <1>10, <1>11, <1>12, <1>13, <1>14, <1>16 DEF TunnelStep, RestartStep
  <1>17. CASE TunnelStep(SshStep)
    <2>1. ssh' \subseteq ssh /\ UNCHANGED <<tunnelPid, child, step>>
      BY <1>17 DEF TunnelStep, SshStep, Forward, SshEnds, PidRecycled, AlienEnds
    <2>2. QED
      BY <2>1 DEF Tidy
  <1>18. (\E t \in Threads : PidUnwritten(t)) => strayed'
    BY DEF PidUnwritten
  <1>19. QED
    BY <1>1, <1>3, <1>4, <1>5, <1>6, <1>7, <1>8, <1>9, <1>15, <1>16, <1>17, <1>18, LocalSteps,
       Zenon

LEMMA TunnelInvStep == AppInv /\ TunnelInv /\ [AppNext]_appVars => TunnelInv'
  <1> SUFFICES ASSUME AppInv, TunnelInv, [AppNext]_appVars PROVE TunnelInv'
    OBVIOUS
  <1>1. CASE strayed
    <2>1. UNCHANGED strayed \/ strayed'
      <3>1. LocalStep \/ RestartTunnel \/ RestartTunnelEnds \/ QuitRemoteEnds \/ CliEnds
               \/ PollTunnel \/ ProbeTunnel \/ ConfirmTunnel \/ NoBinary => UNCHANGED strayed
        BY DEF NoBinary, EnsureRaises, LocalStep, RestartTunnel, RestartTunnelEnds, QuitRemoteEnds, CliEnds, PollTunnel,
               ProbeTunnel, ConfirmTunnel, history
      <3>2. SetupDone \/ ConnectEnsure \/ (\E b \in BOOLEAN : ConnectDone(b)) \/ RetryConnect
               => UNCHANGED strayed
        BY DEF SetupDone, ConnectEnsure, ConnectDone, RetryConnect, history
      <3>3. TunnelStep(QuitRemoteStep) \/ TunnelStep(SshStep)
               \/ (\E t \in Threads : TunnelStep(RestartStep(t))) => UNCHANGED strayed
        BY DEF TunnelStep, history
      <3>4. Launch \/ ProcessEnds \/ QuitRemote \/ CliEnsure
               \/ (\E t \in Threads : PidUnwritten(t)) => strayed'
        BY <1>1, Zenon DEF Launch, ProcessEnds, QuitRemote, CliEnsure, PidUnwritten
      <3>5. LifeOK
        BY DEF AppInv
      <3>6. QED
        BY <3>1, <3>2, <3>3, <3>4, <3>5, LocalSteps, Zenon
    <2>2. QED
      BY <1>1, <2>1, Zenon DEF TunnelInv
  <1>2. CASE OneAtATime /\ Tidy
    BY <1>2, OneAtATimeStep, TidyStep DEF TunnelInv
  <1>3. QED
    BY <1>1, <1>2 DEF TunnelInv

LEMMA TunnelInvInit == AppInit => TunnelInv
  BY DEF AppInit, TunnelInit, TunnelInv, OneAtATime, Tidy, Threads

LEMMA KnownSsh == AppInv /\ TunnelInv => NoTunnelForgotten
  BY DEF TunnelInv, Tidy, NoTunnelForgotten, ProcessOf

(***************************************************************************)
(* No ssh is forgotten, whatever the order of starts, crashes, restarts    *)
(* and command line calls, for any number of faults (tunnel.py, stop and   *)
(* restart).                                                               *)
(***************************************************************************)
THEOREM TunnelRemembered == AppSpec => []NoTunnelForgotten
  BY AppInvAlways, TunnelInvInit, TunnelInvStep, KnownSsh, PTL DEF AppSpec

-----------------------------------------------------------------------------
(***************************************************************************)
(* Which daemons live.  While no two of them have shared the directory and *)
(* no start was abandoned, a daemon that has not been told to end is the   *)
(* one at the socket, or the child that the application waits for.         *)
(***************************************************************************)
Waiting == {"ensuring", "polling"}

Lasting == {d \in LiveDaemons : d \notin term /\ dstate[d] # "closing"}

OneDaemon ==
    /\ \A d, e \in Users : d = e
    /\ \A d \in Daemonlings : dstate[d] = "up" => apiSock = d
    /\ \A d \in Lasting : dstate[d] # "up" => d = dchild /\ phase \in Waiting
    /\ phase \in Waiting /\ Listening => apiSock = dchild
    /\ phase \in {"stopping", "closing"} => Lasting = {}

SharedInv == shared \/ OneDaemon

LEMMA AllTheSame ==
    ASSUME NEW S, IsFiniteSet(S), ~(Cardinality(S) > 1)
    PROVE  \A x, y \in S : x = y
  <1>1. ASSUME NEW x \in S, NEW y \in S, x # y PROVE FALSE
    <2>1. IsFiniteSet({x, y}) /\ Cardinality({x, y}) = 2
      <3>1. IsFiniteSet({x}) /\ Cardinality({x}) = 1
        BY FS_Singleton
      <3>2. /\ IsFiniteSet({x} \cup {y})
            /\ Cardinality({x} \cup {y}) = IF y \in {x} THEN Cardinality({x})
                                           ELSE Cardinality({x}) + 1
        BY <3>1, FS_AddElement
      <3>3. {x} \cup {y} = {x, y} /\ y \notin {x}
        BY <1>1
      <3>4. QED
        BY <3>1, <3>2, <3>3
    <2>2. Cardinality({x, y}) <= Cardinality(S)
      BY <1>1, FS_Subset
    <2>3. Cardinality(S) \in Nat
      BY FS_CardinalityType
    <2>4. QED
      BY <2>1, <2>2, <2>3
  <1>2. QED
    BY <1>1

\* Nothing happens to the daemons.
LEMMA OneDaemonKept ==
    ASSUME OneDaemon, UNCHANGED <<dstate, term, apiSock>>,
           \/ UNCHANGED <<phase, dchild>>
           \/ /\ Lasting \subseteq {d \in Daemonlings : dstate[d] = "up"}
              /\ phase' \notin Waiting
              /\ phase' \in {"stopping", "closing"} => phase = "stopping" \/ Lasting = {}
    PROVE  OneDaemon'
  BY DEF OneDaemon, Users, Lasting, LiveDaemons, Listening

\* A daemon ends or is told to.
LEMMA OneDaemonFewer ==
    ASSUME DaemonsOK, OneDaemon, NEW d \in Daemonlings, dstate' = [dstate EXCEPT ![d] = "none"],
           term \ {d} \subseteq term', UNCHANGED <<apiSock, dchild>>,
           \/ UNCHANGED phase
           \/ /\ phase \notin Waiting /\ phase' \notin Waiting
              /\ phase' \in {"stopping", "closing"} => phase = "stopping"
    PROVE  OneDaemon'
  <1>1. \A e \in Daemonlings : dstate'[e] = IF e = d THEN "none" ELSE dstate[e]
    BY DEF DaemonsOK
  <1>2. Users' \subseteq Users /\ Lasting' \subseteq Lasting
    BY <1>1 DEF Users, Lasting, LiveDaemons
  <1>3. Listening' => Listening
    BY <1>1 DEF Listening, DaemonsOK
  <1>4. \A e \in Lasting' : dstate'[e] = dstate[e]
    BY <1>1 DEF Lasting, LiveDaemons
  <1>5. \A e \in Daemonlings : dstate'[e] = "up" => dstate[e] = "up"
    BY <1>1
  <1>6. CASE UNCHANGED phase
    BY <1>2, <1>3, <1>4, <1>5, <1>6 DEF OneDaemon
  <1>7. CASE phase \notin Waiting /\ phase' \notin Waiting
    BY <1>2, <1>4, <1>5, <1>7 DEF OneDaemon
  <1>8. QED
    BY <1>6, <1>7

LEMMA OneDaemonStep ==
    ASSUME AppInv, OneDaemon, [AppNext]_appVars
    PROVE  shared' \/ OneDaemon'
  <1>1. DaemonsOK /\ LifeOK /\ DaemonsOK' /\ ThreadsOK
    BY AppInvStep DEF AppInv
  <1>2. phase \notin Waiting => Lasting \subseteq {d \in Daemonlings : dstate[d] = "up"}
    BY DEF OneDaemon, Lasting, LiveDaemons
  <1>3. external => Lasting = {}
    BY <1>1 DEF DaemonsOK, Lasting
  <1>4. CASE RemoteStep \/ (LaunchSecond /\ armed)
    BY <1>4, OneDaemonKept DEF RemoteStep, LaunchSecond, daemonVars, lifeVars
  <1>5. CASE Launch \/ RestartFound \/ QuitRemote \/ QuitRemoteEnds
    <2>1. /\ UNCHANGED <<dstate, term, apiSock>> /\ phase' \notin Waiting
          /\ phase' \in {"stopping", "closing"} => external \/ step["main"] \in AtQuit
      BY <1>5 DEF AtQuit, Launch, RestartFound, QuitRemote, QuitRemoteEnds, MainFree,
             daemonVars, Waiting
    <2>2. phase \notin Waiting
      BY <1>1, <1>5 DEF Launch, RestartFound, QuitRemote, QuitRemoteEnds, MainFree,
             Waiting, ThreadsOK, AtQuit
    <2>3. step["main"] \in AtQuit => external
      BY <1>1 DEF ThreadsOK, Threads, LifeOK, AtQuit
    <2>4. QED
      BY <1>2, <1>3, <2>1, <2>2, <2>3, OneDaemonKept
  <1>6. CASE EnsureSpawn
    <2>1. PICK d \in FreshDaemons : /\ dstate' = [dstate EXCEPT ![d] = "boot"]
                                    /\ dchild' = d /\ UNCHANGED <<term, apiSock>>
      BY <1>6 DEF EnsureSpawn, SpawnDaemon
    <2>2. ~Listening /\ phase \notin Waiting /\ phase' \in Waiting
      BY <1>6 DEF EnsureSpawn, Waiting
    <2>3. \A e \in Daemonlings : dstate'[e] = IF e = d THEN "boot" ELSE dstate[e]
      BY <1>1, <2>1 DEF DaemonsOK
    <2>4. d \in Daemonlings /\ dstate[d] = "none"
      BY <2>1 DEF FreshDaemons, LiveDaemons
    <2>5. Users' = Users /\ Lasting' \subseteq Lasting \cup {d}
      BY <2>1, <2>3, <2>4 DEF Users, Lasting, LiveDaemons
    <2>6. ~Listening'
      BY <1>1, <2>1, <2>2, <2>3 DEF Listening, DaemonsOK
    <2>7. \A e \in Lasting : e = apiSock /\ dstate[e] = "up"
      BY <1>2, <2>2 DEF OneDaemon
    <2>8. Lasting = {}
      BY <1>1, <2>2, <2>7, DaemonlingsAssumption DEF Listening, Lasting, LiveDaemons
    <2>9. QED
      BY <2>1, <2>2, <2>3, <2>4, <2>5, <2>6, <2>8 DEF OneDaemon, Waiting
  <1>7. CASE SetupDone
    <2>1. /\ UNCHANGED <<dstate, term, apiSock>> /\ phase' = "ready" /\ (external \/ Listening)
      BY <1>7 DEF SetupDone, daemonVars
    <2>2. Lasting \subseteq {d \in Daemonlings : dstate[d] = "up"}
      BY <1>2, <1>3, <2>1 DEF OneDaemon, Lasting, LiveDaemons, Listening
    <2>3. QED
      BY <2>1, <2>2, OneDaemonKept DEF Waiting
  <1>8. CASE SetupFails \/ PollEnds
    <2>1. /\ UNCHANGED <<dstate, term, apiSock>> /\ phase' \in {"off", "ready"}
          /\ Listening \/ shared' \/ dchild \notin LiveDaemons
      BY <1>8 DEF SetupFails, PollEnds, GivesUp, daemonVars
    <2>2. shared' \/ Lasting \subseteq {d \in Daemonlings : dstate[d] = "up"}
      BY <1>2, <2>1 DEF OneDaemon, Lasting, LiveDaemons, Listening
    <2>3. QED
      BY <2>1, <2>2, OneDaemonKept DEF Waiting
  <1>9. CASE ProcessEnds
    <2>1. /\ UNCHANGED <<dstate, term, apiSock>> /\ phase' = "off"
          /\ shared' \/ phase \notin Waiting
      BY <1>9, Zenon DEF ProcessEnds, Waiting
    <2>2. QED
      BY <1>2, <2>1, OneDaemonKept DEF Waiting
  <1>10. CASE Quit \/ RestartDaemon
    <2>1. PICK d \in (IF DaemonTargets = {} THEN {0} ELSE DaemonTargets) :
             term' = term \cup ({d} \cap LiveDaemons)
      BY <1>10 DEF Quit, RestartDaemon, StopDaemon
    <2>2. /\ UNCHANGED <<dstate, apiSock>> /\ phase = "ready"
          /\ phase' \in {"stopping", "restopping"}
      BY <1>10 DEF Quit, RestartDaemon, StopDaemon
    <2>3. \A e \in Lasting : e = apiSock /\ dstate[e] = "up" /\ Listening
      BY <1>1, <1>2, <2>2, DaemonlingsAssumption
         DEF OneDaemon, Lasting, LiveDaemons, Listening, Waiting
    <2>4. Listening => d = apiSock
      BY <2>1 DEF DaemonTargets, PidFromSocket
    <2>5. Lasting' \subseteq Lasting \ {d}
      BY <2>1, <2>2 DEF Lasting, LiveDaemons
    <2>6. Lasting' = {}
      BY <2>3, <2>4, <2>5
    <2>7. Users' = Users
      BY <2>2 DEF Users
    <2>8. QED
      BY <2>2, <2>6, <2>7 DEF OneDaemon, Waiting
  <1>11. CASE StopEnds
    <2>1. /\ phase \notin Waiting /\ phase' \notin Waiting /\ UNCHANGED <<apiSock, dchild>>
          /\ phase' \in {"stopping", "closing"} => phase = "stopping"
      BY <1>11 DEF StopEnds, Waiting
    <2>2. \/ UNCHANGED <<dstate, term>>
          \/ victim \in LiveDaemons /\ DaemonGone(victim)
      BY <1>11 DEF StopEnds
    <2>3. CASE UNCHANGED <<dstate, term>>
      BY <1>2, <2>1, <2>3, OneDaemonKept
    <2>4. CASE victim \in LiveDaemons /\ DaemonGone(victim)
      BY <1>1, <2>1, <2>4, OneDaemonFewer DEF DaemonGone, LiveDaemons
    <2>5. QED
      BY <2>2, <2>3, <2>4
  <1>12. CASE StopAllDaemons
    <2>1. /\ UNCHANGED <<dstate, apiSock, dchild, phase>> /\ term \subseteq term'
      BY <1>12 DEF StopAllDaemons, lifeVars
    <2>2. Lasting' \subseteq Lasting /\ Users' = Users
      BY <2>1 DEF Lasting, LiveDaemons, Users
    <2>3. QED
      BY <2>1, <2>2 DEF OneDaemon, Listening
  <1>13. ASSUME NEW d \in Daemonlings, LockCollected(d) PROVE OneDaemon'
    BY <1>13, OneDaemonKept DEF LockCollected, CollectLock, lifeVars
  <1>14. ASSUME NEW d \in Daemonlings, DaemonFault(d) PROVE OneDaemon'
    BY <1>1, <1>14, OneDaemonFewer DEF DaemonFault, DaemonCrash, DaemonGone, lifeVars
  <1>15. ASSUME NEW d \in Daemonlings, DaemonLife(d) PROVE shared' \/ OneDaemon'
    <2>1. UNCHANGED phase /\ DaemonActs(d) /\ (shared' \/ ~(Cardinality(Users') > 1))
      BY <1>15, Zenon DEF DaemonLife, lifeVars
    <2>2. IsFiniteSet(Users')
      <3>1. Users' \subseteq LiveDaemons'
        BY <1>1 DEF Users, LiveDaemons
      <3>2. QED
        BY <1>1, <3>1, FS_Subset DEF DaemonsOK
    <2>3. shared' \/ \A e, g \in Users' : e = g
      BY <2>1, <2>2, AllTheSame
    <2>4. ASSUME DaemonGone(d), UNCHANGED <<apiSock, dchild>> PROVE OneDaemon'
      BY <1>1, <2>1, <2>4, OneDaemonFewer DEF DaemonGone
    <2>5. ASSUME NEW s \in {"locked", "up", "closing"}, dstate[d] # "none",
                 dstate' = [dstate EXCEPT ![d] = s]
          PROVE  /\ dstate'[d] = s /\ \A e \in Daemonlings : e # d => dstate'[e] = dstate[e]
                 /\ d \in Users'
      BY <1>1, <2>5 DEF DaemonsOK, Users
    <2>6. CASE TakeLock(d)
      <3>1. CASE dlock # {}
        BY <2>4, <2>6, <3>1 DEF TakeLock
      <3>2. CASE dlock = {}
        <4>1. /\ dstate[d] = "boot" /\ d \notin term /\ dstate' = [dstate EXCEPT ![d] = "locked"]
              /\ UNCHANGED <<term, apiSock, dchild>>
          BY <2>6, <3>2 DEF TakeLock
        <4>2. /\ dstate'[d] = "locked" /\ \A e \in Daemonlings : e # d => dstate'[e] = dstate[e]
          BY <2>5, <4>1
        <4>3. Lasting' = Lasting /\ d \in Lasting
          BY <4>1, <4>2 DEF Lasting, LiveDaemons
        <4>4. Listening' => Listening
          BY <1>1, <4>1, <4>2 DEF Listening, DaemonsOK
        <4>5. QED
          BY <2>1, <2>3, <4>1, <4>2, <4>3, <4>4 DEF OneDaemon
      <3>3. QED
        BY <3>1, <3>2
    <2>7. CASE Listen(d)
      <3>1. /\ dstate[d] = "locked" /\ d \notin term /\ dstate' = [dstate EXCEPT ![d] = "up"]
            /\ apiSock' = d /\ UNCHANGED <<term, dchild>>
        BY <2>7 DEF Listen
      <3>2. /\ dstate'[d] = "up" /\ \A e \in Daemonlings : e # d => dstate'[e] = dstate[e]
        BY <2>5, <3>1
      <3>3. Lasting' = Lasting /\ d \in Lasting
        BY <3>1, <3>2 DEF Lasting, LiveDaemons
      <3>4. d = dchild /\ phase \in Waiting
        BY <3>1, <3>3 DEF OneDaemon
      <3>5. shared' \/ \A e \in Daemonlings : dstate'[e] = "up" => e = d
        BY <2>3, <3>2 DEF Users
      <3>6. QED
        BY <2>1, <2>3, <3>1, <3>2, <3>3, <3>4, <3>5 DEF OneDaemon
    <2>8. CASE Obey(d)
      <3>1. CASE dstate[d] # "up"
        BY <2>4, <2>8, <3>1 DEF Obey
      <3>2. CASE dstate[d] = "up"
        <4>1. /\ d \in term /\ dstate' = [dstate EXCEPT ![d] = "closing"]
              /\ term' = term \ {d} /\ apiSock' = 0 /\ UNCHANGED dchild
          BY <2>8, <3>2 DEF Obey
        <4>2. /\ dstate'[d] = "closing" /\ \A e \in Daemonlings : e # d => dstate'[e] = dstate[e]
          BY <2>5, <3>2, <4>1
        <4>3. Lasting' \subseteq Lasting
          BY <4>1, <4>2 DEF Lasting, LiveDaemons
        <4>4. \A e \in Daemonlings : dstate'[e] # "up"
          BY <3>2, <4>2 DEF OneDaemon, Users
        <4>5. \A e \in Lasting' : dstate'[e] # "up" /\ dstate[e] # "up"
          BY <4>1, <4>2, <4>3, <4>4 DEF Lasting, LiveDaemons
        <4>6. QED
          BY <2>1, <2>3, <4>1, <4>3, <4>4, <4>5 DEF OneDaemon, Listening
      <3>3. QED
        BY <3>1, <3>2
    <2>9. CASE DaemonExit(d)
      BY <2>4, <2>9 DEF DaemonExit
    <2>10. QED
      BY <2>1, <2>6, <2>7, <2>8, <2>9 DEF DaemonActs
  <1>16. CASE NoBinary
    <2>1. /\ UNCHANGED <<dstate, term, apiSock>> /\ phase' \in {"off", "ready"}
          /\ phase \notin Waiting
      BY <1>16 DEF NoBinary, EnsureRaises, Waiting, daemonVars
    <2>2. QED
      BY <1>2, <2>1, OneDaemonKept DEF Waiting
  <1>17. QED
    BY <1>4, <1>5, <1>6, <1>7, <1>8, <1>9, <1>10, <1>11, <1>12, <1>13, <1>14, <1>15, <1>16,
       RemoteSteps, Zenon

LEMMA SharedInvStep == AppInv /\ SharedInv /\ [AppNext]_appVars => SharedInv'
  <1> SUFFICES ASSUME AppInv, SharedInv, [AppNext]_appVars PROVE SharedInv'
    OBVIOUS
  <1>1. CASE shared
    <2>1. UNCHANGED shared \/ shared'
      <3>1. RemoteStep \/ EnsureSpawn \/ SetupDone \/ StopEnds \/ RestartFound \/ Launch
               \/ Quit \/ RestartDaemon \/ StopAllDaemons \/ NoBinary => UNCHANGED shared
        BY DEF NoBinary, EnsureRaises, RemoteStep, EnsureSpawn, SetupDone, StopEnds, RestartFound, Launch, Quit,
               RestartDaemon, StopDaemon, StopAllDaemons, history
      <3>2. QuitRemote \/ QuitRemoteEnds \/ (LaunchSecond /\ armed) => UNCHANGED shared
        BY DEF QuitRemote, QuitRemoteEnds, LaunchSecond, history
      <3>3. SetupFails \/ PollEnds => UNCHANGED shared \/ shared'
        BY Zenon DEF SetupFails, PollEnds, GivesUp
      <3>4. ProcessEnds => shared'
        BY <1>1, Zenon DEF ProcessEnds
      <3>5. (\E d \in Daemonlings : DaemonLife(d) \/ LockCollected(d) \/ DaemonFault(d))
               => UNCHANGED shared \/ shared'
        BY <1>1, Zenon DEF DaemonLife, LockCollected, DaemonFault, history
      <3>6. QED
        BY <3>1, <3>2, <3>3, <3>4, <3>5, RemoteSteps, Zenon
    <2>2. QED
      BY <1>1, <2>1, Zenon DEF SharedInv
  <1>2. CASE OneDaemon
    BY <1>2, OneDaemonStep DEF SharedInv
  <1>3. QED
    BY <1>1, <1>2 DEF SharedInv

LEMMA SharedInvInit == AppInit => SharedInv
  BY DEF AppInit, DaemonsInit, SharedInv, OneDaemon, Users, Lasting, LiveDaemons, Listening, Waiting

LEMMA NoneLeft == SharedInv => QuitLeavesNoDaemon
  BY DEF SharedInv, OneDaemon, Lasting, QuitLeavesNoDaemon

(***************************************************************************)
(* A quit leaves no daemon behind, for any number of daemon processes,     *)
(* crashes and second launches (DaemonSupervisor.stop, ensure).            *)
(***************************************************************************)
THEOREM QuitIsClean == AppSpec => []QuitLeavesNoDaemon
  BY AppInvAlways, SharedInvInit, SharedInvStep, NoneLeft, PTL DEF AppSpec
=============================================================================
