--------------------------- MODULE IdentityProofs ---------------------------
(***************************************************************************)
(* Keys and backups for any seeds, node keys and passphrases.              *)
(***************************************************************************)
EXTENDS Identity, FiniteSetTheorems, TLAPS

AtMostOne(S) == \A x, y \in S : x = y

\* With an open window there is a session; these are the phases of one.
WithSession == {"open", "import node", "import self", "reloading", "applying"}
AppPhases == Resting \cup {"creating", "restore node", "restore self", "restarting"}
                \cup WithSession

KeyTypes ==
    /\ AtMostOne(identity) /\ identity \subseteq [seed : Seeds, pw : Passphrases]
    /\ created \in [app : Seeds \cup {0}, cli : Seeds \cup {0}]
    /\ selfKey \in Seeds \cup {0}
    /\ nodeKey \in NodeKeys \cup {0} /\ daemonNode \in NodeKeys \cup {0}
    /\ rows \subseteq Passphrases
    /\ AtMostOne(backup)
    /\ \A b \in backup : b.seed \in Seeds /\ b.node \in NodeKeys \cup {0}
                           /\ b.self \in Seeds \cup {0}
    /\ AtMostOne(session)
    /\ session \subseteq [seed : Seeds, node : NodeKeys, pw : Passphrases]
    /\ app \in AppPhases
    /\ session # {} <=> app \in WithSession

(***************************************************************************)
(* What makes RowsReadable inductive: without an identity nothing has been *)
(* stored and nothing is open, and an open session has the passphrase of   *)
(* the file, under which it saves every identity it imports.               *)
(***************************************************************************)
OnePassphrase ==
    raced \/ /\ identity = {} => rows = {} /\ session = {}
             /\ \A f \in identity : /\ rows \subseteq {f.pw}
                                    /\ \A s \in session : s.pw = f.pw

(***************************************************************************)
(* What makes NodeKeyInUse inductive: only between the replacement of      *)
(* node.key and the restart of the daemon may the two differ.              *)
(***************************************************************************)
KeyInUse ==
    (/\ app \in Resting \cup {"creating", "restore node", "import node"}
     /\ daemonNode # 0 /\ ~nodeStale) => daemonNode = nodeKey

KeyInv == KeyTypes /\ OnePassphrase /\ KeyInUse

-----------------------------------------------------------------------------
LEMMA CardinalityOfOne ==
    ASSUME NEW S, AtMostOne(S) PROVE Cardinality(S) <= 1
  <1>1. CASE S = {}
    BY <1>1, FS_EmptySet
  <1>2. CASE S # {}
    <2>1. PICK x : S = {x}
      BY <1>2 DEF AtMostOne
    <2>2. Cardinality({x}) = 1
      BY FS_Singleton
    <2>3. QED
      BY <2>1, <2>2
  <1>3. QED
    BY <1>1, <1>2

LEMMA ZeroIsNoKey == 0 \notin Seeds /\ 0 \notin NodeKeys
  BY KeysAssumption

LEMMA KeyInit == Init => KeyInv
  <1> SUFFICES ASSUME Init PROVE KeyInv
    OBVIOUS
  <1>1. /\ AtMostOne(backup)
        /\ \A b \in backup : b.seed \in Seeds /\ b.node \in NodeKeys \cup {0}
                               /\ b.self \in Seeds \cup {0}
    <2>1. CASE backup = {}
      BY <2>1 DEF AtMostOne
    <2>2. CASE backup # {}
      <3>1. PICK k \in Seeds, n \in NodeKeys \cup {0} :
               backup = {[seed |-> k, node |-> n, self |-> k, mixed |-> FALSE]}
        BY <2>2 DEF Init
      <3>2. QED
        BY <3>1 DEF AtMostOne
    <2>3. QED
      BY <2>1, <2>2
  <1>2. KeyTypes
    BY <1>1 DEF Init, KeyTypes, AtMostOne, AppPhases, WithSession, Resting
  <1>3. QED
    BY <1>2 DEF Init, KeyInv, OnePassphrase, KeyInUse

-----------------------------------------------------------------------------
\* LoadOrCreateKey leaves the daemon with the key of the file.
LEMMA LoadKeyGives ==
    ASSUME KeyTypes, LoadKey
    PROVE  daemonNode' = nodeKey' /\ daemonNode' \in NodeKeys
  BY DEF KeyTypes, LoadKey

LEMMA RestartGives ==
    ASSUME KeyTypes, DaemonRestart
    PROVE  /\ daemonNode' \in NodeKeys \cup {0} /\ nodeKey' \in NodeKeys \cup {0}
           /\ daemonNode' # 0 /\ ~nodeStale' => daemonNode' = nodeKey'
  <1>1. CASE LoadKey
    BY <1>1, LoadKeyGives
  <1>2. CASE ~LoadKey
    BY <1>2 DEF DaemonRestart, KeyTypes
  <1>3. QED
    BY <1>1, <1>2

LEMMA DaemonKeepsKeys ==
    ASSUME KeyInv, DaemonStarts \/ DaemonDies
    PROVE  KeyInv'
  <1> USE DEF KeyInv
  <1>1. CASE DaemonStarts
    <2>1. daemonNode' = nodeKey' /\ daemonNode' \in NodeKeys
      BY <1>1, LoadKeyGives DEF DaemonStarts
    <2>2. QED
      BY <1>1, <2>1 DEF DaemonStarts, KeyTypes, OnePassphrase, KeyInUse
  <1>2. CASE DaemonDies
    BY <1>2 DEF DaemonDies, KeyTypes, OnePassphrase, KeyInUse, files, history
  <1>3. QED
    BY <1>1, <1>2

\* Steps that write no identity.
LEMMA DialogKeepsKeys ==
    ASSUME KeyInv, AskCreate \/ CancelCreate \/ CreateSelf \/ CreateFails
    PROVE  KeyInv'
  <1> USE DEF KeyInv, AppPhases, WithSession, Resting, files, history
  <1>1. CASE AskCreate
    BY <1>1 DEF AskCreate, KeyTypes, OnePassphrase, KeyInUse
  <1>2. CASE CancelCreate
    BY <1>2 DEF CancelCreate, KeyTypes, OnePassphrase, KeyInUse
  <1>3. CASE CreateSelf
    BY <1>3 DEF CreateSelf, KeyTypes, OnePassphrase, KeyInUse
  <1>4. CASE CreateFails
    BY <1>4 DEF CreateFails, KeyTypes, OnePassphrase, KeyInUse
  <1>5. QED
    BY <1>1, <1>2, <1>3, <1>4

\* An identity under a new passphrase: there was none, or somebody raced.
LEMMA NewIdentityKeepsKeys ==
    ASSUME KeyTypes, OnePassphrase, NEW k \in Seeds, NEW pw \in Passphrases,
           SaveIdentity(k, pw), raced' = (raced \/ identity # {}),
           UNCHANGED <<rows, session>>
    PROVE  /\ AtMostOne(identity)' /\ identity' \subseteq [seed : Seeds, pw : Passphrases]
           /\ OnePassphrase'
  <1>1. identity' = {File(k, pw)} /\ File(k, pw) \in [seed : Seeds, pw : Passphrases]
        /\ File(k, pw).pw = pw
    BY DEF SaveIdentity, File
  <1>2. AtMostOne(identity)' /\ identity' \subseteq [seed : Seeds, pw : Passphrases]
    BY <1>1 DEF AtMostOne
  <1>3. raced' \/ (~raced /\ identity = {})
    OBVIOUS
  <1>4. raced' \/ (rows' = {} /\ session' = {})
    BY <1>3 DEF OnePassphrase
  <1>5. OnePassphrase'
    BY <1>1, <1>4 DEF OnePassphrase
  <1>6. QED
    BY <1>2, <1>5

LEMMA CreateKeepsKeys ==
    ASSUME KeyInv, NEW pw \in Passphrases,
           CreateIdentity(pw) \/ InitRestore(pw) \/ CmdInitSave(pw)
    PROVE  KeyInv'
  <1> USE DEF KeyInv
  <1>1. CASE CreateIdentity(pw)
    <2>1. PICK k \in Seeds : SaveIdentity(k, pw) /\ created' = [created EXCEPT !.app = k]
      BY <1>1 DEF CreateIdentity
    <2>2. /\ AtMostOne(identity)' /\ identity' \subseteq [seed : Seeds, pw : Passphrases]
          /\ OnePassphrase'
      BY <1>1, <2>1, NewIdentityKeepsKeys DEF CreateIdentity
    <2>3. KeyTypes'
      BY <1>1, <2>1, <2>2 DEF CreateIdentity, KeyTypes, AppPhases, WithSession, Resting
    <2>4. QED
      BY <1>1, <2>2, <2>3 DEF CreateIdentity, KeyInUse, Resting
  <1>2. CASE InitRestore(pw)
    <2>1. PICK b \in backup : SaveIdentity(b.seed, pw)
      BY <1>2 DEF InitRestore, RestoreIdentity
    <2>2. b.seed \in Seeds
      BY DEF KeyTypes
    <2>3. /\ AtMostOne(identity)' /\ identity' \subseteq [seed : Seeds, pw : Passphrases]
          /\ OnePassphrase'
      BY <1>2, <2>1, <2>2, NewIdentityKeepsKeys DEF InitRestore, RestoreIdentity
    <2>4. KeyTypes'
      BY <1>2, <2>3 DEF InitRestore, RestoreIdentity, KeyTypes, AppPhases, WithSession, Resting
    <2>5. QED
      BY <1>2, <2>3, <2>4 DEF InitRestore, RestoreIdentity, KeyInUse, Resting
  <1>3. CASE CmdInitSave(pw)
    <2>1. PICK k \in Seeds : SaveIdentity(k, pw) /\ created' = [created EXCEPT !.cli = k]
      BY <1>3 DEF CmdInitSave
    <2>2. /\ AtMostOne(identity)' /\ identity' \subseteq [seed : Seeds, pw : Passphrases]
          /\ OnePassphrase'
      BY <1>3, <2>1, NewIdentityKeepsKeys DEF CmdInitSave
    <2>3. KeyTypes'
      BY <1>3, <2>1, <2>2 DEF CmdInitSave, KeyTypes
    <2>4. QED
      BY <1>3, <2>2, <2>3 DEF CmdInitSave, KeyInUse
  <1>4. QED
    BY <1>1, <1>2, <1>3

\* An identity under the session's passphrase.
LEMMA ImportedIdentityKeepsKeys ==
    ASSUME KeyTypes, OnePassphrase, NEW k \in Seeds, NEW s \in session,
           SaveIdentity(k, s.pw), UNCHANGED <<rows, session, raced>>
    PROVE  /\ AtMostOne(identity)' /\ identity' \subseteq [seed : Seeds, pw : Passphrases]
           /\ OnePassphrase'
  <1>1. identity' = {File(k, s.pw)} /\ s.pw \in Passphrases
    BY DEF SaveIdentity, KeyTypes
  <1>2. AtMostOne(identity)' /\ identity' \subseteq [seed : Seeds, pw : Passphrases]
    BY <1>1 DEF File, AtMostOne
  <1>3. raced \/ (rows \subseteq {s.pw} /\ \A t \in session : t.pw = s.pw)
    BY DEF OnePassphrase, KeyTypes, AtMostOne
  <1>4. File(k, s.pw).pw = s.pw
    BY DEF File
  <1>5. OnePassphrase'
    BY <1>1, <1>3, <1>4 DEF OnePassphrase
  <1>6. QED
    BY <1>2, <1>5

LEMMA ImportKeepsKeys ==
    ASSUME KeyInv, ImportBackup \/ ImportIdentity
    PROVE  KeyInv'
  <1> USE DEF KeyInv
  <1>1. CASE ImportBackup
    <2>1. PICK s \in session, b \in backup : SaveIdentity(b.seed, s.pw)
      BY <1>1 DEF ImportBackup, RestoreIdentity
    <2>2. b.seed \in Seeds /\ UNCHANGED <<rows, session, raced>>
      BY <1>1 DEF KeyTypes, ImportBackup, RestoreIdentity
    <2>3. /\ AtMostOne(identity)' /\ identity' \subseteq [seed : Seeds, pw : Passphrases]
          /\ OnePassphrase'
      BY <2>1, <2>2, ImportedIdentityKeepsKeys
    <2>4. KeyTypes'
      BY <1>1, <2>3 DEF ImportBackup, RestoreIdentity, KeyTypes, AppPhases, WithSession
    <2>5. QED
      <3>1. UNCHANGED <<nodeKey, daemonNode, nodeStale>> /\ app = "open"
        BY <1>1 DEF ImportBackup, RestoreIdentity
      <3>2. KeyInUse'
        BY <3>1 DEF KeyInUse, Resting
      <3>3. QED
        BY <2>3, <2>4, <3>2
  <1>2. CASE ImportIdentity
    <2>1. PICK s \in session, k \in Seeds : SaveIdentity(k, s.pw)
      BY <1>2 DEF ImportIdentity
    <2>2. UNCHANGED <<rows, session, raced>>
      BY <1>2 DEF ImportIdentity
    <2>3. /\ AtMostOne(identity)' /\ identity' \subseteq [seed : Seeds, pw : Passphrases]
          /\ OnePassphrase'
      BY <2>1, <2>2, ImportedIdentityKeepsKeys
    <2>4. QED
      BY <1>2, <2>3 DEF ImportIdentity, KeyTypes, KeyInUse
  <1>3. QED
    BY <1>1, <1>2

\* The session is opened with the passphrase that opens the file.
LEMMA UnlockKeepsKeys ==
    ASSUME KeyInv, NEW pw \in Passphrases, Unlock(pw)
    PROVE  KeyInv'
  <1> USE DEF KeyInv
  <1>1. PICK f \in identity : f.pw = pw /\ session' = {Session(f.seed, daemonNode, pw)}
    BY DEF Unlock
  <1>2. f.seed \in Seeds /\ daemonNode \in NodeKeys /\ \A g \in identity : g = f
    BY DEF KeyTypes, AtMostOne, Unlock
  <1>3. /\ session' \subseteq [seed : Seeds, node : NodeKeys, pw : Passphrases]
        /\ AtMostOne(session)' /\ session' # {} /\ \A s \in session' : s.pw = pw
    BY <1>1, <1>2 DEF Session, AtMostOne
  <1>4. KeyTypes'
    BY <1>3 DEF Unlock, KeyTypes, files, AppPhases, WithSession
  <1>5. OnePassphrase'
    BY <1>1, <1>2, <1>3 DEF Unlock, OnePassphrase, files
  <1>6. QED
    BY <1>4, <1>5 DEF Unlock, KeyInUse, files, Resting

\* The rest of a restore.
LEMMA RestoreKeepsKeys ==
    ASSUME KeyInv,
           RestoreNode \/ RestoreSelf \/ RestoreFails \/ InitRestarted \/ ImportRestarted
    PROVE  KeyInv'
  <1> USE DEF KeyInv, AppPhases, WithSession, Resting
  <1>1. CASE RestoreNode
    <2>1. nodeKey' \in NodeKeys \cup {0}
      BY <1>1 DEF RestoreNode, KeyTypes
    <2>2. QED
      BY <1>1, <2>1 DEF RestoreNode, KeyTypes, OnePassphrase, KeyInUse, history
  <1>2. CASE RestoreSelf
    <2>1. selfKey' \in Seeds \cup {0}
      BY <1>2 DEF RestoreSelf, KeyTypes
    <2>2. QED
      BY <1>2, <2>1 DEF RestoreSelf, KeyTypes, OnePassphrase, KeyInUse
  <1>3. CASE RestoreFails
    BY <1>3 DEF RestoreFails, KeyTypes, OnePassphrase, KeyInUse, files
  <1>4. CASE InitRestarted
    <2>1. /\ daemonNode' \in NodeKeys \cup {0} /\ nodeKey' \in NodeKeys \cup {0}
          /\ daemonNode' # 0 /\ ~nodeStale' => daemonNode' = nodeKey'
          /\ app' \in {"closed", "asking"}
      BY <1>4, RestartGives DEF InitRestarted
    <2>2. QED
      BY <1>4, <2>1 DEF InitRestarted, KeyTypes, OnePassphrase, KeyInUse
  <1>5. CASE ImportRestarted
    <2>1. /\ daemonNode' \in NodeKeys \cup {0} /\ nodeKey' \in NodeKeys \cup {0}
          /\ daemonNode' # 0 /\ ~nodeStale' => daemonNode' = nodeKey'
      BY <1>5, RestartGives DEF ImportRestarted
    <2>2. QED
      BY <1>5, <2>1 DEF ImportRestarted, KeyTypes, OnePassphrase, KeyInUse
  <1>6. QED
    BY <1>1, <1>2, <1>3, <1>4, <1>5

\* The node's key changes from the window.
LEMMA NodeKeepsKeys ==
    ASSUME KeyInv, (\E k \in NodeKeys : ApplyNode(k)) \/ ResetNode \/ NodeApplied
    PROVE  KeyInv'
  <1> USE DEF KeyInv, AppPhases, WithSession, Resting
  <1>1. CASE (\E k \in NodeKeys : ApplyNode(k)) \/ ResetNode
    BY <1>1 DEF ApplyNode, ResetNode, KeyTypes, OnePassphrase, KeyInUse, history
  <1>2. CASE NodeApplied
    <2>1. /\ daemonNode' \in NodeKeys \cup {0} /\ nodeKey' \in NodeKeys \cup {0}
          /\ daemonNode' # 0 /\ ~nodeStale' => daemonNode' = nodeKey'
      BY <1>2, RestartGives DEF NodeApplied
    <2>2. /\ AtMostOne(session)' /\ session' # {}
          /\ session' \subseteq [seed : Seeds, node : NodeKeys, pw : Passphrases]
          /\ \A t \in session' : \E s \in session : t.pw = s.pw
      <3>1. CASE UNCHANGED session
        BY <1>2, <3>1 DEF NodeApplied, KeyTypes, AtMostOne
      <3>2. CASE /\ daemonNode' # 0
                 /\ session' = {[s EXCEPT !.node = daemonNode'] : s \in session}
        <4>1. \A s \in session : /\ s \in [seed : Seeds, node : NodeKeys, pw : Passphrases]
                                 /\ [s EXCEPT !.node = daemonNode'] \in
                                      [seed : Seeds, node : NodeKeys, pw : Passphrases]
                                 /\ [s EXCEPT !.node = daemonNode'].pw = s.pw
          BY <2>1, <3>2 DEF KeyTypes
        <4>2. session # {} /\ AtMostOne(session)
          BY <1>2 DEF NodeApplied, KeyTypes
        <4>3. AtMostOne(session)' /\ session' # {}
          BY <3>2, <4>2 DEF AtMostOne
        <4>4. /\ session' \subseteq [seed : Seeds, node : NodeKeys, pw : Passphrases]
              /\ \A t \in session' : \E s \in session : t.pw = s.pw
          BY <3>2, <4>1
        <4>5. QED
          BY <4>3, <4>4
      <3>3. QED
        BY <1>2, <3>1, <3>2 DEF NodeApplied
    <2>3. KeyTypes' /\ KeyInUse'
      BY <1>2, <2>1, <2>2 DEF NodeApplied, KeyTypes, KeyInUse
    <2>4. OnePassphrase'
      <3>1. UNCHANGED <<identity, rows, raced>>
        BY <1>2 DEF NodeApplied
      <3>2. session # {}
        BY <1>2 DEF NodeApplied, KeyTypes
      <3>3. QED
        BY <2>2, <3>1, <3>2 DEF OnePassphrase
    <2>5. QED
      BY <2>3, <2>4
  <1>3. QED
    BY <1>1, <1>2

\* Backing up, storing, and the end of the session.
LEMMA WindowKeepsKeys ==
    ASSUME KeyInv, ExportBackup \/ StoreRow \/ Quit \/ Killed
    PROVE  KeyInv'
  <1> USE DEF KeyInv, AppPhases, WithSession, Resting
  <1>1. CASE ExportBackup
    <2>1. /\ AtMostOne(backup)'
          /\ \A b \in backup' : b.seed \in Seeds /\ b.node \in NodeKeys \cup {0}
                                  /\ b.self \in Seeds \cup {0}
      <3>1. backup' = {BackupPayload(s) : s \in session}
        BY <1>1 DEF ExportBackup
      <3>2. AtMostOne(backup)'
        BY <3>1 DEF KeyTypes, AtMostOne
      <3>3. ASSUME NEW s \in session
            PROVE  /\ BackupPayload(s).seed \in Seeds
                   /\ BackupPayload(s).node \in NodeKeys \cup {0}
                   /\ BackupPayload(s).self \in Seeds \cup {0}
        BY DEF BackupPayload, KeyTypes
      <3>4. QED
        BY <3>1, <3>2, <3>3
    <2>2. QED
      BY <1>1, <2>1 DEF ExportBackup, KeyTypes, OnePassphrase, KeyInUse, history
  <1>2. CASE StoreRow
    <2>1. KeyTypes' /\ KeyInUse'
      BY <1>2 DEF StoreRow, KeyTypes, KeyInUse, history
    <2>2. OnePassphrase'
      BY <1>2 DEF StoreRow, OnePassphrase, history
    <2>3. QED
      BY <2>1, <2>2
  <1>3. CASE Quit
    BY <1>3 DEF Quit, KeyTypes, OnePassphrase, KeyInUse, files, AtMostOne
  <1>4. CASE Killed
    BY <1>4 DEF Killed, KeyTypes, OnePassphrase, KeyInUse, files, AtMostOne
  <1>5. QED
    BY <1>1, <1>2, <1>3, <1>4

\* The command line.
LEMMA CommandKeepsKeys ==
    ASSUME KeyInv,
           \/ CmdInit \/ CmdInitSelf \/ CmdInitCut \/ CmdAddRepairs \/ CmdRemoveSelf
           \/ \E k \in Seeds : OnAddSelf(k) \/ AcceptSelf(k) \/ CmdAddSelf(k)
           \/ \E pw \in Passphrases : CmdSend(pw)
    PROVE  KeyInv'
  <1> USE DEF KeyInv, files, history
  <1>1. CASE CmdInit
    BY <1>1 DEF CmdInit, KeyTypes, OnePassphrase, KeyInUse
  <1>2. CASE CmdInitSelf
    BY <1>2 DEF CmdInitSelf, KeyTypes, OnePassphrase, KeyInUse
  <1>3. CASE CmdInitCut
    BY <1>3 DEF CmdInitCut, KeyTypes, OnePassphrase, KeyInUse
  <1>4. CASE CmdAddRepairs
    BY <1>4 DEF CmdAddRepairs, KeyTypes, OnePassphrase, KeyInUse
  <1>5. CASE \E pw \in Passphrases : CmdSend(pw)
    <2>1. PICK pw \in Passphrases, f \in identity : f.pw = pw /\ rows' = rows \cup {pw}
      BY <1>5 DEF CmdSend
    <2>2. UNCHANGED <<identity, selfKey, nodeKey, backup, daemonNode, app, session, created,
                      raced, nodeStale>>
      BY <1>5 DEF CmdSend
    <2>3. KeyTypes' /\ KeyInUse'
      BY <2>1, <2>2 DEF KeyTypes, KeyInUse
    <2>4. \A g \in identity : g.pw = pw
      BY <2>1 DEF KeyTypes, AtMostOne
    <2>5. OnePassphrase'
      BY <2>1, <2>2, <2>4 DEF OnePassphrase
    <2>6. QED
      BY <2>3, <2>5
  <1>6. CASE CmdRemoveSelf \/ \E k \in Seeds : OnAddSelf(k) \/ AcceptSelf(k) \/ CmdAddSelf(k)
    <2>1. PICK k \in Seeds \cup {0} : WriteOwnEntry(k)
      BY <1>6 DEF CmdRemoveSelf, OnAddSelf, AcceptSelf, CmdAddSelf
    <2>2. QED
      BY <2>1 DEF WriteOwnEntry, KeyTypes, OnePassphrase, KeyInUse
  <1>7. QED
    BY <1>1, <1>2, <1>3, <1>4, <1>5, <1>6

LEMMA KeyStep == KeyInv /\ [Next]_vars => KeyInv'
  <1> SUFFICES ASSUME KeyInv, [Next]_vars
               PROVE  KeyInv'
    OBVIOUS
  <1>1. CASE UNCHANGED vars
    BY <1>1 DEF KeyInv, KeyTypes, OnePassphrase, KeyInUse, vars, files, history
  <1>2. CASE Next
    BY <1>2, DaemonKeepsKeys, DialogKeepsKeys, CreateKeepsKeys, ImportKeepsKeys,
       UnlockKeepsKeys, RestoreKeepsKeys, NodeKeepsKeys, WindowKeepsKeys, CommandKeepsKeys
       DEF Next
  <1>3. QED
    BY <1>1, <1>2

LEMMA KeyAlways == Spec => []KeyInv
  BY KeyInit, KeyStep, PTL DEF Spec

-----------------------------------------------------------------------------
(***************************************************************************)
(* What makes SessionIsCurrent inductive: while the daemon is down, what   *)
(* the session knows is the key in the file that the daemon will start     *)
(* with, until an import replaces that file; a daemon that starts after    *)
(* that marks the session as one that has not seen it.                     *)
(***************************************************************************)
SessionFresh ==
    ~told /\ ~unseen => \A s \in session :
       /\ daemonNode # 0 => s.node = daemonNode
       /\ ~nodeStale /\ app = "import self" => nodeKey # 0
       /\ ~nodeStale /\ daemonNode = 0 /\ app \in {"open", "import node"} => s.node = nodeKey

LEMMA FreshInit == Init => SessionFresh
  BY DEF Init, SessionFresh

\* Without a session there is nothing to know.
LEMMA NoSessionIsFresh == ASSUME session' = {} PROVE SessionFresh'
  BY DEF SessionFresh

LEMMA DaemonKeepsFresh ==
    ASSUME KeyInv, SessionFresh, DaemonStarts \/ DaemonDies
    PROVE  SessionFresh'
  <1>1. CASE DaemonStarts
    <2>1. daemonNode' = nodeKey' /\ daemonNode' \in NodeKeys
      BY <1>1, LoadKeyGives DEF DaemonStarts, KeyInv
    <2>2. session' = session /\ app' = app /\ daemonNode = 0
          /\ told' = told /\ unseen' = (unseen \/ (session # {} /\ (nodeStale \/ app # "open")))
      BY <1>1 DEF DaemonStarts
    <2>3. SUFFICES ASSUME ~told', ~unseen', NEW s \in session' PROVE
            /\ daemonNode' # 0 => s.node = daemonNode'
            /\ nodeKey' # 0
      BY <2>1, ZeroIsNoKey DEF SessionFresh
    <2>4. s \in session /\ ~told /\ ~unseen /\ ~nodeStale /\ app = "open"
      BY <2>2, <2>3
    <2>5. s.node = nodeKey /\ s.node \in NodeKeys
      BY <2>2, <2>4 DEF SessionFresh, KeyInv, KeyTypes
    <2>6. nodeKey # 0
      BY <2>5, ZeroIsNoKey
    <2>7. nodeKey' = nodeKey
      BY <1>1, <2>6 DEF DaemonStarts, LoadKey
    <2>8. QED
      BY <2>1, <2>5, <2>6, <2>7
  <1>2. CASE DaemonDies
    <2>1. UNCHANGED <<nodeKey, app, session, nodeStale, told, unseen>> /\ daemonNode # 0 /\ daemonNode' = 0
      BY <1>2 DEF DaemonDies, files, history
    <2>2. ~nodeStale /\ app \in {"open", "import node"} => daemonNode = nodeKey
      BY <2>1 DEF KeyInv, KeyInUse, Resting
    <2>3. QED
      BY <2>1, <2>2 DEF SessionFresh
  <1>3. QED
    BY <1>1, <1>2

\* Imports: the node's key is replaced while the session goes on.
LEMMA ImportKeepsFresh ==
    ASSUME KeyInv, SessionFresh, ImportBackup \/ RestoreNode \/ RestoreSelf \/ RestoreFails
    PROVE  SessionFresh'
  <1>1. UNCHANGED <<session, told, unseen, daemonNode>>
    BY DEF ImportBackup, RestoreIdentity, RestoreNode, RestoreSelf, RestoreFails, history
  <1>2. SUFFICES ASSUME ~told, ~unseen, NEW s \in session PROVE
          /\ daemonNode # 0 => s.node = daemonNode
          /\ ~nodeStale' /\ app' = "import self" => nodeKey' # 0
          /\ ~nodeStale' /\ daemonNode = 0 /\ app' \in {"open", "import node"} => s.node = nodeKey'
    BY <1>1 DEF SessionFresh
  <1>3. /\ daemonNode # 0 => s.node = daemonNode
        /\ ~nodeStale /\ app = "import self" => nodeKey # 0
        /\ ~nodeStale /\ daemonNode = 0 /\ app \in {"open", "import node"} => s.node = nodeKey
    BY <1>2 DEF SessionFresh
  <1>4. s.node \in NodeKeys /\ s.node # 0 /\ app \in WithSession
    BY ZeroIsNoKey DEF KeyInv, KeyTypes
  <1>5. CASE ImportBackup
    <2>1. app = "open" /\ app' = "import node" /\ UNCHANGED <<nodeKey, nodeStale>>
      BY <1>5 DEF ImportBackup, RestoreIdentity
    <2>2. QED
      BY <1>3, <2>1
  <1>6. CASE RestoreNode
    <2>1. app = "import node" /\ app' = "import self" /\ nodeStale' = nodeStale
      BY <1>4, <1>6 DEF RestoreNode, history, WithSession
    <2>2. ~nodeStale => nodeKey # 0
      BY <1>3, <1>4, <2>1 DEF KeyInv, KeyInUse
    <2>3. nodeKey # 0 => nodeKey' # 0
      BY <1>6 DEF RestoreNode
    <2>4. QED
      BY <1>3, <2>1, <2>2, <2>3
  <1>7. CASE RestoreSelf
    BY <1>3, <1>4, <1>7 DEF RestoreSelf, WithSession
  <1>8. CASE RestoreFails
    <2>1. app \in {"import node", "import self"} /\ app' = "open"
      BY <1>4, <1>8 DEF RestoreFails, WithSession
    <2>2. nodeStale' = (nodeStale \/ nodeKey # daemonNode) /\ nodeKey' = nodeKey
      BY <1>8 DEF RestoreFails, files
    <2>3. daemonNode = 0 => nodeStale'
      BY <1>3, <1>4, <2>1, <2>2
    <2>4. QED
      BY <1>3, <2>1, <2>3
  <1>9. QED
    BY <1>5, <1>6, <1>7, <1>8

\* The address is changed from the window.
LEMMA NodeKeepsFresh ==
    ASSUME KeyInv, SessionFresh,
           (\E k \in NodeKeys : ApplyNode(k)) \/ ResetNode \/ NodeApplied \/ ImportRestarted
    PROVE  SessionFresh'
  <1>1. CASE (\E k \in NodeKeys : ApplyNode(k)) \/ ResetNode
    BY <1>1 DEF ApplyNode, ResetNode, SessionFresh, history
  <1>2. CASE NodeApplied
    <2>1. CASE unseen' = TRUE
      BY <2>1 DEF SessionFresh
    <2>2. CASE unseen' # TRUE
      <3>1. /\ daemonNode' # 0 /\ app' = "open"
            /\ session' = {[s EXCEPT !.node = daemonNode'] : s \in session}
        BY <1>2, <2>2 DEF NodeApplied
      <3>2. \A s \in session : [s EXCEPT !.node = daemonNode'].node = daemonNode'
        BY DEF KeyInv, KeyTypes
      <3>3. QED
        BY <3>1, <3>2 DEF SessionFresh
    <2>3. QED
      BY <2>1, <2>2
  <1>3. CASE ImportRestarted
    BY <1>3 DEF ImportRestarted, SessionFresh
  <1>4. QED
    BY <1>1, <1>2, <1>3

LEMMA FreshStep == KeyInv /\ SessionFresh /\ [Next]_vars => SessionFresh'
  <1> SUFFICES ASSUME KeyInv, SessionFresh, [Next]_vars
               PROVE  SessionFresh'
    OBVIOUS
  <1> USE DEF files, history
  <1>1. CASE UNCHANGED vars
    BY <1>1 DEF vars, SessionFresh
  <1>2. CASE DaemonStarts \/ DaemonDies
    BY <1>2, DaemonKeepsFresh
  <1>3. CASE ImportBackup \/ RestoreNode \/ RestoreSelf \/ RestoreFails
    BY <1>3, ImportKeepsFresh
  <1>4. CASE (\E k \in NodeKeys : ApplyNode(k)) \/ ResetNode \/ NodeApplied \/ ImportRestarted
    BY <1>4, NodeKeepsFresh
  <1>5. CASE AskCreate \/ CancelCreate \/ CreateSelf \/ CreateFails \/ InitRestarted
             \/ \E pw \in Passphrases : CreateIdentity(pw) \/ InitRestore(pw)
    <2>1. session' = session /\ app \notin WithSession
      BY <1>5 DEF AskCreate, CancelCreate, CreateSelf, CreateFails, InitRestarted,
                  CreateIdentity, InitRestore, RestoreIdentity, WithSession
    <2>2. QED
      BY <2>1, NoSessionIsFresh DEF KeyInv, KeyTypes
  <1>6. CASE Quit \/ Killed
    BY <1>6, NoSessionIsFresh DEF Quit, Killed
  <1>7. CASE \E pw \in Passphrases : Unlock(pw)
    BY <1>7 DEF Unlock, Session, SessionFresh
  <1>8. CASE \/ ImportIdentity \/ ExportBackup \/ StoreRow
             \/ CmdInit \/ CmdInitSelf \/ CmdInitCut \/ CmdAddRepairs \/ CmdRemoveSelf
             \/ (\E k \in Seeds : OnAddSelf(k) \/ AcceptSelf(k) \/ CmdAddSelf(k))
             \/ \E pw \in Passphrases : CmdInitSave(pw) \/ CmdSend(pw)
    <2>1. UNCHANGED <<nodeKey, daemonNode, app, session, nodeStale, told, unseen>>
      BY <1>8 DEF ImportIdentity, ExportBackup, StoreRow, CmdInit, CmdInitSelf, CmdInitCut,
                  CmdAddRepairs, CmdInitSave, CmdSend, CmdRemoveSelf, OnAddSelf, AcceptSelf,
                  CmdAddSelf, WriteOwnEntry
    <2>2. QED
      BY <2>1 DEF SessionFresh
  <1>9. QED
    BY <1>1, <1>2, <1>3, <1>4, <1>5, <1>6, <1>7, <1>8 DEF Next

-----------------------------------------------------------------------------
\* A backup has been written to identity.json, and not yet to contacts.json.
Replacing == {"restore node", "restore self", "import node", "import self"}

(***************************************************************************)
(* What makes SelfIsMe inductive.  Whoever has written identity.json and   *)
(* has still to write the own entry knows the seed that is in the file:    *)
(* the create dialog, aimless init, or a restore, whose backup names one   *)
(* identity only if it was made while the files did.                       *)
(***************************************************************************)
Written ==
    /\ cli \in {"idle", "passphrase", "screen name"}
    /\ (cli = "screen name" \/ app = "creating" \/ app \in Replacing) => identity # {}

BackupIsWhole == raced \/ \A b \in backup : ~b.mixed => b.self = b.seed

SeedKnown(f) ==
    /\ app = "creating" => f.seed = created.app /\ cli # "screen name"
    /\ app \in Replacing => \A b \in backup : f.seed = b.seed
    /\ app \notin Replacing \cup {"creating"} /\ ~selfStale =>
          /\ cli = "screen name" => f.seed = created.cli
          /\ cli # "screen name" => f.seed = selfKey

SelfInv == Written /\ BackupIsWhole /\ (raced \/ \A f \in identity : SeedKnown(f))

LEMMA SelfInit == Init => SelfInv
  <1> SUFFICES ASSUME Init PROVE SelfInv
    OBVIOUS
  <1>1. \A b \in backup : b.self = b.seed
    BY DEF Init
  <1>2. QED
    BY <1>1 DEF Init, SelfInv, Written, BackupIsWhole, SeedKnown, Replacing

\* Steps that touch none of this, and keep the phase within those without a
\* file to write.
LEMMA ElsewhereKeepsSelf ==
    ASSUME SelfInv, UNCHANGED <<identity, selfKey, backup, cli, created, raced, selfStale>>,
           \/ app' = app
           \/ app \notin Replacing \cup {"creating"} /\ app' \notin Replacing \cup {"creating"}
    PROVE  SelfInv'
  BY DEF SelfInv, Written, BackupIsWhole, SeedKnown

\* The create dialog writes the identity, then the own entry.
LEMMA CreateKeepsSelf ==
    ASSUME KeyInv, SelfInv,
           (\E pw \in Passphrases : CreateIdentity(pw)) \/ CreateSelf \/ CreateFails
    PROVE  SelfInv'
  <1>1. CASE \E pw \in Passphrases : CreateIdentity(pw)
    <2>1. PICK pw \in Passphrases, k \in Seeds :
             SaveIdentity(k, pw) /\ created' = [created EXCEPT !.app = k]
      BY <1>1 DEF CreateIdentity
    <2>2. /\ app' = "creating" /\ raced' = (raced \/ identity # {})
          /\ UNCHANGED <<backup, cli>>
      BY <1>1 DEF CreateIdentity
    <2>3. identity' = {File(k, pw)} /\ File(k, pw).seed = k /\ created'.app = k
      BY <2>1 DEF SaveIdentity, File, KeyInv, KeyTypes
    <2>4. raced' \/ (~raced /\ cli # "screen name")
      BY <2>2 DEF SelfInv, Written
    <2>5. Written' /\ BackupIsWhole'
      BY <2>2, <2>3, <2>4 DEF SelfInv, Written, BackupIsWhole
    <2>6. raced' \/ \A f \in identity' : SeedKnown(f)'
      BY <2>2, <2>3, <2>4 DEF SeedKnown, Replacing
    <2>7. QED
      BY <2>5, <2>6 DEF SelfInv
  <1>2. CASE CreateSelf
    <2>1. /\ UNCHANGED <<identity, backup, cli, raced>>
          /\ app = "creating" /\ app' = "closed" /\ selfKey' = created.app
      BY <1>2 DEF CreateSelf
    <2>2. QED
      BY <2>1 DEF SelfInv, Written, BackupIsWhole, SeedKnown, Replacing
  <1>3. CASE CreateFails
    <2>1. /\ UNCHANGED <<identity, backup, cli, raced>>
          /\ app = "creating" /\ app' = "closed" /\ selfStale' = TRUE
      BY <1>3 DEF CreateFails, files
    <2>2. QED
      BY <2>1 DEF SelfInv, Written, BackupIsWhole, SeedKnown, Replacing
  <1>4. QED
    BY <1>1, <1>2, <1>3

\* The seed of a backup becomes the identity's.
LEMMA RestoredSeedKnown ==
    ASSUME KeyInv, SelfInv, NEW pw, RestoreIdentity(pw), app' \in Replacing,
           raced => raced'
    PROVE  SelfInv'
  <1>1. PICK b \in backup : identity' = {File(b.seed, pw)}
    BY DEF RestoreIdentity, SaveIdentity
  <1>2. File(b.seed, pw).seed = b.seed /\ \A c \in backup : c = b
    BY DEF File, KeyInv, KeyTypes, AtMostOne
  <1>3. UNCHANGED <<backup, cli>>
    BY DEF RestoreIdentity
  <1>4. Written' /\ BackupIsWhole'
    BY <1>1, <1>3 DEF SelfInv, Written, BackupIsWhole
  <1>5. \A f \in identity' : SeedKnown(f)'
    BY <1>1, <1>2, <1>3 DEF SeedKnown, Replacing
  <1>6. QED
    BY <1>4, <1>5 DEF SelfInv

LEMMA RestoreKeepsSelf ==
    ASSUME KeyInv, SelfInv,
           \/ (\E pw \in Passphrases : InitRestore(pw)) \/ ImportBackup
           \/ RestoreNode \/ RestoreSelf \/ RestoreFails
    PROVE  SelfInv'
  <1>1. CASE \E pw \in Passphrases : InitRestore(pw)
    BY <1>1, RestoredSeedKnown DEF InitRestore, Replacing
  <1>2. CASE ImportBackup
    BY <1>2, RestoredSeedKnown DEF ImportBackup, Replacing
  <1>3. CASE RestoreNode
    <2>1. /\ UNCHANGED <<identity, selfKey, backup, cli, created, raced, selfStale>>
          /\ app \in Replacing /\ app' \in Replacing
      BY <1>3 DEF RestoreNode, history, Replacing
    <2>2. app' # "creating"
      BY <2>1 DEF Replacing
    <2>3. QED
      BY <2>1, <2>2 DEF SelfInv, Written, BackupIsWhole, SeedKnown
  <1>4. CASE RestoreSelf
    <2>1. PICK b \in backup : /\ selfKey' \in IF b.self # 0 THEN {b.self} ELSE {0, selfKey}
                              /\ selfStale' = (b.mixed \/ cli = "screen name")
      BY <1>4 DEF RestoreSelf
    <2>2. /\ UNCHANGED <<identity, backup, cli, created, raced>> /\ app \in Replacing
          /\ app' \notin Replacing \cup {"creating"}
      BY <1>4 DEF RestoreSelf, Replacing
    <2>3. b.seed # 0
      BY ZeroIsNoKey DEF KeyInv, KeyTypes
    <2>4. Written' /\ BackupIsWhole'
      BY <2>2 DEF SelfInv, Written, BackupIsWhole
    <2>5. ASSUME ~raced', NEW f \in identity', ~selfStale'
          PROVE  cli' # "screen name" /\ f.seed = selfKey'
      <3>1. ~b.mixed /\ cli # "screen name"
        BY <2>1, <2>5
      <3>2. b.self = b.seed
        BY <2>2, <2>5, <3>1 DEF SelfInv, BackupIsWhole
      <3>3. f.seed = b.seed
        BY <2>2, <2>5 DEF SelfInv, SeedKnown
      <3>4. QED
        BY <2>1, <2>2, <2>3, <3>1, <3>2, <3>3
    <2>6. raced' \/ \A f \in identity' : SeedKnown(f)'
      BY <2>2, <2>5 DEF SeedKnown
    <2>7. QED
      BY <2>4, <2>6 DEF SelfInv
  <1>5. CASE RestoreFails
    <2>1. /\ UNCHANGED <<identity, backup, cli, raced>> /\ selfStale' = TRUE
          /\ app' \in {"asking", "open"}
      BY <1>5 DEF RestoreFails, files
    <2>2. QED
      BY <2>1 DEF SelfInv, Written, BackupIsWhole, SeedKnown, Replacing
  <1>6. QED
    BY <1>1, <1>2, <1>3, <1>4, <1>5

\* An identity imported alone, a backup made, the process killed.
LEMMA WindowKeepsSelf ==
    ASSUME KeyInv, SelfInv, ImportIdentity \/ ExportBackup \/ Killed
    PROVE  SelfInv'
  <1>1. CASE ImportIdentity
    <2>1. /\ UNCHANGED <<backup, app, cli, raced>> /\ selfStale' = TRUE /\ app = "open"
          /\ identity' # {}
      BY <1>1 DEF ImportIdentity, SaveIdentity
    <2>2. QED
      BY <2>1 DEF SelfInv, Written, BackupIsWhole, SeedKnown, Replacing
  <1>2. CASE ExportBackup
    <2>1. /\ UNCHANGED <<identity, selfKey, app, cli, created, raced, selfStale>>
          /\ app = "open" /\ backup' = {BackupPayload(s) : s \in session}
      BY <1>2 DEF ExportBackup, history
    <2>2. ASSUME ~raced, NEW s \in session, ~BackupPayload(s).mixed
          PROVE  BackupPayload(s).self = BackupPayload(s).seed
      <3>1. /\ BackupPayload(s).self = selfKey /\ BackupPayload(s).seed = s.seed
            /\ ~selfStale /\ cli # "screen name" /\ File(s.seed, s.pw) \in identity
        BY <2>2 DEF BackupPayload
      <3>2. SeedKnown(File(s.seed, s.pw))
        BY <2>2, <3>1 DEF SelfInv
      <3>3. File(s.seed, s.pw).seed = s.seed
        BY DEF File
      <3>4. QED
        BY <2>1, <3>1, <3>2, <3>3 DEF SeedKnown, Replacing
    <2>3. BackupIsWhole'
      BY <2>1, <2>2 DEF BackupIsWhole
    <2>4. QED
      BY <2>1, <2>3 DEF SelfInv, Written, SeedKnown, Replacing
  <1>3. CASE Killed
    <2>1. /\ UNCHANGED <<identity, selfKey, backup, cli, raced>> /\ app' = "closed"
          /\ selfStale' = (selfStale \/ app \in Replacing \cup {"creating"})
          /\ created'.cli = created.cli
      BY <1>3 DEF Killed, files, Replacing, KeyInv, KeyTypes
    <2>2. QED
      BY <2>1 DEF SelfInv, Written, BackupIsWhole, SeedKnown, Replacing
  <1>4. QED
    BY <1>1, <1>2, <1>3

\* aimless init, and the repair by aimless add.
LEMMA CommandKeepsSelf ==
    ASSUME KeyInv, SelfInv,
           \/ CmdInit \/ (\E pw \in Passphrases : CmdInitSave(pw)) \/ CmdInitSelf
           \/ CmdInitCut \/ CmdAddRepairs
    PROVE  SelfInv'
  <1>1. CASE CmdInit
    <2>1. /\ UNCHANGED <<identity, selfKey, backup, app, created, raced, selfStale>>
          /\ cli = "idle" /\ cli' = "passphrase"
      BY <1>1 DEF CmdInit, files, history
    <2>2. QED
      BY <2>1 DEF SelfInv, Written, BackupIsWhole, SeedKnown
  <1>2. CASE \E pw \in Passphrases : CmdInitSave(pw)
    <2>1. PICK pw \in Passphrases, k \in Seeds :
             SaveIdentity(k, pw) /\ created' = [created EXCEPT !.cli = k]
      BY <1>2 DEF CmdInitSave
    <2>2. /\ cli' = "screen name" /\ raced' = (raced \/ identity # {})
          /\ UNCHANGED <<backup, app>>
      BY <1>2 DEF CmdInitSave
    <2>3. identity' = {File(k, pw)} /\ File(k, pw).seed = k /\ created'.cli = k
      BY <2>1 DEF SaveIdentity, File, KeyInv, KeyTypes
    <2>4. raced' \/ (~raced /\ app # "creating" /\ app \notin Replacing)
      BY <2>2 DEF SelfInv, Written
    <2>5. Written' /\ BackupIsWhole'
      BY <2>2, <2>3, <2>4 DEF SelfInv, Written, BackupIsWhole
    <2>6. raced' \/ \A f \in identity' : SeedKnown(f)'
      BY <2>2, <2>3, <2>4 DEF SeedKnown
    <2>7. QED
      BY <2>5, <2>6 DEF SelfInv
  <1>3. CASE CmdInitSelf
    <2>1. /\ UNCHANGED <<identity, backup, app, raced, selfStale>> /\ cli = "screen name"
          /\ cli' = "idle" /\ selfKey' = created.cli
      BY <1>3 DEF CmdInitSelf, history
    <2>2. QED
      BY <2>1 DEF SelfInv, Written, BackupIsWhole, SeedKnown
  <1>4. CASE CmdInitCut
    <2>1. /\ UNCHANGED <<identity, selfKey, backup, app, raced>> /\ cli' = "idle"
          /\ selfStale' = (selfStale \/ cli = "screen name") /\ created'.app = created.app
      BY <1>4 DEF CmdInitCut, files, KeyInv, KeyTypes
    <2>2. QED
      BY <2>1 DEF SelfInv, Written, BackupIsWhole, SeedKnown
  <1>5. CASE CmdAddRepairs
    <2>1. /\ UNCHANGED <<identity, backup, app, cli, created, raced>>
          /\ selfStale' = (cli # "idle" \/ app \notin Resting)
          /\ \E f \in identity : selfKey' = f.seed
      BY <1>5 DEF CmdAddRepairs
    <2>2. \A f \in identity : selfKey' = f.seed
      BY <2>1 DEF KeyInv, KeyTypes, AtMostOne
    <2>3. QED
      BY <2>1, <2>2 DEF SelfInv, Written, BackupIsWhole, SeedKnown
  <1>6. QED
    BY <1>1, <1>2, <1>3, <1>4, <1>5

\* A contact takes the own entry's name, or is removed under it.
LEMMA ContactKeepsSelf ==
    ASSUME KeyInv, SelfInv,
           CmdRemoveSelf \/ \E k \in Seeds : OnAddSelf(k) \/ AcceptSelf(k) \/ CmdAddSelf(k)
    PROVE  SelfInv'
  <1>1. UNCHANGED <<identity, backup, app, cli, created, raced>> /\ selfStale' = TRUE
    BY DEF CmdRemoveSelf, OnAddSelf, AcceptSelf, CmdAddSelf, WriteOwnEntry
  <1>2. QED
    BY <1>1 DEF SelfInv, Written, BackupIsWhole, SeedKnown

LEMMA SelfStep == KeyInv /\ SelfInv /\ [Next]_vars => SelfInv'
  <1> SUFFICES ASSUME KeyInv, SelfInv, [Next]_vars
               PROVE  SelfInv'
    OBVIOUS
  <1>1. CASE \/ (\E pw \in Passphrases : CreateIdentity(pw)) \/ CreateSelf \/ CreateFails
    BY <1>1, CreateKeepsSelf
  <1>2. CASE \/ (\E pw \in Passphrases : InitRestore(pw)) \/ ImportBackup
             \/ RestoreNode \/ RestoreSelf \/ RestoreFails
    BY <1>2, RestoreKeepsSelf
  <1>3. CASE ImportIdentity \/ ExportBackup \/ Killed
    BY <1>3, WindowKeepsSelf
  <1>4. CASE \/ CmdInit \/ (\E pw \in Passphrases : CmdInitSave(pw)) \/ CmdInitSelf
             \/ CmdInitCut \/ CmdAddRepairs
    BY <1>4, CommandKeepsSelf
  <1>5. CASE \/ UNCHANGED vars
             \/ DaemonStarts \/ DaemonDies \/ AskCreate \/ CancelCreate
             \/ (\E pw \in Passphrases : Unlock(pw) \/ CmdSend(pw))
             \/ InitRestarted \/ ImportRestarted
             \/ (\E k \in NodeKeys : ApplyNode(k)) \/ ResetNode \/ NodeApplied
             \/ StoreRow \/ Quit
    <2>1. UNCHANGED <<identity, selfKey, backup, cli, created, raced, selfStale>>
      BY <1>5 DEF vars, files, history, DaemonStarts, DaemonDies, AskCreate, CancelCreate,
                  Unlock, CmdSend, InitRestarted, ImportRestarted, ApplyNode, ResetNode,
                  NodeApplied, StoreRow, Quit
    <2>2. \/ app' = app
          \/ app \notin Replacing \cup {"creating"} /\ app' \notin Replacing \cup {"creating"}
      BY <1>5 DEF vars, files, history, DaemonStarts, DaemonDies, AskCreate, CancelCreate,
                  Unlock, CmdSend, InitRestarted, ImportRestarted, ApplyNode, ResetNode,
                  NodeApplied, StoreRow, Quit, Replacing
    <2>3. QED
      BY <2>1, <2>2, ElsewhereKeepsSelf
  <1>6. CASE CmdRemoveSelf \/ \E k \in Seeds : OnAddSelf(k) \/ AcceptSelf(k) \/ CmdAddSelf(k)
    BY <1>6, ContactKeepsSelf
  <1>7. QED
    BY <1>1, <1>2, <1>3, <1>4, <1>5, <1>6 DEF Next

-----------------------------------------------------------------------------
(***************************************************************************)
(* Types of the keys model; a session exists exactly while a window is     *)
(* open (gtkui.py, _open_window_unlocked, quit).                           *)
(***************************************************************************)
THEOREM IdentityTypeCorrect == Spec => []IdentityTypeOK
  <1>1. KeyInv => IdentityTypeOK
    BY CardinalityOfOne
       DEF KeyInv, KeyTypes, IdentityTypeOK, AppPhases, WithSession, Resting
  <1>2. QED
    BY <1>1, KeyAlways, PTL

(***************************************************************************)
(* Whatever is stored can be read with the passphrase of identity.json,    *)
(* for any number of identities imported and restored (create_identity,    *)
(* import_identity, restore_bundle, cmd_init), unless somebody replaced an *)
(* identity after finding none.                                            *)
(***************************************************************************)
THEOREM StoredRowsReadable == Spec => []RowsReadable
  <1>1. KeyInv => RowsReadable
    BY DEF KeyInv, OnePassphrase, RowsReadable
  <1>2. QED
    BY <1>1, KeyAlways, PTL

(***************************************************************************)
(* The daemon runs with the key of node.key whenever the application is at *)
(* rest (_apply_node_seed, reset_node, restart_daemon, LoadOrCreateKey),   *)
(* unless an operation was cut short between the file and the daemon.      *)
(***************************************************************************)
THEOREM DaemonUsesNodeKey == Spec => []NodeKeyInUse
  <1>1. KeyInv => NodeKeyInUse
    BY DEF KeyInv, KeyInUse, NodeKeyInUse
  <1>2. QED
    BY <1>1, KeyAlways, PTL

(***************************************************************************)
(* The open window knows the address of the daemon it talks to, through    *)
(* any number of deaths and restarts of that daemon and changes of its key *)
(* (apply_node, reset_node, poll), unless the user was told to reopen it   *)
(* (import_backup), the session could not ask the restarted daemon, or the *)
(* daemon was started again after a restore that failed or was still under *)
(* way, or a stop that took too long, had left it another key.             *)
(***************************************************************************)
THEOREM WindowKnowsItsAddress == Spec => []SessionIsCurrent
  <1>1. SessionFresh => SessionIsCurrent
    BY DEF SessionFresh, SessionIsCurrent
  <1>2. Spec => []SessionFresh
    BY FreshInit, FreshStep, KeyAlways, PTL DEF Spec
  <1>3. QED
    BY <1>1, <1>2, PTL

(***************************************************************************)
(* The own entry of contacts.json names the identity of identity.json,     *)
(* after any sequence of identities created, imported, backed up and       *)
(* restored by two programs that share the files (create_identity,         *)
(* restore_bundle, _backup_payload, cmd_init, cmd_add), unless one of them *)
(* was cut short, failed or raced the other, an identity was imported      *)
(* alone, a contact was added or removed under the entry's name            *)
(* (gtkui.py:2625, cli.py:138, 148), or the backup was made while the      *)
(* files disagreed.                                                        *)
(***************************************************************************)
THEOREM OwnEntryNamesIdentity == Spec => []SelfIsMe
  <1>1. SelfInv => SelfIsMe
    BY DEF SelfInv, SeedKnown, SelfIsMe, Resting, Replacing
  <1>2. Spec => []SelfInv
    BY SelfInit, SelfStep, KeyAlways, PTL DEF Spec
  <1>3. QED
    BY <1>1, <1>2, PTL
=============================================================================
