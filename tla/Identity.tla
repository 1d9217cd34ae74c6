------------------------------ MODULE Identity ------------------------------
(***************************************************************************)
(* Keys on the user's machine (client/aimless: gtkui.py, keys.py,          *)
(* crypto.py, cli.py).  The identity's seed lies in identity.json under a  *)
(* passphrase, the public key also in contacts.json, the node's key in     *)
(* node.key; the store encrypts its rows under the same passphrase and     *)
(* does not check it.  Creating an identity and restoring a backup replace *)
(* these files one after the other, each atomically; the daemon reads      *)
(* node.key when it starts, and the session reads all of them when it is   *)
(* unlocked.                                                               *)
(*                                                                         *)
(* The application and the command line share the files.  A wrong          *)
(* passphrase, or a daemon that does not answer, leaves all as it was, so  *)
(* attempts that fail are not steps.  The daemon is a local one.           *)
(***************************************************************************)
EXTENDS Naturals, FiniteSets

CONSTANTS Seeds,       \* of identities
          NodeKeys,
          Passphrases

ASSUME KeysAssumption == Seeds \subseteq Nat \ {0} /\ NodeKeys \subseteq Nat \ {0}

VARIABLES identity,    \* identity.json, none or one
          selfKey,     \* the identity in contacts.json's own entry, 0 for none
          nodeKey,     \* node.key, 0 for none
          rows,        \* passphrases that rows of the store are encrypted with
          backup,      \* a backup file, none or one
          daemonNode,  \* the key the daemon runs with, 0 for no daemon
          app,         \* what the application does
          session,     \* the unlocked session, none or one
          cli,         \* what aimless init does
          created,     \* the seeds that the create dialog and aimless init have made
          raced,       \* history: somebody who had found no identity replaced one
          selfStale,   \* history: an operation that should have replaced the own
                       \* entry failed, was cut short or does not replace it, or
                       \* something that is not the user's was written there
          nodeStale,   \* history: node.key has changed since the daemon started,
                       \* and the operation was cut short or failed
          told,        \* history: the user was told to reopen the window
          unseen       \* history: the daemon started again and nobody was told: the
                       \* session could not ask it, or it found a node.key that an
                       \* operation has changed without restarting it

files == <<identity, selfKey, nodeKey, rows, backup>>
history == <<raced, selfStale, nodeStale, told, unseen>>
vars == <<files, daemonNode, app, session, cli, created, history>>

File(seed, pw) == [seed |-> seed, pw |-> pw]
Session(seed, node, pw) == [seed |-> seed, node |-> node, pw |-> pw]

Resting == {"closed", "asking", "open"}

\* The backup is none, or one made on another machine.
Init == /\ identity = {} /\ selfKey = 0 /\ nodeKey = 0 /\ rows = {}
        /\ \/ backup = {}
           \/ \E k \in Seeds, n \in NodeKeys \cup {0} :
                 backup = {[seed |-> k, node |-> n, self |-> k, mixed |-> FALSE]}
        /\ daemonNode = 0
        /\ app = "closed" /\ session = {}
        /\ cli = "idle" /\ created = [app |-> 0, cli |-> 0]
        /\ raced = FALSE /\ selfStale = FALSE /\ nodeStale = FALSE
        /\ told = FALSE /\ unseen = FALSE

\* Keys that are nowhere: the least of each kind stands for them all.
FreshSeed(k) ==
    LET used == {selfKey, created.app, created.cli} \cup {f.seed : f \in identity \cup session}
                   \cup UNION {{b.seed, b.self} : b \in backup}
    IN  k \notin used /\ \A other \in Seeds : other < k => other \in used
FreshNode(k) ==
    LET used == {nodeKey, daemonNode} \cup {f.node : f \in session \cup backup}
    IN  k \notin used /\ \A other \in NodeKeys : other < k => other \in used

-----------------------------------------------------------------------------
\* The daemon.

\* LoadOrCreateKey.
LoadKey == IF nodeKey # 0 THEN daemonNode' = nodeKey /\ UNCHANGED nodeKey
           ELSE \E k \in NodeKeys : FreshNode(k) /\ nodeKey' = k /\ daemonNode' = k

\* Started by hand, with the application, or by poll, which tells nobody and does
\* not let the session ask the daemon who it is.
DaemonStarts == /\ daemonNode = 0 /\ app \notin {"restarting", "reloading", "applying"}
                /\ LoadKey
                /\ nodeStale' = FALSE
                /\ unseen' = (unseen \/ (session # {} /\ (nodeStale \/ app # "open")))
                /\ UNCHANGED <<identity, selfKey, rows, backup, app, session, cli,
                               created, raced, selfStale, told>>

DaemonDies == /\ daemonNode # 0
              /\ daemonNode' = 0
              /\ UNCHANGED <<files, app, session, cli, created, history>>

\* Deviation: the daemon that runs is found and kept.
DaemonRestartNot == UNCHANGED <<daemonNode, nodeKey, nodeStale>>

\* restart_daemon: whether the old one went within five seconds and the new one
\* came is not looked at.
DaemonRestart == \/ LoadKey /\ nodeStale' = FALSE
                 \/ daemonNode' = 0 /\ UNCHANGED <<nodeKey, nodeStale>>
                 \/ daemonNode # 0 /\ nodeStale' = TRUE /\ UNCHANGED <<daemonNode,
                                                                       nodeKey>>

-----------------------------------------------------------------------------
\* _open_window_unlocked.

\* No identity: the create dialog.
AskCreate == /\ app = "closed" /\ identity = {}
             /\ app' = "asking"
             /\ UNCHANGED <<files, daemonNode, session, cli, created, history>>

\* The dialog is cancelled, or has come up three times.
CancelCreate == /\ app = "asking"
                /\ app' = "closed"
                /\ UNCHANGED <<files, daemonNode, session, cli, created, history>>

\* save_identity.
SaveIdentity(seed, pw) == identity' = {File(seed, pw)}

\* create_identity: a fresh seed is written ...
CreateIdentity(pw) == /\ app = "asking"
                      /\ \E k \in Seeds : /\ FreshSeed(k) /\ SaveIdentity(k, pw)
                                         /\ created' = [created EXCEPT !.app = k]
                      /\ raced' = (raced \/ identity # {})
                      /\ app' = "creating"
                      /\ UNCHANGED <<selfKey, nodeKey, rows, backup, daemonNode,
                                     session, cli, selfStale, nodeStale, told, unseen>>

\* ... and then the own entry; the session is opened next.
CreateSelf == /\ app = "creating"
              /\ selfKey' = created.app /\ created' = [created EXCEPT !.app = 0]
              /\ selfStale' = FALSE
              /\ app' = "closed"
              /\ UNCHANGED <<identity, nodeKey, rows, backup, daemonNode, session,
                             cli, raced, nodeStale, told, unseen>>

\* Writing the own entry fails, and the dialog is gone.
CreateFails == /\ app = "creating"
               /\ created' = [created EXCEPT !.app = 0]
               /\ selfStale' = TRUE
               /\ app' = "closed"
               /\ UNCHANGED <<files, daemonNode, session, cli, raced, nodeStale, told, unseen>>

\* Deviation: any passphrase opens the session.
UnlockAny(pw) == \E f \in identity :
                    /\ app = "closed" /\ daemonNode # 0
                    /\ session' = {Session(f.seed, daemonNode, pw)}
                    /\ app' = "open" /\ told' = FALSE /\ unseen' = FALSE
                    /\ UNCHANGED <<files, daemonNode, cli, created, raced,
                                   selfStale, nodeStale>>

\* Session: the identity is decrypted before anything is opened with the
\* passphrase; the daemon says what its key is.
Unlock(pw) == \E f \in identity :
                 /\ app = "closed" /\ daemonNode # 0
                 /\ f.pw = pw
                 /\ session' = {Session(f.seed, daemonNode, pw)}
                 /\ app' = "open" /\ told' = FALSE /\ unseen' = FALSE
                 /\ UNCHANGED <<files, daemonNode, cli, created, raced,
                                selfStale, nodeStale>>

-----------------------------------------------------------------------------
\* restore_bundle, from the create dialog with a new passphrase, or from the
\* open window with the session's: three files, then the daemon.

RestoreIdentity(pw) ==
                   /\ \E b \in backup : SaveIdentity(b.seed, pw)
                   /\ UNCHANGED <<selfKey, nodeKey, rows, backup, daemonNode, session,
                                  cli, created, selfStale, nodeStale, told, unseen>>

InitRestore(pw) == /\ app = "asking"
                   /\ app' = "restore node"
                   /\ RestoreIdentity(pw)
                   /\ raced' = (raced \/ identity # {})

ImportBackup == /\ app = "open"
                /\ app' = "import node"
                /\ \E s \in session : RestoreIdentity(s.pw)
                /\ UNCHANGED raced

RestoreNode == /\ app \in {"restore node", "import node"}
               /\ \E b \in backup : nodeKey' = IF b.node # 0 THEN b.node ELSE nodeKey
               /\ app' = IF app = "restore node" THEN "restore self" ELSE "import self"
               /\ UNCHANGED <<identity, selfKey, rows, backup, daemonNode, session,
                              cli, created, history>>

\* Deviation: the contacts of the backup stay in it.
RestoreSelfNot == /\ app \in {"restore self", "import self"}
                  /\ \E b \in backup : selfStale' = (b.mixed \/ cli = "screen name")
                  /\ app' = IF app = "restore self" THEN "restarting" ELSE "reloading"
                  /\ UNCHANGED <<files, daemonNode, session, cli, created, raced,
                                 nodeStale, told, unseen>>

\* The contacts of the backup, with the own entry, unless there are none.
RestoreSelf == /\ app \in {"restore self", "import self"}
               /\ \E b \in backup : /\ selfKey' \in IF b.self # 0 THEN {b.self}
                                                    ELSE {0, selfKey}
                                    /\ selfStale' = (b.mixed \/ cli = "screen name")
               /\ app' = IF app = "restore self" THEN "restarting" ELSE "reloading"
               /\ UNCHANGED <<identity, nodeKey, rows, backup, daemonNode, session,
                              cli, created, raced, nodeStale, told, unseen>>

\* Writing the second or third file fails: the daemon is not restarted.
RestoreFails == /\ app \in {"restore node", "restore self", "import node", "import self"}
                /\ selfStale' = TRUE
                /\ nodeStale' = (nodeStale \/ nodeKey # daemonNode)
                /\ app' = IF app \in {"restore node", "restore self"} THEN "asking" ELSE "open"
                /\ UNCHANGED <<files, daemonNode, session, cli, created, raced, told, unseen>>

\* After a restore from the create dialog the session is opened if the daemon
\* came back and answers; otherwise the create dialog comes up again.
InitRestarted == /\ app = "restarting"
                 /\ DaemonRestart
                 /\ app' \in IF daemonNode' # 0 THEN {"closed", "asking"} ELSE {"asking"}
                 /\ UNCHANGED <<identity, selfKey, rows, backup, session, cli,
                                created, raced, selfStale, told, unseen>>

\* After one from the window the session stays as it was; the user is told to
\* quit and reopen.
ImportRestarted == /\ app = "reloading"
                   /\ DaemonRestart
                   /\ app' = "open" /\ told' = TRUE
                   /\ UNCHANGED <<identity, selfKey, rows, backup, session, cli,
                                  created, raced, selfStale, unseen>>

-----------------------------------------------------------------------------
\* The open window.

\* import_identity: the own entry is not touched, nor is the session.
ImportIdentity == /\ app = "open"
                  /\ \E s \in session, k \in Seeds : SaveIdentity(k, s.pw)
                  /\ selfStale' = TRUE
                  /\ UNCHANGED <<selfKey, nodeKey, rows, backup, daemonNode, app,
                                 session, cli, created, raced, nodeStale, told, unseen>>

\* apply_node replaces the file, reset_node removes it ...
ApplyNode(k) == /\ app = "open"
                /\ nodeKey' = k
                /\ app' = "applying"
                /\ UNCHANGED <<identity, selfKey, rows, backup, daemonNode, session, cli,
                               created, history>>

ResetNode == /\ app = "open"
             /\ nodeKey' = 0
             /\ app' = "applying"
             /\ UNCHANGED <<identity, selfKey, rows, backup, daemonNode, session, cli,
                            created, history>>

\* Deviation: the running session keeps the address it has.
NodeAppliedUnseen == /\ app = "applying"
                     /\ DaemonRestart
                     /\ app' = "open" /\ told' = FALSE /\ unseen' = FALSE
                     /\ UNCHANGED <<identity, selfKey, rows, backup, session, cli,
                                    created, raced, selfStale>>

\* ... the daemon restarts, and the session asks it for its key again, if it can.
NodeApplied == /\ app = "applying"
               /\ DaemonRestart
               /\ \/ UNCHANGED <<session, told>> /\ unseen' = TRUE
                  \/ /\ daemonNode' # 0
                     /\ session' = {[s EXCEPT !.node = daemonNode'] : s \in session}
                     /\ told' = FALSE /\ unseen' = FALSE
               /\ app' = "open"
               /\ UNCHANGED <<identity, selfKey, rows, backup, cli, created,
                              raced, selfStale>>

\* _backup_payload takes the seed from the session and the rest from the files.
BackupPayload(s) == [seed |-> s.seed, node |-> nodeKey, self |-> selfKey,
                     mixed |-> \/ selfStale \/ cli = "screen name"
                               \/ File(s.seed, s.pw) \notin identity]

ExportBackup == /\ app = "open"
                /\ backup' = {BackupPayload(s) : s \in session}
                /\ UNCHANGED <<identity, selfKey, nodeKey, rows, daemonNode, app, session,
                               cli, created, history>>

\* A message is stored.
StoreRow == /\ session # {}
            /\ rows' = rows \cup {s.pw : s \in session}
            /\ UNCHANGED <<identity, selfKey, nodeKey, backup, daemonNode, app, session,
                           cli, created, history>>

\* quit stops the daemon as well.
Quit == /\ app = "open"
        /\ app' = "closed" /\ session' = {} /\ daemonNode' = 0
        /\ told' = FALSE /\ unseen' = FALSE
        /\ UNCHANGED <<files, cli, created, raced, selfStale, nodeStale>>

\* The process is killed; the daemon goes on.
Killed == /\ app # "closed"
          /\ app' = "closed" /\ session' = {} /\ told' = FALSE /\ unseen' = FALSE
          /\ selfStale' = (selfStale \/ app \in {"creating", "restore node", "restore self",
                                                 "import node", "import self"})
          /\ nodeStale' = (nodeStale \/ (app \notin Resting /\ nodeKey # daemonNode))
          /\ created' = [created EXCEPT !.app = 0]
          /\ UNCHANGED <<files, daemonNode, cli, raced>>

-----------------------------------------------------------------------------
\* The command line.

\* cmd_init looks for an identity, then asks for a passphrase ...
CmdInit == /\ cli = "idle" /\ identity = {}
           /\ cli' = "passphrase"
           /\ UNCHANGED <<files, daemonNode, app, session, created, history>>

\* ... writes the identity, and asks for a screen name ...
CmdInitSave(pw) == /\ cli = "passphrase"
                   /\ \E k \in Seeds : /\ FreshSeed(k) /\ SaveIdentity(k, pw)
                                      /\ created' = [created EXCEPT !.cli = k]
                   /\ raced' = (raced \/ identity # {})
                   /\ selfStale' = FALSE
                   /\ cli' = "screen name"
                   /\ UNCHANGED <<selfKey, nodeKey, rows, backup, daemonNode, app,
                                  session, nodeStale, told, unseen>>

\* ... and writes the own entry.
CmdInitSelf == /\ cli = "screen name"
               /\ selfKey' = created.cli /\ created' = [created EXCEPT !.cli = 0]
               /\ cli' = "idle"
               /\ UNCHANGED <<identity, nodeKey, rows, backup, daemonNode, app, session,
                              history>>

\* The user interrupts it at a prompt.
CmdInitCut == /\ cli # "idle"
              /\ cli' = "idle" /\ created' = [created EXCEPT !.cli = 0]
              /\ selfStale' = (selfStale \/ cli = "screen name")
              /\ UNCHANGED <<files, daemonNode, app, session, raced, nodeStale, told, unseen>>

\* cmd_send, chat: get_client decrypts the identity before the store is opened.
CmdSend(pw) == /\ daemonNode # 0
               /\ \E f \in identity : f.pw = pw
               /\ rows' = rows \cup {pw}
               /\ UNCHANGED <<identity, selfKey, nodeKey, backup, daemonNode, app,
                              session, cli, created, history>>

\* cmd_add fills in an own entry that is missing.
CmdAddRepairs == /\ selfKey = 0
                 /\ \E f \in identity : selfKey' = f.seed
                 /\ selfStale' = (cli # "idle" \/ app \notin Resting)
                 /\ UNCHANGED <<identity, nodeKey, rows, backup, daemonNode, app,
                                session, cli, created, raced, nodeStale, told, unseen>>

-----------------------------------------------------------------------------
\* The own entry is an entry of contacts.json like any other, under the name "_self",
\* which nobody else is kept from having.

WriteOwnEntry(k) == /\ selfKey' = k /\ selfStale' = TRUE
                    /\ UNCHANGED <<identity, nodeKey, rows, backup, daemonNode, app,
                                   session, cli, created, raced, nodeStale, told, unseen>>

\* on_add, with an invite or a petname of that name.
OnAddSelf(k) == /\ app = "open" /\ \A s \in session : s.seed # k
                /\ WriteOwnEntry(k)

\* Somebody of that name is added from a request or a room: _free_petname looks
\* for a name that is not taken.
AcceptSelf(k) == /\ app = "open" /\ selfKey = 0
                 /\ WriteOwnEntry(k)

\* cmd_add, once an own entry that is missing has been filled in; cmd_remove.
CmdAddSelf(k) == /\ selfKey # k /\ (selfKey = 0 => identity = {})
                 /\ WriteOwnEntry(k)

CmdRemoveSelf == selfKey # 0 /\ WriteOwnEntry(0)

-----------------------------------------------------------------------------
Next == \/ DaemonStarts \/ DaemonDies
        \/ AskCreate \/ CancelCreate \/ CreateSelf \/ CreateFails
        \/ \E pw \in Passphrases : \/ CreateIdentity(pw) \/ Unlock(pw) \/ InitRestore(pw)
                                   \/ CmdInitSave(pw) \/ CmdSend(pw)
        \/ ImportBackup \/ RestoreNode \/ RestoreSelf \/ RestoreFails
        \/ InitRestarted \/ ImportRestarted
        \/ ImportIdentity \/ (\E k \in NodeKeys : ApplyNode(k)) \/ ResetNode \/ NodeApplied
        \/ ExportBackup \/ StoreRow \/ Quit \/ Killed
        \/ CmdInit \/ CmdInitSelf \/ CmdInitCut \/ CmdAddRepairs
        \/ (\E k \in Seeds : OnAddSelf(k) \/ AcceptSelf(k) \/ CmdAddSelf(k)) \/ CmdRemoveSelf

Spec == Init /\ [][Next]_vars

-----------------------------------------------------------------------------
IdentityTypeOK ==
    /\ Cardinality(identity) <= 1 /\ identity \subseteq [seed : Seeds, pw : Passphrases]
    /\ {selfKey, created.app, created.cli} \subseteq Seeds \cup {0}
    /\ {nodeKey, daemonNode} \subseteq NodeKeys \cup {0}
    /\ rows \subseteq Passphrases /\ Cardinality(backup) <= 1
    /\ app \in Resting \cup {"creating", "restore node", "restore self", "import node",
                             "import self", "restarting", "reloading", "applying"}
    /\ session # {} <=> app \in {"open", "import node", "import self", "reloading",
                                 "applying"}
    /\ session \subseteq [seed : Seeds, node : NodeKeys, pw : Passphrases]

(***************************************************************************)
(* What is stored can be read: every row of the store is encrypted under   *)
(* the passphrase of identity.json, through imports and restores that      *)
(* replace the identity (gtkui.py:865-871, 3395, 3475; store.py:103; the   *)
(* store itself accepts any passphrase), unless somebody replaced an       *)
(* identity after finding none.                                            *)
(***************************************************************************)
RowsReadable ==
    raced \/ \A f \in identity : rows \subseteq {f.pw}

(***************************************************************************)
(* The own entry of contacts.json, by which the command line recognises    *)
(* the user's own invite, names the identity (create_identity,             *)
(* restore_bundle, cmd_init, cmd_add), also after a backup made in an      *)
(* earlier life of the machine was restored.  Exempt are an identity that  *)
(* was replaced by somebody who had found none (raced), and an entry that  *)
(* since it was last written (selfStale)                                   *)
(*   - should have been replaced by an operation that failed, was cut      *)
(*     short, or imports an identity alone (gtkui.py:3379-3399);           *)
(*   - was taken by a contact of its name or removed as a contact          *)
(*     (gtkui.py:2625, 977, cli.py:138, 148);                              *)
(*   - came from a backup that was made while the session, the identity    *)
(*     and the entry did not name the same (mixed), or was written while   *)
(*     another program was between its two files.                          *)
(***************************************************************************)
SelfIsMe ==
    (app \in Resting /\ cli = "idle" /\ ~selfStale /\ ~raced)
       => \A f \in identity : selfKey = f.seed

(***************************************************************************)
(* The daemon runs with the key of node.key, so that the address in the    *)
(* user's invite is still the user's after the next restart                *)
(* (_apply_node_seed, reset_node, restart_daemon), unless an operation was *)
(* cut short between the file and the daemon.                              *)
(***************************************************************************)
NodeKeyInUse ==
    (app \in Resting /\ daemonNode # 0 /\ ~nodeStale) => daemonNode = nodeKey

(***************************************************************************)
(* The open window knows the address its daemon uses, by which it leaves   *)
(* the user out of the members of a room it sends to (gtkui.py:1801,       *)
(* 2930), also after the key was changed from the window and after poll    *)
(* started the daemon again.  Exempt are a window whose user was told to   *)
(* reopen it (told: a restored backup), and, with nobody told (unseen),    *)
(* one that could not ask the restarted daemon (gtkui.py:3268-3271), and   *)
(* one whose daemon was started again, by poll (gtkui.py:4480-4487), after *)
(* node.key was replaced by an operation that did not restart it: a        *)
(* restore that failed or was still under way, or a stop that took longer  *)
(* than the five seconds restart_daemon waits.                             *)
(***************************************************************************)
SessionIsCurrent ==
    (app = "open" /\ daemonNode # 0 /\ ~told /\ ~unseen)
       => \A s \in session : s.node = daemonNode
=============================================================================
