------------------------------- MODULE People -------------------------------
(***************************************************************************)
(* Who may write to the user (client/aimless/gtkui.py, store.py, cli.py).  *)
(* A contact's messages are shown.  A stranger's are withheld, one per     *)
(* stranger, until the user has answered a request dialog; whoever is      *)
(* blocked is muted in the client's store at once, and at the daemon by a  *)
(* thread that nobody waits for (daemon/mail.go, Block and Unblock).       *)
(*                                                                         *)
(* The dialog runs a main loop of its own.  Events go on being drained     *)
(* under it, except when a drained event has opened it: GLib does not      *)
(* dispatch a source recursively.                                          *)
(*                                                                         *)
(* The contact list shows the daemon's blocklist as it was fetched some    *)
(* time ago, by one of several threads, and has the buttons for unblocking.*)
(***************************************************************************)
EXTENDS Naturals, FiniteSets, Sequences, SequencesExt

CONSTANTS Peers,       \* other people, by their node
          Listed,      \* those whose rows on the contact list are followed
          MaxEntries,  \* bound: contact entries
          MaxThreads   \* bound: requests to the daemon under way

ASSUME ListedAssumption == Listed \subseteq Peers
ASSUME EntriesAssumption == MaxEntries \in Nat \ {0}
ASSUME ThreadsAssumption == MaxThreads \in Nat \ {0}

VARIABLES running,     \* the application runs
          contacts,    \* contacts.json: how many entries each node has
          muted,       \* table muted_nodes
          pending,     \* table pending, oldest first
          asking,      \* whom the open request dialog is about, none or one
          draining,    \* events are drained under that dialog
          scheduled,   \* surface_pending_requests is an idle callback
          blocked,     \* the daemon's blocklist and its file
          threads,     \* block and unblock requests under way
          shown,       \* ContactsView._blocked
          refreshing,  \* threads fetch the blocklist for it
          unsettled,   \* history: peers whose last request failed or met
                       \* another one, or whose node was added by the command
                       \* line, became the node of a contact that had another
                       \* one, or was blocked while a contact's since
          outdated,    \* history: that list was not fetched, or fetched before
                       \* one that was shown earlier
          keptMuted,   \* history: peers who became contacts and stayed muted
          prompts      \* history: dialogs about a peer since it was blocked

uiVars == <<asking, draining, scheduled>>
listVars == <<shown, refreshing, outdated>>
vars == <<running, contacts, muted, pending, uiVars, blocked, threads, listVars,
          unsettled, keptMuted, prompts>>

Known == {p \in Peers : contacts[p] > 0}
Room == FoldFunction(+, 0, contacts) < MaxEntries

Init == /\ running = FALSE
        /\ contacts = [p \in Peers |-> 0]
        /\ muted = {} /\ pending = <<>>
        /\ asking = {} /\ draining = FALSE /\ scheduled = FALSE
        /\ blocked = {} /\ threads = {}
        /\ shown = {} /\ refreshing = FALSE /\ outdated = FALSE
        /\ unsettled = {}
        /\ keptMuted = {} /\ prompts = [p \in Peers |-> 0]

-----------------------------------------------------------------------------
\* The store and the daemon.

Mute(p) == /\ muted' = muted \cup {p}
           /\ keptMuted' = keptMuted \ {p}
           /\ prompts' = [prompts EXCEPT ![p] = 0]

Unmute(p) == /\ muted' = muted \ {p}
             /\ keptMuted' = keptMuted \ {p}
             /\ prompts' = [prompts EXCEPT ![p] = 0]

\* A new entry under a name of its own.
AddEntry(p) == /\ Room
               /\ contacts' = [contacts EXCEPT ![p] = @ + 1]

\* An entry of q is one of p from now on.
MoveEntry(q, p) ==
    LET without == [contacts EXCEPT ![q] = @ - 1]
    IN  contacts' = [without EXCEPT ![p] = @ + 1]

\* A new contact, whose entry may replace one of the same name; it stays muted.
\* Whether an invite is new is a matter of its client key, not of its node.
NewEntry(p) ==
    /\ \/ AddEntry(p)
       \/ \E q \in Known : MoveEntry(q, p)
    /\ keptMuted' = keptMuted \cup ({p} \cap muted)

\* An invite with the client key of a contact and another node: an entry of q
\* gets the node p, and that is all.  Nobody unblocks or unmutes p.
NewRoutingKey(q, p) ==
    /\ q \in Known /\ q # p
    /\ MoveEntry(q, p)
    /\ keptMuted' = keptMuted \cup ({p} \cap muted)
    /\ unsettled' = unsettled \cup {p}
    /\ UNCHANGED <<running, muted, pending, uiVars, blocked, threads, listVars, prompts>>

\* A thread starts that blocks (b) or unblocks p at the daemon; agrees says
\* whether the store was changed to match.
StartThread(p, b, agrees) ==
    /\ Cardinality(threads) < MaxThreads
    /\ threads' = threads \cup {<<p, b>>}
    /\ unsettled' = IF agrees /\ \A t \in threads : t[1] # p
                    THEN unsettled \ {p} ELSE unsettled \cup {p}

\* Deviation: the list is not fetched again after a block.
ThreadDoneNoRefresh(p, b) ==
    /\ <<p, b>> \in threads
    /\ threads' = threads \ {<<p, b>>}
    /\ blocked' = IF b THEN blocked \cup {p} ELSE blocked \ {p}
    /\ UNCHANGED <<running, contacts, muted, pending, uiVars, listVars,
                   unsettled, keptMuted, prompts>>

\* The daemon carries a request out.  Then the list is fetched again, except
\* after the unblocking of somebody who is being added.
ThreadDone(p, b) == /\ <<p, b>> \in threads
                    /\ threads' = threads \ {<<p, b>>}
                    /\ blocked' = IF b THEN blocked \cup {p} ELSE blocked \ {p}
                    /\ refreshing' \in {r /\ running : r \in {TRUE, refreshing \/ b}}
                    /\ UNCHANGED <<running, contacts, muted, pending, uiVars, shown,
                                   outdated, unsettled, keptMuted, prompts>>

\* It does not, or changes its map and cannot save it: an error either way,
\* which the user may read in the activity log.
ThreadFails(p, b) == /\ <<p, b>> \in threads
                     /\ threads' = threads \ {<<p, b>>}
                     /\ blocked' \in {blocked, IF b THEN blocked \cup {p} ELSE blocked \ {p}}
                     /\ unsettled' = unsettled \cup {p}
                     /\ refreshing' \in {r /\ running : r \in {refreshing, refreshing \/ ~b}}
                     /\ UNCHANGED <<running, contacts, muted, pending, uiVars, shown,
                                    outdated, keptMuted, prompts>>

-----------------------------------------------------------------------------
\* ContactsView.refresh.

Refresh == refreshing' = TRUE /\ UNCHANGED <<shown, outdated>>

\* A thread, perhaps not the last, has fetched the list and shows it ...
RefreshDone == /\ refreshing /\ refreshing' \in BOOLEAN
               /\ shown' = blocked \cap Listed /\ outdated' = FALSE
               /\ UNCHANGED <<running, contacts, muted, pending, uiVars, blocked, threads,
                              unsettled, keptMuted, prompts>>

\* ... or shows one that it fetched before others did, or an empty one
\* because the daemon answered with an error.
RefreshLate == /\ refreshing /\ refreshing' \in BOOLEAN
               /\ shown' \in SUBSET Listed /\ outdated' = TRUE
               /\ UNCHANGED <<running, contacts, muted, pending, uiVars, blocked, threads,
                              unsettled, keptMuted, prompts>>

\* The user turns to the contact list.
OnViewChanged == /\ running /\ asking = {}
                 /\ Refresh
                 /\ UNCHANGED <<running, contacts, muted, pending, uiVars, blocked,
                                threads, unsettled, keptMuted, prompts>>

-----------------------------------------------------------------------------
\* Requests.

\* surface_pending_requests up to the dialog, with the pending rows as given:
\* the oldest row is deleted and shown, unless a dialog is open.
Surface(rows, byEvent) ==
    IF asking # {} \/ rows = <<>>
    THEN pending' = rows /\ UNCHANGED <<asking, draining, prompts>>
    ELSE /\ pending' = Tail(rows)
         /\ asking' = {Head(rows)}
         /\ draining' = ~byEvent
         /\ prompts' = IF Head(rows) \in muted
                       THEN [prompts EXCEPT ![Head(rows)] = @ + 1] ELSE prompts

SurfaceIdle == /\ running /\ scheduled
               /\ scheduled' = FALSE
               /\ Surface(pending, FALSE)
               /\ UNCHANGED <<running, contacts, muted, blocked, threads, listVars,
                              unsettled, keptMuted>>

\* add_pending keeps the first message of each stranger.
AddPending(p) == IF Contains(pending, p) THEN pending ELSE Append(pending, p)

\* Deviation: a muted stranger's message asks again.
AsksUnchecked(p) == /\ running /\ (asking = {} \/ draining)
                    /\ p \notin blocked /\ p \notin Known

\* A message that is drained and makes its sender ask: neither a contact nor
\* muted.  (Messages of a conversation that is muted never do.)
Asks(p) == /\ running /\ (asking = {} \/ draining)
           /\ p \notin blocked /\ p \notin Known /\ p \notin muted

\* incoming, for a message that is withheld.
Incoming(p) ==
    /\ Asks(p)
    /\ Surface(AddPending(p), TRUE)
    /\ UNCHANGED <<running, contacts, muted, scheduled, blocked, threads, listVars,
                   unsettled, keptMuted>>

\* Deviation: nobody looks at the requests that came in under the dialog.
DialogClosesAlone == asking' = {} /\ draining' = FALSE /\ UNCHANGED scheduled

\* The rest of surface_pending_requests: whatever the answer, an idle callback
\* looks for the next request.
DialogCloses == asking' = {} /\ draining' = FALSE /\ scheduled' = TRUE

Accept(p) == /\ p \in asking
             /\ DialogCloses
             /\ AddEntry(p) /\ Unmute(p)
             /\ StartThread(p, FALSE, TRUE)
             /\ Refresh
             /\ UNCHANGED <<running, pending, blocked>>

Deny(p) == /\ p \in asking
           /\ DialogCloses
           /\ UNCHANGED <<running, contacts, muted, pending, blocked, threads, listVars,
                          unsettled, keptMuted, prompts>>

\* Block in the dialog leaves an entry that the peer has got in the meantime.
BlockStranger(p) == /\ p \in asking
                    /\ DialogCloses
                    /\ Mute(p)
                    /\ StartThread(p, TRUE, p \notin Known)
                    /\ UNCHANGED <<running, contacts, pending, blocked, listVars>>

-----------------------------------------------------------------------------
\* The conversation and the contact list; a request dialog is modal.

MainWindow == running /\ asking = {}

\* on_block: all entries of the node go.
Block(p) == /\ MainWindow /\ p \in Known
            /\ Mute(p)
            /\ contacts' = [contacts EXCEPT ![p] = 0]
            /\ StartThread(p, TRUE, TRUE)
            /\ UNCHANGED <<running, pending, uiVars, blocked, listVars>>

\* A row whose button unblocks p, and one whose button removes an entry of p.
BlockedRow(p) == p \in Listed => p \in shown
ContactRow(p) == p \in Known /\ p \notin shown

\* on_unblock.
Unblock(p) == /\ MainWindow /\ BlockedRow(p)
              /\ Unmute(p)
              /\ StartThread(p, FALSE, TRUE)
              /\ UNCHANGED <<running, contacts, pending, uiVars, blocked, listVars>>

\* Deviation: whoever is added stays blocked at the daemon.
OnAddKeepsBlock(p) ==
    /\ MainWindow
    /\ NewEntry(p)
    /\ Refresh
    /\ UNCHANGED <<running, muted, pending, uiVars, blocked, threads,
                   unsettled, prompts>>

\* on_add of a new contact: the peer is unblocked at the daemon.
OnAdd(p) ==
    /\ MainWindow
    /\ NewEntry(p)
    /\ StartThread(p, FALSE, TRUE)
    /\ Refresh
    /\ UNCHANGED <<running, muted, pending, uiVars, blocked, prompts>>

OnAddUpdates(q, p) == MainWindow /\ NewRoutingKey(q, p)

\* on_remove: one entry.
OnRemove(p) == /\ MainWindow /\ ContactRow(p)
               /\ contacts' = [contacts EXCEPT ![p] = @ - 1]
               /\ Refresh
               /\ UNCHANGED <<running, muted, pending, uiVars, blocked, threads,
                              unsettled, keptMuted, prompts>>

\* on_member_chip, for a member of a room who was not a contact when the chip
\* was drawn.
OnMemberChip(p) == /\ MainWindow
                   /\ AddEntry(p) /\ Unmute(p)
                   /\ StartThread(p, FALSE, TRUE)
                   /\ Refresh
                   /\ UNCHANGED <<running, pending, uiVars, blocked>>

-----------------------------------------------------------------------------
\* The command line, and the application's life.

\* cmd_add neither unmutes nor unblocks.
CmdAdd(p) == /\ NewEntry(p)
             /\ unsettled' = unsettled \cup {p}
             /\ UNCHANGED <<running, muted, pending, uiVars, blocked, threads, listVars,
                            prompts>>

CmdAddUpdates(q, p) == NewRoutingKey(q, p)

CmdRemove(p) == /\ p \in Known
                /\ contacts' = [contacts EXCEPT ![p] = @ - 1]
                /\ UNCHANGED <<running, muted, pending, uiVars, blocked, threads,
                               listVars, unsettled, keptMuted, prompts>>

CmdUnblock(p) == /\ Unmute(p)
                 /\ StartThread(p, FALSE, TRUE)
                 /\ UNCHANGED <<running, contacts, pending, uiVars, blocked, listVars>>

\* Session, AimlessWindow: contacts are unmuted; the rows are looked at once.
Start == /\ ~running
         /\ running' = TRUE /\ scheduled' = TRUE
         /\ muted' = muted \ Known /\ keptMuted' = keptMuted \ Known
         /\ prompts' = [p \in Peers |-> IF p \in Known THEN 0 ELSE prompts[p]]
         /\ Refresh
         /\ UNCHANGED <<contacts, pending, asking, draining, blocked, threads,
                        unsettled>>

\* The process ends.  A request on the screen is gone; the daemon may or may
\* not carry out what the threads have asked for.
ProcessEnds ==
    /\ running
    /\ running' = FALSE /\ scheduled' = FALSE
    /\ asking' = {} /\ draining' = FALSE
    /\ blocked' \in {new \in SUBSET Peers :
                       \A p \in Peers : (p \in new) # (p \in blocked)
                                           => <<p, p \in new>> \in threads}
    /\ unsettled' = unsettled \cup {t[1] : t \in threads}
    /\ threads' = {}
    /\ shown' = {} /\ refreshing' = FALSE /\ outdated' = FALSE
    /\ UNCHANGED <<contacts, muted, keptMuted, prompts>>

Stop == ProcessEnds /\ UNCHANGED pending

\* It may end between add_pending and pending_pop, which commit separately.
StopInIncoming(p) == /\ Asks(p)
                     /\ ProcessEnds
                     /\ pending' = AddPending(p)

-----------------------------------------------------------------------------
Next == \/ SurfaceIdle \/ Start \/ Stop \/ OnViewChanged
        \/ RefreshDone \/ RefreshLate
        \/ \E p \in Peers, b \in BOOLEAN : ThreadDone(p, b) \/ ThreadFails(p, b)
        \/ \E p \in Peers :
              \/ Incoming(p) \/ StopInIncoming(p) \/ Accept(p) \/ Deny(p) \/ BlockStranger(p)
              \/ Block(p) \/ Unblock(p) \/ OnAdd(p) \/ OnRemove(p) \/ OnMemberChip(p)
              \/ CmdAdd(p) \/ CmdRemove(p) \/ CmdUnblock(p)
        \/ \E q, p \in Peers : OnAddUpdates(q, p) \/ CmdAddUpdates(q, p)

\* The main loop runs its idle callbacks.
Spec == Init /\ [][Next]_vars /\ WF_vars(SurfaceIdle)

-----------------------------------------------------------------------------
(***************************************************************************)
(* Blocking holds: after the user has blocked somebody, that peer brings   *)
(* up at most one more dialog, the one for a message that came in under    *)
(* the dialog the user answered (gtkui.py:2226-2236, 2966-3007), however   *)
(* long the daemon takes to block it and whether or not it ever does.      *)
(***************************************************************************)
BlockHolds == \A p \in Peers : prompts[p] <= 1

(***************************************************************************)
(* Client and daemon agree: with no request to the daemon under way, a     *)
(* contact is not blocked there and a muted stranger is                    *)
(* (daemon_block_set, gtkui.py:2946-2964; on_add, 2601-2640), except for   *)
(* peers whose last request failed or overlapped another, who were added   *)
(* from the command line, or were blocked in a dialog while a contact, and *)
(* for a node that an invite gave to a contact who had another one: it     *)
(* stays blocked (gtkui.py:2614-2621, cli.py:130-134).  Somebody added and *)
(* removed again may also have stayed muted without being blocked: on_add  *)
(* does not unmute.                                                        *)
(***************************************************************************)
DaemonAgrees ==
    threads = {} => \A p \in Peers \ unsettled :
                       /\ p \in Known => p \notin blocked
                       /\ p \in muted => p \in Known \cup blocked \cup keptMuted

(***************************************************************************)
(* A block can be undone: when nothing is under way, every muted stranger  *)
(* is on the list with a button that unblocks it, as the user was told     *)
(* (gtkui.py:1973; refresh, 2553-2578), unless the list is outdated or the *)
(* daemon does not agree.                                                  *)
(***************************************************************************)
BlockCanBeUndone ==
    (running /\ threads = {} /\ ~refreshing /\ ~outdated)
       => Listed \cap muted \subseteq Known \cup shown \cup unsettled \cup keptMuted

(***************************************************************************)
(* No request is forgotten: while the application runs, pending requests   *)
(* do not wait without a dialog on the screen, also those that came in     *)
(* under another dialog or in an earlier session                           *)
(* (surface_pending_requests, gtkui.py:2966-3007, 2915).                   *)
(***************************************************************************)
RequestsComeUp ==
    (running /\ pending # <<>>) ~> (~running \/ asking # {})
=============================================================================
