# Aimless: specifications and proofs

TLA+ specifications of aimless, a peer-to-peer messenger: a Go daemon
(`src/daemon`) that journals, sends and receives over an overlay network, and a
Python client (`src/client/aimless`) that talks to its daemon over a local
socket. The specifications are written from the code. All properties but one hold
of the code as it is; where a comment, a test or a message to the user promises
more than that, the property states the exception, and *Known deviations* below
lists it with the lines concerned. The one that does not hold,
`RetriedUntilDelivered`, is a sentence of the repository's README, refuted by a run
of its own.

## The system

| Component | State | Operations | What is hard |
|---|---|---|---|
| Outbox journal (`store.go`) | `outbox_seq`, `outbox` | `NextSeq`, `Queue`, `Pending`, `MarkSent`, `Ack` | a crash between two transactions; a row sent several times |
| Receive log (`store.go`) | `inbox`, `inbox_seen` | `Add`, `trimTx`, `After`, `Oldest`, `Latest` | arrival in any order at the capacity; replays of trimmed messages |
| Mailbox (`mail.go`) | boxes, blocklist, contacts | `SendMsg`, `SendFile`, `HandlePacket`, `flushPeer`, `retryLoop`, `Block`, `Watch` | API handlers, flushes, the retry tick and the reader interleave; ACKs are lost or late |
| Overlay link (`node.go`) | control and bulk queue | `Send`, `SendBulk`, reader, writer | full queues; loss, duplication, reordering |
| Attachment buffer (`attachments.go`) | table `attach` | `Add` with a byte budget, `Pending`, `FetchTid`, `AckTid` | eviction; a chunk repeated after its file was consumed |
| API server (`api.go`) | connections | requests; broadcasts of `recv` and `acked` | several clients; broadcasts to nobody |
| Presence (`presence.go`) | last seen, status | probe, status, heartbeat | unordered statuses, aging, restarts of either end |
| Daemon start-up (`main.go`, `node.go`) | lock, socket, `node.key` | `acquireLock`, `NewAPIServer`, `LoadOrCreateKey`, shutdown | two daemons at once; a kill between files |
| Client store (`store.py`) | `messages`, `watermark`, `deliveries`, `pending`, `muted_nodes` | `ingest`, `set_cursor`, `add_sent`, `mark_delivered`, `pending_add`, `delete_room` | used by callbacks in any order |
| Client sync (`service.py`) | one cursor per peer | `fetch`, `apply`, `on_event` | worker fetches, main thread applies later |
| Daemon connection (`daemon.py`) | socket, generation, pending requests, events | `request`, reader, reconnect | attributes shared without a lock; requests repeated after a reconnect |
| Graphical client (`gtkui.py`) | threads, file buffers, delivery rows, busy flags, dialogs, timers | sweeps, send, receive, ticks, contacts, blocking, status, keys, supervision, quit | workers, timers, nested main loops and events interleave; restarts |
| Tunnel (`tunnel.py`) | child handle, `tunnel.pid`, socket | `ensure`, `restart`, `stop`, probe, back-off | a process that outlives its parent; two supervisors |
| Command line (`cli.py`) | none of its own | `init`, `add`, `remove`, `unblock`, `away`, `send`, `chat` | shares files, daemon and tunnel with a running window |
| Keys and backups (`keys.py`, `crypto.py`, `gtkui.py`) | `identity.json`, `contacts.json`, `node.key`, backup bundle | create, import, export, restore, reset | several files replaced one after the other |
| Encodings, paths | none | pure functions | nothing a model checker reaches |

How they interact: a client request reaches the daemon's mailbox, which commits
to SQLite and starts a flush; the flush puts packets into the node's queue, the
writer sends them; the peer's reader calls `HandlePacket`, which commits,
queues an ACK, and broadcasts an event to whatever client is connected. A client
that was not connected asks for the history after its cursor, once after its
start and whenever a conversation is opened, and once for complete files. The
ACK deletes the sender's row and is broadcast to the sender's client, which
ticks the message off. Around this the application starts and supervises a
local daemon, or an SSH tunnel to a remote one; its threads push the user's
status and the blocks the user orders to that daemon, and nobody orders them.

What makes it correct, by component:

* receive log: it holds the newest messages, forgets no seq before the guard's
  four windows are over, and never shows a message twice within them;
* daemons together: no message is lost or has its seq given out twice, and all
  that fit a packet are delivered once both ends stay up;
* attachment buffer: the budget holds, the right transfer is evicted, and
  nothing but eviction loses a file;
* client sync: the cursor never moves back, and leaves nothing behind but what
  arrived out of order, cannot be opened or belongs to another conversation;
* delivery ticks: a tick is true, and comes;
* daemon connection: a request is not repeated on one connection, an answer
  reaches its request, and every call ends;
* application, daemon and tunnel: what was started is found again and ended by a
  quit, and comes back when it dies;
* people: a block holds and can be undone, client and daemon agree, no request
  of a stranger is forgotten;
* presence: what a buddy sees becomes right and stays right, and a blocked buddy
  is not told;
* keys: what is stored stays readable, and files, daemon and session agree on
  who the user is.

## Modules

| Module | Models | Notes |
|---|---|---|
| `InboxStore` | the receive log | `Add` is one transaction, as in the code. `accepted` and `redelivered` are history variables |
| `MailPromise` | abstract: a message is submitted, then accepted, then confirmed | the promise of two daemons to their clients |
| `Delivery` | one stream between two daemons; extends `InboxStore` | one step per transaction and per channel operation; crashes, blocking, full queues |
| `ClientSync` | a client's copy of a peer's stream; extends `InboxStore` | sweeps, opening, live events, reconnects, restarts, clearing and deleting |
| `AttachmentStore` | the landing buffer of one peer | eviction as the shortest prefix of `pickEviction`'s order that frees enough |
| `Attachments` | files end to end; extends `AttachmentStore` | sender's journal, `HandlePacket`, live assembly, start-up sweep, `ackfile` |
| `DeliveryTicks` | how the sending client learns of delivery | worker, callback, `acked` events, `deliveries` rows and their summary, status rows |
| `Requests` | `DaemonClient`: requests against the reader and its reconnects | one step per access to an attribute the threads share |
| `Tunnel` | `TunnelSupervisor`, used by the window's two threads and by the command line | `restart` and `stop` in the steps between which processes may die |
| `Daemons` | local daemon processes and what the application knows of them | lock, socket path, pid file, child handle, signals |
| `App` | the application's life; extends `Tunnel` and `Daemons` | launch, second launch, supervision, timers, quit, kill, `stop_all` |
| `People` | contacts, requests of strangers, blocking | the request dialog's nested main loop, and the threads that tell the daemon |
| `Presence` | a user's status as a buddy sees it | both daemons, the network, the window's pushes and the buddy's polls |
| `Identity` | keys, passphrases and backups | one step per file that is replaced |
| `...Proofs` | theorems | see *Proofs* |
| `MC...` | small instances | constants only |

`Delivery`, `ClientSync`, `Attachments` and `App` compose components by extending
the modules of the parts they share state with and conjoining their actions
(`Add`, `AddChunk`, `AckTid`, `StopKill`, `TakeLock`). `Delivery` is shown to
implement `MailPromise`.

Definitions named as a *deviation* describe a plausible mistake in the code next
to which they stand. No specification uses them; replacing the definition they
accompany by one of them breaks the property that `PROJECT.json` names.

### How state and actions correspond

`Delivery`. `next` and `outbox` are the tables `outbox_seq` and `outbox`. `alloc`
holds the calls of `SendMsg` between `NextSeq` and `Queue`, two transactions.
`sent` holds the rows whose stamp is younger than the retry interval; `GoStale`
is time passing. `batch` is what the running `flushPeer` has left to do: the
flushing flag admits one, and it works on the list it read at the start. `control`
is the channel of `node.go`. `handling` is the message the reader has committed
and not yet acknowledged. `Discard` covers everything by which a packet comes to
nothing: the network, a peer that is down, and every early return of
`HandlePacket`. A crash empties all that is not in a table. `oversize` are the rows
whose payload exceeds an envelope (`envelope.go:37`) or the link's MTU
(`node.go:200`): `SendMsg` journals them like any other, and every flush skips them
(`FlushBounce`), for good.

`ClientSync`. `cursor` and `stored` are the tables `watermark` and `messages`
for one peer that is an accepted contact. `Fetch` reads the cursor and the
daemon's answer on a worker thread; `Apply` is the callback on the main thread,
later. `swept` says that the one-shot sweep after 1.2 seconds is over, with or
without an answer. The live path (`DrainEvent`) stores and leaves the cursor
alone. `DismissRequest` and `DismissDone` are the two halves of clearing or
deleting a conversation; it takes the messages of one conversation (`RoomSeqs`) and
moves the cursor, which all conversations of the peer share. Messages arrive in any
order. `Undecryptable` are the messages that `open_message` refuses: they are not
stored and the cursor passes them all the same. `overtaken` and `passedOver` are
history variables for the exceptions `NothingLeftBehind` states.

`Attachments`. `bufs` is `_file_bufs`, `jobs` what the sweep fetched, `acking`
the `ackfile` requests on their way, each sent once. A chunk may or may not be
announced, since the client may be disconnected at that moment.

`DeliveryTicks`. A key stands for a pair (recipient, seq). `seen`, `tracked` and
`shown` are `_acked_seen`, `_pending_files` and the files with a status row;
`Tracked` and `Delivered` are what `_delivery_summary` counts. `unheard` is a
history variable: ACKs announced before the row existed or to nobody.

`Requests`. `sock`, `gen`, `want` and `multiplex` are the attributes `_sock`,
`_generation`, `_want_reconnect` and `_multiplex`. Each read or write of them is
a step of its own (`Check`, `Load`, `Send`, `Stamp`, `Lost`; `Shut`, `Connect`,
`Bump`, `Clear`), because nothing but the round-trip lock of the legacy path and
the send lock orders them. `raw` and `box` are the queue and the mailboxes
that `_read_loop` fills. Answers may be errors; a broken connection loses what is
on it, at either end. `GivenUp` are calls of the legacy path that have timed out when a
behaviour begins, with answers that came too late and lie in `raw`.

`Tunnel`, `Daemons`, `App`. `step` is where a thread is in `restart` or `stop`;
the child handle, `tunnel.pid` and the socket change in separate steps, as in
the code. A daemon goes through `boot`, `locked`, `up` and `closing`. `phase` is
what the application's main thread does; while it waits in `ensure` or `stop`
the processes go on. `timers` are the GLib timeouts of the remote mode, `fail`
the counter of failed probes. `LockCollected` is the Go runtime's finalizer, which
closes the lock file that `acquireLock` leaves unreferenced. `alien` are processes
that got the pid `tunnel.pid` still holds (`PidRecycled`); `is_running` takes one
for the tunnel. Either pid file may fail to be written, which the code ignores
(`WritePidFails`, and the second outcome of `SpawnDaemon`). `EnsureRaises` is a
daemon that cannot be spawned: the poll expects a `RuntimeError`, and an `OSError`
takes the poll out of `timers`. `shared`, `strayed` and `raised` are history
variables for the exceptions the properties state.

`People`. `contacts` counts the entries of `contacts.json` for a node. `asking` is
the open request dialog, `draining` whether events are drained under it (GLib
does not dispatch a source from within itself). An invite is known by its client key:
a new one makes an entry, or replaces one of the same name (`NewEntry`), and a known
one with another node re-points the entry, without unblocking anybody
(`NewRoutingKey`, from the window and the command line). `threads` are the block and
unblock requests on their way; they may fail. `shown` is the blocklist the
contact list has fetched, `refreshing` the thread that fetches it.

`Presence`. `running` stands for the application with its timers and its connection
to the daemon, whether its window is open or in the tray: both go on pushing and
heartbeating. `away` is the preference, `pushes` what the threads of `_push_status`
carry. `out` and `in` are the memory of the two daemons, `present` what
`clientPresent` says; neither survives a restart. `missed` counts probe intervals
of silence up to the online window of three. `shown` and `row` are the two places
where the buddy's window shows the user.

`Identity`. Seeds, node keys and passphrases are compared only. Every write of
`identity.json`, `contacts.json` and `node.key` is a step, so that a kill may come
between any two (`Killed`, `CmdInitCut`), and each may fail (`CreateFails`,
`RestoreFails`). The own entry is an entry of `contacts.json` like any other, so that
whoever adds or removes a contact of its name writes it (`OnAddSelf`, `AcceptSelf`,
`CmdAddSelf`, `CmdRemoveSelf`); reading, changing and replacing the file is one step.
`raced`, `selfStale`, `nodeStale`, `told` and `unseen` are history variables for the
exceptions the properties state: `told` that the user was told to reopen the window,
`unseen` that nobody was and the daemon has another key than the window knows.

## Runs

All runs pass but `delivery_oversize`, in which TLC finds the counterexample that
`PROJECT.json` lists as a finding.

| Run | Shows |
|---|---|
| `inbox_store` | window and guard of the receive log and what they let through, for every order of arrival and replay |
| `delivery` | no loss, no seq given out twice, packets backed by tables, the promise, and that every row which fits a packet is acknowledged if both ends finally stay up, under crashes of both ends, blocking, loss, duplication, reordering, full queues and rows too large to send |
| `delivery_oversize` | (violation) "retried until delivered" is not true of a text too large for an envelope: it is journaled, its seq is returned, and it stays in the outbox for ever, although neither daemon crashes or blocks |
| `client_sync` | what the cursor leaves behind is out of order, cannot be opened, or belonged to another conversation than the one dismissed; the cursor never moves back |
| `attachment_store` | budget, order and economy of eviction |
| `attachments` | only eviction loses a file |
| `delivery_ticks` | no message or file is shown as delivered before it is, and a row stays open only while something will settle it, or in one of two known cases |
| `requests` | a request goes out once per connection; a foreign answer goes back to one that came late on the legacy path; calls end; a spurious wish to reconnect is noticed |
| `app` | a quit leaves no daemon, no ssh is forgotten, a daemon or tunnel that died comes back, with the exceptions stated for spawns that raise, pid files that are not written and pids that are used again |
| `people` | a block holds and can be undone, client and daemon agree but for the peers named, requests come up |
| `presence` | a buddy's view converges after any loss, overtaking or restart; a blocked buddy learns nothing new |
| `identity` | rows stay readable; own entry, node key and session agree with the files and the daemon |

### Bounds

* `inbox_store`: capacity 2 and 12 seqs, so that the log (2) and the guard (8)
  are both full with 2 seqs to spare: the smallest instance in which a message
  can fall out of the guard and be accepted again.
* `delivery`: two messages, each of which may be too large, capacity 1 (each new
  message trims the other into the guard), queues of one packet. Two are enough for
  overtaking, for one message to be acknowledged while the other is flushed, for a
  queue that is full with the other message's packet, and for a row that fits behind
  one that does not. Crashes are unbounded. The sender may block the receiver; a
  receiver that blocks drops packets, as `Discard` does.
* `delivery_oversize`: the same without crashes and blocking.
* `client_sync`: four messages, capacity 2, so that the log trims; two of them belong to
  the conversation the user may dismiss, one of the others cannot be opened; one
  undrained event.
* `attachment_store`: four transfers with one to three chunks of sizes 1, 1, 2
  and 4 and a budget of 5: one chunk displaces up to three transfers, two
  transfers are sent interleaved so that their order of age depends on which
  chunks are held, two have one age.
* `attachments`: a file of two chunks of size 1 and one of a single chunk of
  size 2, budget 3; two undrained events.
* `delivery_ticks`: a text with two recipients and a file of two chunks for each
  of them; the set of ACKs seen is emptied at 2 (4096 in the code).
* `requests`: three calls of one operation, one of which has timed out before, and two
  connections: one reconnect under a running call, and a daemon that goes away for good
  after it. Three calls are the fewest in which one that was misled by a late answer
  leaves its own answer behind and so misleads the next.
* `app`: five ssh processes, three daemons, two faults (of ssh, a daemon or the
  application) in a behaviour. Two faults suffice for a crash during the recovery
  from another. An ssh identifier is free again once its process is gone and neither
  `tunnel.pid` nor a handle names it, a daemon's once its process is gone.
* `people`: two peers, so that one comes in under the other's dialog, one of whom
  is followed on the contact list; two contact entries in all and two requests to the
  daemon under way, the fewest of which one can overtake another.
* `presence`: two statuses and three events (of the user, the network or a crash) on
  top of timers, threads and packets that arrive, which are not bounded.
* `identity`: two seeds, two node keys, two passphrases. A fresh key is the least
  one that is nowhere; when none is left, creating one is not possible, so deadlock
  is not checked there.

Each bound is a constant or a guard named in the module (`MaxEvents`,
`QueueCap`, `SeenCap`, `MaxConns`, `MaxFaults`, `MaxEntries`, `MaxThreads`).

### Fairness

* `Delivery!Fairness`. Weak: the retry ticker starts flushes, flushes, writers and
  handlers run to completion, time passes. The code's goroutines do no more than
  that. Strong: of the attempts to queue a packet, and of the copies of a packet
  sent again and again, not all fail for ever. This is the assumption a retry loop is
  built on; without it a link that loses everything would refute any delivery. It is
  stated of rows that can be queued at all: one that is too large never can, so no
  fairness makes it go out, and `EventuallyAcknowledged` leaves it aside.
  Nothing is assumed of users, crashes and restarts: the property itself asks that
  both daemons finally stay up and unblocked. Deadlock is not checked there, since
  all messages may be delivered.
* `Fairness` of `Requests`. The reader and each calling thread run, and a connected
  daemon answers. Nothing makes a connection break or a thread ask, and a reader
  that finds no daemon any more stays in its loop. All calls may be over, so
  deadlock is not checked.
* `AppFairness`. Threads, timers and processes go on; ssh connects unless it
  fails; the Go runtime collects garbage (every two minutes at the latest), which is
  what lets the next daemon have the lock.
* `People`: the main loop runs its idle callbacks. Nothing is assumed of the user or
  of the threads.
* `Presence!Fairness`. Timers go off, threads end, a packet that is not lost
  arrives, and the supervisor restarts a daemon that its application needs. Losses
  count as events.

## Proofs

Checked by TLAPS for every value of the constants, under the named assumptions of
the modules that declare them (`SeqsAssumption`, `CapacityAssumption`,
`QueueCapAssumption`, `ConnsAssumption`, `ListedAssumption`, `StatusAssumption`, the two
`KeysAssumption`s, `PidsAssumption`, `FaultsAssumption`, `TransfersAssumption` and so on); TLC evaluates each of them in every run. Bounds that
are constants (events, entries, connections, seqs) are arbitrary in the proofs. Type
correctness of `Delivery`, `ClientSync`, `Presence` and `Identity` is left to the proofs;
no run repeats it. Every invariant and every action property that a run checks has a
theorem; each inductive invariant was checked by TLC on the run's instance first.

* `InboxStoreProofs`: `StoreCorrect`, `GuardCorrect`, `ReplayRecognised`, the three
  invariants of the receive log. The argument is by the
  cardinality of "those greater than s": adding one message to a full log drops
  exactly its smallest entry (`NewestDropsSmallest`, `AddToFull`), and what the guard
  takes in is no greater than the log (`GuardTakes`). The invariant `StoreInv` ties log
  and guard to the history `accepted`: together they are its newest entries.
* `DeliveryProofs`: `TypeCorrect`, `NothingLost`, `PacketsBacked`, `SeqNeverReused`, from
  `IndInv`, which joins `TypeOK`, `StoreInv`, `NoLoss`, `PacketsAreBacked` and
  `Journaled`. `NoLoss` alone is not inductive: an ACK may delete a row only because
  every ACK, wherever it is, stands for a committed message, and that in turn needs
  that only journaled messages are in flight. `Journaled` bounds all seqs by the
  counter. `PromiseKept`: each step is a step of `MailPromise` or leaves its variables
  alone. A queued row is a submission because
  its seq is new; a deleted row is a confirmation because the ACK was backed.
* `DeliveryProofs`, files: `BudgetKept`, `CompleteGoesLast`, `NoVainEviction`, of the
  landing buffer. `Bytes` counts the bytes of the chunks held, so a chunk adds its size
  (`BytesAdded`) and eviction takes away (`BytesRemoved`) without an induction over sums;
  `HeldInv` keeps what is counted finite. `NoVainEviction` needs that `pickEviction`'s
  order is total on what is held (`EvictionOrder`), so that the victims have a last one
  (`LastVictim`, by well-foundedness). `FilesLostToEviction`, from `FilesInv`: the daemon
  acknowledges only what it holds, and is asked to free only transfers that were stored.
  `FilesKeepBudget` carries the three theorems over to files end to end.
* `ClientSyncProofs`: `SyncTypeCorrect`, `CursorMonotone` and `CursorLeavesNothing`, for
  any order of arrival and any conversations. The last is not inductive: `BehindInv`
  adds that a response waiting to be applied misses nothing retained between the cursor
  and its newest message but what is exempt (`ResponsesReach`), which holds because a
  message that comes in below a response's newest one is `overtaken`.
* `DeliveryTicksProofs`: `TicksAreTrue`, `StatusRowsAreTrue`, `OpenRowsAreInFlight`, from
  `TickInv`: what an event or a set in memory calls acknowledged is (`Backed`), rows of a
  message are created together (`AllRows`), a file that has a status row waits for
  all its chunks (`RowsWait`), and a row without an ACK will hear of one or is a known
  exception (`Heard`).
* `AppProofs`, the connection: `RequestedOncePerConnection`. `Budget` bounds the number of
  transmissions, at every point of the calling thread, by the generations that have
  passed since the call began: a further one needs a generation newer than the stamp
  taken after the last one. `ForeignAnswersAreLate`, from `FlightInv`: a request that was
  transmitted once is in one place, on the wire or as an answer; a call that returned its
  own answer to it has left nothing behind; an answer of a call with a mailbox goes to
  `_raw` only when that call is over (`CallFlight`); and the round-trip lock admits one
  active legacy call (`OneLegacy`). So what a legacy call finds in `_raw` is its own or stems
  from a call that is over. The proof attempt showed that a call may also be misled by one that was misled
  itself; the property says so since, and its run has three calls.
* `AppProofs`, the application: `AppTypes`, from `AppInv`, which adds the thread discipline:
  which thread may be where in which phase, and that the first connection's worker and the
  timers of the tunnel exclude each other. `TunnelRemembered`, from `TunnelInv`: unless
  `strayed`, one thread at a time works on the tunnel (`OneAtATime`) and at each of its
  steps the only ssh is where the step has left it (`Tidy`): killed before the pid file
  goes, known by the child handle until `tunnel.pid` is written. A `tunnel.pid` that was
  not written counts as `strayed`. `QuitIsClean`, from
  `SharedInv`: unless `shared`, a daemon not told to end is the one at the socket, which is
  where `stop` looks first, or the child that the application waits for, and it never quits
  while it waits (`OneDaemon`).
* `PeopleProofs`: `BlocksHold`, from `PromptInv`: a muted peer has at most one pending
  row, and the dialog for it is the last. `ClientAndDaemonAgree`, from `AgreeInv`: what
  the only thread about a settled peer will make of the daemon's list agrees with the
  client already; a node that was given to a known contact is settled again by the next
  order about it. `BlocksCanBeUndone` needs in addition `ListInv`: whoever is blocked
  with nothing under way is on the list that was fetched.
* `PresenceProofs`: `PresenceTypeCorrect`; `BlockedBuddyNotTold`, from `ToldInv`, which
  adds that pushes under way carry only statuses the buddy may know while not blocked
  (`PushesMayBeTold`).
* `IdentityProofs`: `IdentityTypeCorrect`; `StoredRowsReadable`, from `OnePassphrase`: the
  rows, the session and the file agree on the passphrase, and without a file there are no
  rows; `DaemonUsesNodeKey`, from `KeyInUse`, which extends it to the operations that
  have not reached `node.key` yet; `WindowKnowsItsAddress`, from `SessionFresh`: a
  window that is neither `told` nor `unseen` shows the running daemon's address, or, while
  none runs, the one of `node.key`, also during the import that replaces it;
  `OwnEntryNamesIdentity`, from `SelfInv`: unless a creation has replaced an identity it had
  not seen (`raced`), a backup that is not `mixed` names the identity it holds
  (`BackupIsWhole`), and what `identity.json` holds during a creation or an import is what
  the own entry of `contacts.json` will be given (`SeedKnown`).

Only model-checked: liveness under fairness (`EventuallyAcknowledged`,
`CallEndsUnlessGone`, `ReconnectIsSeen`, `DaemonComesBack`, `TunnelComesBack`,
`RequestsComeUp`, `StatusConverges`, `ClientOfflineConverges`, `GoneIsSeen`), which the
prover does not do.

## Known deviations

Behaviour of the code that the properties had to be stated around, or that was met
while the models were written. The first is a run, the others are exceptions that the
properties name or lie outside them; each is at the lines named (`gtkui` is `src/client/aimless/gtkui.py`).

Messages and files:

* A text larger than an envelope (`envelope.go:37`) or the MTU is journaled and
  answered with its seq, and fails at every flush (`mail.go:487`), against "journaled and
  retried until delivered" (`README.md:7`). Nobody is told.
* The cursor is the highest seq of a response (`service.py:45`); a message that arrives
  later with a smaller seq is never fetched, although the sweep is commented as picking
  up what was missed (`gtkui:1395`). It passes a message that cannot be opened as well
  (`service.py:36-39`).
* Deleting one conversation of a peer who has several moves the peer's one cursor and
  with it skips the others' messages (`gtkui:1842` against `1494`).
* A chunk repeated after its file was consumed and freed is stored again
  (`attachments.go:71`, against `store.go:21`); it occupies the buffer until evicted.
* A delivery row whose ACK was announced before the row existed, or while no client was
  connected, stays open (`store.py:266` against `store.py:75`).
* `Block` and `Unblock` save the list after releasing the mutex: the older of two saves
  may come last (`mail.go:193`, against `api_test.go:363`).

Connection:

* A request repeated after a reconnect may be carried out twice; on the legacy path a
  late answer goes to the next caller, whose own answer then goes to the one after.
* With the daemon gone for good, a caller whose request went out on an older connection
  loops for ever, which `client/tests/test_reconnect.py:41` promises not to happen;
  `CallEndsUnlessGone` states the exception.

Application, daemon, tunnel:

* A second launch during set-up sends SIGUSR1 before its handler exists and kills the
  application (`gtkui:4119`); `app.pid` is closed before it is removed, so a launch in
  between loses its file (`4543-4551`).
* A stale child handle makes `stop` pass over the ssh that the command line started
  (`tunnel.py:236`); an exception in `_do_tunnel_restart`, which runs on the main loop, leaves
  `_tunnel_restarting` set
  (`gtkui:4298`); the probe timer is gone for good if it fires while a restart is awaited
  (`4241`). Either pid file is given up silently if it cannot be written
  (`tunnel.py:149`, `gtkui:788`). A pid that was used again passes for the tunnel
  (`tunnel.py:162`).
* A daemon that cannot be executed raises `OSError` from `spawn` (`gtkui:776`), where the
  poll expects `RuntimeError` (`4484`): the poll's timer ends and the daemon does not come
  back.
* A daemon that closes removes the socket path even when a newer daemon has bound it; the
  lock is held by a file object nobody refers to, and garbage collection releases it
  (`main.go:22`).

People and presence:

* A request dialog opened by a drained event stops the draining until it is answered
  (`gtkui:2238`, `3061`). A request is removed from the table before the user has
  answered, so it is lost with the process.
* `on_add` does not unmute: a contact who was muted is silently ignored until the next
  start (against `2648-2649`). A failed request to the daemon leaves a muted stranger
  without the promised Unblock (against `1973`). An entry is overwritten by another of the
  same name, and one node may have several entries. An invite that gives a contact
  another node neither unblocks nor unmutes it (`2614-2621`, `cli.py:130-134`).
* `aimless list` prints a buddy whose daemon runs without a client as online
  (`cli.py:193`, against `README.md:157`). Probes go on without a client, so such a
  buddy does not age out (against `README.md:158`). `aimless away` is overridden by a
  running window within a minute. A failed poll leaves the contact list as it was
  (`gtkui:3103`).

Keys:

* The store never checks its passphrase. `aimless init` and the create dialog look for an
  identity, prompt, and then write one over whatever came in between; the create dialog
  comes up again after a failed import (`gtkui:4343-4352`).
* A restore writes three files one after the other. Importing an identity leaves the
  user's own entry as it was; an export after it mixes two identities. A contact named
  `_self` takes the place of that entry (`gtkui:2625`, `cli.py:138`), and `aimless remove
  _self` deletes it (`cli.py:148`).
* When poll starts the daemon again (`gtkui:4480-4487`) after a restore that failed, or a
  stop slower than five seconds, the window goes on with the address it knew.
* `node.key` is written in place by the daemon (`node.go:70`); a process killed between
  the file and the daemon's restart leaves them different. With an external daemon the
  local `node.key` is ignored.

## What is not modelled

* Contents, encryption, the envelope's binary layout, encodings, paths, TLS: pure
  functions of their input, without protocol state. A payload too large to encode is
  `oversize`, a packet that does not decode is `Discard`.
* `retained_min` of `peer_state`, which is written and never read.
* The bulk queue of `node.go`: for one stream a second channel of the same kind.
* Power failures that take back SQLite's last commits (`synchronous=NORMAL`).
* The file behind the blocklist and its order of saves; `contacts.json` of the daemon
  and the race of two `Watch` calls.
* A broadcast that blocks on a client that does not read (`api.go:425`).
* Unread counts and read marks, rooms and their members, `chat`'s live path
  (`on_event`), what the command line prints, rendering, notifications and the tray.
* The mock service, packaging and deployment.

## Plan

Done: receive log, two daemons and their promise; client sync; attachments; delivery
ticks; the client's connection; tunnel, daemon processes and the application's life;
people; presence; keys and backups. Each of these has its proofs, in eight modules.

Next, in this order:

1. Proofs: that a file the client stores was acknowledged chunk by chunk
   (`Attachments`); type correctness of `Requests` and `People`.
2. `Delivery` with a crash that loses a suffix of the commits, for the seq that is
   given out again.
3. Unread counts and the command line's live path in `ClientSync`.
4. `Watch` and the blocklist's file, with two connections.
