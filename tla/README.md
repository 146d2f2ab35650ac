# Y7KE in TLA+

Y7KE is a peer-to-peer messenger: every user runs one node (a desktop shell, an
application layer, a libp2p swarm and an encrypted SQLite database), and no server
stores or forwards messages. What it promises - a message that is marked as
delivered was delivered, an undelivered one is tried again, two people talk only
when both want to, a deleted chat is deleted on both sides, the dot next to a
contact tells the truth, a node that chose LAN only is not reachable over a relay -
is kept by a handful of tasks that interleave between
database statements and locks, and by small request/response protocols whose calls
time out, arrive late or are lost. This directory specifies those parts in TLA+,
model-checks them with TLC on small instances, and proves the main results about
message delivery, mutual consent, presence, circuit listeners, calls between nodes and the
ticker's schedules for every size with TLAPS.

Paths are relative to `src/`; `app/` stands for `crates/y7ke-app/src/`, `net/` for
`crates/y7ke-net/src/`, `storage/` for `crates/y7ke-storage/src/`, `core/` for
`crates/y7ke-core/src/`. The line ranges every definition models are in the
`map` of `PROJECT.json`.

## 1. Inventory

| component | state | operations | interacts with |
|---|---|---|---|
| message delivery: `app/app/messages.rs`, `app/event_loop.rs`, `storage/dao/messages.rs`, `storage/dao/sync_queue.rs` | rows of `messages` (with a status) and `sync_queue`; tasks in flight; `syncing` guard | `send_message`, `push_one`, `drain_queue_for_peer`, `handle_msg`, `kick_sync_for_peer`, `handle_sync` | NetHandle calls; NetEvents of the peer's return; the ticker |
| contacts, requests, handshake, deletion: `app/app/contacts.rs`, `app/handshake.rs`, `app/event_loop.rs` | rows of `contacts`, `requests`, `sessions`, `pending_deletes` | `send_contact_request`, `handle_handshake`, `accept/reject/cancel_request`, `handle_control`, `delete_contact`, `wipe_peer`, `flush_pending_delete` | handshake and message calls |
| presence: `app/app.rs`, `app/event_loop.rs` | `connections`, `presence`, `connection_meta` (three locks) | connection events, `refresh_presence`, the ticker's probe and demotion, `wipe_conversation` | swarm events and `check_live`, `disconnect_peer` |
| swarm task: `net/swarm.rs`, `net/behaviour.rs`, `net/dial_priority.rs` | bootstraps, relay reservation, circuit listeners, dial mode, live connections | dialling, bootstrap reconnect, `apply_dial_mode`, event translation | commands in, NetEvents out |
| NetHandle and protocols: `net/handle.rs`, `net/protocol.rs` | pending slots by request id, two bounded channels | `send_*`, `respond_*`, `find_peer` | every other part |
| rate limiter: `app/rate_limit.rs` | one sliding window per peer | `allow_handshake`, `allow_msg`, `allow_sync`, `forget` | `handle_msg`, `handle_handshake`, `handle_sync` |
| reconnect backoff: `app/reconnect.rs` | delay per contact | `ready`, `due`, `record` | the ticker |
| NAT verdict: `app/event_loop.rs` | verdict and failure streak | `handle_nat_status` | the ticker |
| discovery and boot reconnect: `app/app/contacts.rs`, `app/app.rs` | none of its own | `dial_with_discovery` and its layers | swarm, `peer_state` rows |
| settings and bootstraps: `app/app/settings.rs`, `app/config.rs` | one settings row, bootstrap rows | read-modify-write | swarm |
| encryption: `app/messaging.rs`, `core/crypto` | none | seal, open, derive, sign | delivery, contacts |
| storage: `storage/` | SQLite file, data key | open, migrate, DAO statements | everything durable |
| identity and types, diagnostics and views, Tauri shell (`src-tauri/`), Svelte UI (`ui/`) | derived | formatting, forwarding, reloading | AppHandle |

How they meet: the swarm task and the application exchange commands (mpsc) and
NetEvents (a broadcast channel of 256, whose receiver may lag and skip). One event
loop task handles every NetEvent in turn and awaits inside its handlers - an inbound
message is handled completely before the next event is looked at, and while a drain
waits for an answer nothing inbound is answered. Next to it run the presence ticker
(every 30 s), a task per outgoing message, a task per reconcile, and the tasks of the
user's commands. Nothing larger than one SQL statement is a transaction.

Hard behaviours: those interleavings; calls that the caller has given up on but the
callee still executes; answers that are lost; the same row sent by two tasks; crashes
between statements; values read before an await and used after it; skipped events.
`hazards` in `PROJECT.json` lists them with their lines and the properties that are
about them.

What makes the components correct:

- *delivery*: what the sender is shown never runs ahead of what the recipient took;
  an unconfirmed message keeps a task or a queue row; paging asks for everything; everything
  sent eventually arrives if the peer does not stay away for ever.
- *contacts*: nobody is a contact of a user who never wanted it; an incoming request
  can be answered; sessions exist on both sides or on none; a deleted chat does not
  survive on the peer, and a deletion does not destroy a conversation it was not about.
- *presence*: an open connection is known, a closed one is forgotten, the derived maps
  agree with the authoritative one, and after the network calms down the dot is right.
- *calls*: a caller is never forgotten, a request is executed at most once, success means
  that it was; two event loops that wait for each other come to an end of it.
- *schedules*: what restarts an upgrade or forgets a cooldown is not lost to a pass that is
  under way; nothing is retried for a while and then never again.
- *swarm, settings, discovery*: the swarm ends up with the mode and the bootstraps the
  user saved; LanOnly takes down every circuit listener and lets none come up; a
  bootstrap that is lost is connected again and reserved again; what was already under
  way when the mode changed comes to an end.

## 2. Modules

| module | what it is |
|---|---|
| `Courier` | abstract: the status shown for every message against the messages really taken |
| `Delivery` | one direction of one conversation, sender and recipient, with tasks, calls, crashes |
| `MCDelivery` | scenarios of Delivery: two draining tasks under crashes; contacts who accepted each other, a peer that stays connected |
| `DeliveryProofs` | theorems about Delivery and their proofs |
| `Consent` | abstract: the status each user sees of the other against what the two have wanted |
| `Contacts`, `MCContacts` | two nodes from request to deletion; the parties as a symmetry set |
| `ContactsProofs` | theorems about Contacts and their proofs |
| `Presence` | one contact's connections as the swarm has them and as the node believes |
| `PresenceProofs` | theorems about Presence and their proofs |
| `Rpc` | abstract: what the application is promised about a call to another node |
| `Calls`, `MCCalls` | NetHandle, command channel, swarm tasks, request_response and event loops of several nodes; the two nodes of the run |
| `CallsProofs` | theorems about Calls, the refinement of Rpc among them |
| `Ticker`, `MCTicker` | the presence ticker's schedules for one contact: redials, upgrades, due rows, and what restarts them; the scenes of the run |
| `TickerProofs` | theorems about Ticker and their proofs |
| `Relay`, `MCRelay` | settings, the swarm task's bootstraps and reservations, and the discovery of one contact; the relays and connections of the runs |
| `RelayProofs` | theorems about Relay and their proofs |

### Delivery

`status` and `queue` are the sender's `messages.status` column and `sync_queue` rows,
`inbox` and `contact` the recipient's rows: these survive a crash. `push` are the
`push_one` tasks, `pc`/`todo`/`cur` the calls of `drain_queue_for_peer` - by the event
loop (`Loop`) when the peer is discovered or connects, by the presence ticker
(`Tickers`) for rows that are due -, `wire` the `send_msg` calls and their answers,
`sk*`/`promoted` and `rkPc`/`base`/`since`/`theirs`/`page`/`pages`/`fresh`/`skipped` the two
halves of `kick_sync_for_peer` as they matter to this direction: the sender's half
asks for the peer's high-water mark and promotes rows up to it, the recipient's half
pulls what it lacks, page by page, and confirms it (`confirm`, the sync Ack). The
other direction of the conversation is a second copy with no row in common.

Every await and every statement is an action of its own where another task can get in
between: `DrainAcked` sets the status, `DrainRemove` deletes the queue row;
`PromoteOutboundSynced` is one `UPDATE ... RETURNING`, `RemovePromoted` one delete per
row. `PushFailed` and `DrainFailed` may happen at any time while the call is pending
(refusal, error, SEND_TIMEOUT): the request stays on `wire` as `"gone"` and can still
be handled by the recipient, whose answer then finds no slot. `SendMessage` is the
insert and the spawn together; nothing can see the row in between but a crash, which
leaves the same state as a crash right after it. Messages are numbered in the order of
their UUIDv7 ids, and `Highest` is `MAX(id)`. `muted` is a history variable for what a
blocking recipient acknowledges and drops (`handle_msg` does so by design).
`RefuseMsg` stands for every early return that answers `ack = false` and for lost
requests: the sender cannot tell them apart, both end in `PushFailed`/`DrainFailed`.

An envelope of a page need not be stored: without a session, when a check or a statement
fails, or for a control payload, `ingest_synced_envelope` says so, the loop logs it and
goes on, and the next Pull still asks after the last id of the page. `IngestPage(ok)` stores
any part `ok` of the page (`RecipientCrash(ok)` the part a crash leaves), and the history
variable `skipped` keeps what this kick has stepped over.

`CrashSpec` in `MCDelivery` is `Next` with at most two of the four long tasks - event loop's
drain, ticker's drain, sender's kick, recipient's kick - running at a time, and the event
loop's drain and the recipient's kick in turns: while the loop drains it answers no Header and
no Pull, so the two overlap without meeting. Pushes, calls, late answers, `handle_msg` and
crashes overlap with all of them. The theorems are about `Spec`, where everything overlaps.

### Contacts

`contact`, `session`, `pending` and `erasure` are the rows of `contacts`, `sessions`,
`requests` (unresolved ones, by direction) and `pending_deletes` about the other party.
The tasks are `asking` (`send_contact_request` and the handshake inside it),
`answering` (accept, reject, cancel), `loop` (the event loop's handler for the call it
has taken) and `wiping` (`wipe_peer`, by the user's `delete_contact` or by the loop on
a ChatDeleted); each holds the next statement. `send_contact_request` reads the
contact, and inserts it later by an upsert, so that another task's write in between is
overwritten, as in the code. `since`, `sealed`, `spared` and `consent` are history variables:
deletions are numbered, `since` is how many the peer had made when the session row was
written (`NewRow`), `sealed` the last one with a ChatDeleted, and `spared` marks a session
row whose ChatDeleted was acknowledged, by a blocking peer or with an older envelope's ack,
without having wiped it.

Merged, because no other action distinguishes the states in between or because they
sit in one statement: the request row and the contact read in `AskContact`; the session
check, its upsert and the answer in `HandleHandshake` (the order is kept: a mutant that
answers first is refuted); the session check and the block gate in `HandleMsg`; the
enqueue of the sealed envelope and the start of the wipe in `DeleteContact`. One user
answers one request at a time. The sidebar offers writing and deleting for accepted
contacts and outgoing requests only (`ui/src/lib/stores/contacts.svelte.ts`), which is
the guard of `SendText` and `DeleteContact`.

`AcceptRequest(n, row)` and `RejectRequest(n, row)` take any unresolved row, as
`accept_request` and `reject_request` do: both look the id up and do not ask for its
direction (`app/app/contacts.rs:261`, `:288`, `:496`), unlike `cancel_request` (`:313`). Which
rows they are called with is `AnswerButtons`: the Requests page
(`ui/src/views/Requests.svelte`), their only caller, shows the two buttons on incoming rows
and Cancel on outgoing ones. `MutualConsent`, `ConsentInv` and `ImplementsConsent`
rest on that page, and say so; with a page that offers Accept on every row
(`AnswerButtonsAny`) a user makes a contact Accepted whom the peer never wanted, and the
control message that follows makes the peer Accepted too. The other properties do not
depend on it.

`Consent` keeps of all this only `contact` and `consent` (`status` and `wants` there): a
status comes about as the user's own request, the peer's, an agreement of both about
somebody who is listed, an end put to it, or a wipe. It promises nothing about what the
other node shows, which may differ for ever when a control message is lost.

### Presence

`socket` is the swarm's set of connections to one contact and `events` the broadcast
channel; `conns`, `presence` and `meta` are the three maps of `app.rs`. `Takes` is the
event loop receiving one NetEvent, after which it is inside `refresh_presence` -
`RefreshRead`, `WritePresence`, `WriteMeta` under one lock each, while the ticker can be
in the same function. `Tick`..`Demote` are the ticker at one contact: `check_live`
answered by the swarm, then a demotion limited to the ids seen before the question; an
Offline contact with a live connection is disconnected to be dialled afresh.
`Wipe`..`DisconnectPeer` are `wipe_conversation` and `delete_contact`, `AddAgain` a new
row for the same peer over whatever connection survived. `ConnectionUpgraded` may
precede `ConnectionEstablished`; `Lag` skips an event. Lan connections behave as
Internet ones at this level (another rank, same transitions) and are folded into them;
`disconnect_peer` closes all connections in one step.

### Relay

`dbMode` and `dbExtra` are the settings row, `saver` what `update_settings` has left to
do after writing it, `cmds` the bounded command channel between the application and
the swarm task (`COMMAND_CHANNEL_CAPACITY`, 64 in the code: a sender waits while it is
full). `mode`, `boot`, `reserved` and `circuit` are the swarm task's `dial_mode`, the keys
of `bootstrap_peers`, `relay_reserved` and `circuit_listeners`; `circuit` names the
connection a listener was made over. `conn`, `dialing` and `listeners` are libp2p's side:
connections to relays (several to one relay at once), dials under way, and the circuit
listeners that are alive. The swarm task handles one command, tick or event at a time, so
each is one action: `HandleUpdateBootstraps`, `HandleLanOnly` and `HandleInternet`
(`ApplyDialMode`), `HandleDial`, `HandleFindPeer`, `HandleDialAddress`, `ReconnectTick`,
`HandleEstablished` (with `Connects`, a dial of ours, or `Accepts`, any other
connection), `HandleClosed`, `DialFails`.

`walk` is `dial_with_discovery` of one contact: it reads the dial mode in `Discover` and
keeps it while it asks the swarm (`AskSwarm`), tries the cached address (`TryCached`),
looks the peer up (`LookupEnds`) and falls back to a circuit through every bootstrap
(`Fallback`, `DialCircuit`). `calling` says who has the contact being dialled over a circuit:
`"discovery"`, or `"request"` for the dials nobody in this code asks for by name -
`SendHandshake`, `SendMsg` and `SendSync` make libp2p dial a peer that is not connected, with
every address the behaviours know of it, and Kad dials in its queries (`HandleSendRequest`, in
any mode, at any time). What the
address book, `peer_state` and Kad know of the contact is left open at every step: each
step may find a direct address, a circuit, or nothing, as far as the code's filters let
it. So an address book that identify or Kad has filled again after a mode change is among
the cases.

`Accepts` and `ReservationEnds` are libp2p's and the relay's doing and may happen in any
mode. `disconnect_peer_id` marks connections as closing, their `ConnectionClosed` comes
later. `Reserves` has both outcomes of `listen_on`: a listener on record, or an error, after
which the guard is free again and there is no listener. `ListenersSpec` in `MCRelay`
leaves the dials of requests out, which touch nothing that listeners depend on.
`Closed` distinguishes, as the code does, relays that are bootstraps at that moment
from those that are no longer. `Restart` is closing and booting the application at any
point; the settings row is what survives. Left out: the Kad mode and `provided_self`, the
address book's pruning (its content is open anyway), the rows `update_settings` sweeps
from `peer_state`, discoveries of several contacts at once, and the ticker's upgrade
dials (Ticker has their schedule). One save is under way at a time: the Settings page
disables its button while it is `saving`.

### Rpc and Calls

Delivery and Contacts have a wire of their own, written against a promise: the peer
executes a request at most once, success is reported only of an executed request, an error
says nothing. `Rpc` states that promise with five sets (`asked`, `waiting`, `open`,
`executed`, `succeeded`), and `Calls` is how the code keeps it. A `Call` is made once, as
request ids are fresh; `Kind` names the task that makes it: `"drain"` is the event loop's
own `send_msg` (`drain_queue_for_peer`, `flush_pending_delete`), `"push"` has the
SEND_TIMEOUT of `push_one`, `"sync"` waits as long as the swarm lets it, `"find"` is
`find_peer` under one of the `kad_lookups` permits, `"live"` a question that the swarm task
answers at once.

`cmds` is the command channel and `events` the broadcast channel, each with its capacity
(`Asks` and `Responds` wait for room, `Emitted` drops the oldest event, which is the
receiver's Lagged). `pending` are the slots of the four `pending_*` maps: `Opens` makes one,
`Closes` takes it out and answers, `HandleShutdown` drops all of them with the commands still
queued. `wire` is where libp2p has the request: on its way out, with the peer's application
(the response channel in a `TakeOnce`), on its way back, or `"stray"` when its slot is closed
though it may still arrive. `GivesUp` drops the receiver only. `Fails` is OutboundFailure at
any point, the 15 s timeout of `request_response` included. The event loop takes an event when
it is in no handler: `HandleRequest` executes a request and `Responds` hands the answer
over, `HandlerFails` drops the response channel, `StartDrain` begins the calls for the rows
of a peer that is back, one after the other, and while one of them waits (`Draining`) the
loop takes no event.

A task that finds the command channel full has not asked yet (`Asks` is disabled until there
is room); dropped while it waits for room, it never asked. Answers that are handed to the
channel of a closed swarm task fail and the loop goes on.

### Ticker

One accepted contact. `link` is the swarm's connection to it and `news` the events of it
still to be handled; `known` is the presence map's entry; `backoff` its
`reconnect_backoff` entry, with time counted in intervals of the ticker; `upgrades` its
`upgrade_backoff` count. `loop` is what the event loop has left of the event in hand: presence
first, then the backoff (`ForgetsBackoff`), then the outbox (`Flushes`) after an
established connection; the count first and presence later after an upgrade or a close; and
`clear` then `wake` when `handle_nat_status` turns the verdict to Public, as
`update_settings` does for a new dial mode (`ApplyDialMode`). `pass` is where
`run_presence_ticker` stands: `Begin` on the interval or the permit of `wake_notify`,
`Visit` reads presence, `Offline` asks and records the backoff in one critical section,
`Redial` is the drop of a connection presence does not know and the discovery after it,
`Relayed` counts a visit and decides on an attempt, `Drain` sends what is due. Any step of
the event loop may come between them.

`due` are the rows of `sync_queue` whose time has come, in the order of `next_retry_at`,
`later` the others: `DrainDue` looks at the first `DueLimit` of them, of all peers, and sends
those of the contact. A drain sends its rows in one step here, since Delivery has the
interleavings with other senders. `Counted` lets the count go round past the burst, where
only its remainder by the cadence matters: taking off one cadence keeps the remainder and
stays past the burst (the code's count saturates after 2^32 visits); that the folded count
makes the same visits attempts is a theorem (`UpgradeCountFolds`). `Factor` is the doubling
of the cooldown, a recursive function; `Without` takes drained rows out of the queue and
keeps the order of the others. Left out: wipes of
the contact and skipped events (Presence has them), and the outcome of dials, which is the
network's choice. The scenes of the run (`Scenes`) separate the queue from the schedules,
which touch no common state but the connection.

## 3. What the runs check

Bounds are CONSTANTS in the `.cfg` files, and every one is named in its module. All
runs together fire every action. Deadlock is checked in the Delivery, Relay and Ticker runs;
Contacts and Presence stop when users and network have used up their bounds, Calls when
every swarm task has been shut down, so their runs say `CHECK_DEADLOCK FALSE`.

| run | instance | shows |
|---|---|---|
| `delivery_crash` | 2 messages, page size 1, 2 pages, drains by event loop and ticker, both kicks, two of these four at a time; 1 crash of either side | `TypeOK`, `IInv` (the inductive invariant of the proofs), `DeliveredIsTaken`, `SyncedIsCovered`, `RetryCovered`, `PullLeavesNoGap`, and `ImplementsCourier` (refinement) |
| `delivery_steady` | 2 messages, ticker only, fairness | `SendingSettles`, `SentArrives` (liveness) |
| `contacts_consent` | 2 handshakes in any combination of the two users, accept and reject on incoming rows, or 1 handshake and 2 deletions; 1 crash, 2 calls on their way | `TypeOK`, `MutualConsent`, `ConsentInv` (its inductive invariant), `PendingIsAnswerable`, `SessionIsShared`, `CopyIsChased`, and `ImplementsConsent` (refinement) |
| `presence_settles` | 2 connections, 1 skipped event, 1 wipe and re-add, fairness | `TypeOK`, `LiveIsKnown`, `NoGhost`, `PresenceSettles` (liveness) |
| `relay_listeners` | 2 relays, 2 connections to the built-in one, channel of 2, any number of saves, drops, failing `listen_on`s and restarts | `TypeOK`, `SettingsApplied`, `LanOnlyIsQuiet`, `GuardedListeners`, `DefaultReserves` (action property) |
| `relay_settles` | 2 relays, 1 connection each, channel of 1, requests that dial, fairness | `DiscoverySettles`, `BootstrapReturns` (liveness) |
| `calls_return` | 2 nodes that drain towards each other, a lookup, a question; channels and permits of 1; a shutdown of either; fairness | `TypeOK`, `NoCallHangs`, `SlotsAreLive`, `IInv` (the inductive invariant of the proofs), `KeepsPromise` (refinement), `CallsReturn`, `LoopComesBack` (liveness) |
| `ticker` | 1 contact, 2 connection events on their way, cooldowns of 1 and 2 intervals, upgrades at visits 0, 2 and every second; 2 rows of its own and 1 of an absent peer, a limit of 2; fairness | `TypeOK`, `UpgradeOwed`, `NoStaleCooldown`, `RedialGoesOn`, `UpgradeGoesOn`, `RowsAreTried` (liveness) |
| `delivery_synced` | 2 messages, no crash | violated: `SyncedIsStored` |
| `delivery_sending` | 1 message, 1 crash | violated: `SendingIsQueued` |
| `contacts_session` | 2 handshakes | violated: `SessionKept` |
| `contacts_mirror` | 2 handshakes, 1 deletion | violated: `MirrorsPeer` |

Why the bounds suffice for what is asked: two messages are what order, high-water mark
and paging are about (one below the mark, one at it; a full page and a following one);
every task that can hold a message exists (pushes, two drains of the same rows, both kicks,
late requests), any two of the long ones at once, as far as `CrashSpec` says; that three or more
do not disturb each other either is part of what `DeliveryProofs` proves for any set of
tickers; one crash can fall between any two steps. Two handshakes cover crossing
requests and a repeated one, two deletions a repeated and a mutual one. Two
connections cover a hole punch next to a relayed connection, an early upgrade and a
replacement during the ticker's check. In Relay nothing is bounded but the instance: one
relay that no setting removes and one that comes and goes are the two kinds the code
distinguishes, a second connection is what makes a closed one differ from a lost peer,
and a channel of one or two commands is full as soon as a save and a discovery meet,
which 64 would only delay. In Calls two nodes with one drain each are what a mutual wait
needs, and channels of one are full at every opportunity; pushes and reconciles behave like
drains towards the swarm (their kinds are in the proofs, which hold for every set of calls).
In Ticker the constants keep the shape of the code's: a first cooldown, a doubled one and the
ceiling that clamps a third, a burst with an end and a cadence after it, a limit that own
rows alone can fill. Each property of a passing run has a mutant in
`PROJECT.json` - the definition as a plausible bug would leave it - that violates it
within the same bounds, so the case the property is about does occur there.

Some properties are weaker than one would like, on purpose, because the code does not
promise more. `SyncedIsCovered` says a Synced message *or a later one* is stored; the
stronger `SyncedIsStored` fails. `PullLeavesNoGap` says that everything between the id a kick
started from and the id it asks after was asked for and came; it excuses what came and could
not be ingested. `DiscoverySettles` is about discovery's dials, not about those of requests.
`MutualConsent` and what belongs to it rest on the Requests page. `RowsAreTried` assumes
fewer rows of absent peers than `due` returns (256): such rows are never sent, hence never bumped, and stay first in the order, so 256 of
them would hide every row behind them. `RetryCovered` and `PendingIsAnswerable` speak about
executions without a crash (`SendingIsQueued` shows why). `CopyIsChased` lets a ChatDeleted
be given up for a copy that was `spared`; the two ways to get there are among the smaller
disagreements below.

### Fairness

`Delivery!Fairness`, for `delivery_steady`: a push ends, because SEND_TIMEOUT bounds its
call (weak fairness); each step of a drain ends for the same reason; the ticker comes
round every 30 s and a backoff ends within an hour, so a queued row is drained again
and again (strong fairness of a drain that contains it); among endlessly repeated tries
some requests are received and some acks come back (strong fairness of the receipt and
of the ack). The last is an assumption about the network - the peer is not out of reach
for ever - without which nothing can arrive. Nothing is assumed of users, of reconciles
or of the event loop's own drains.

`Presence!Fairness`: every task goes on (weak fairness of its next step) and the ticker
comes round (every 30 s; for an Offline contact when its backoff, at most ten minutes,
is over). Connections need not open or close; `PresenceSettles` is about the executions
where they stop doing so, which the finite supply of ids makes all of them.

`Relay!Fairness`, for `relay_settles`: the swarm task, discovery and the reconnect
interval go on (weak fairness), a dial of the contact ends (another may follow), a connection that is being
closed closes. A save that waits for room in the channel gets it in turn: tokio's mpsc
serves waiting senders in order (strong fairness of `Saver`). Of the dials of a relay
that are tried for ever one succeeds: the relay is not away for good (strong fairness of
`Connects`); without this assumption about the network no bootstrap can return. Nothing
is assumed of users, restarts, drops or refusals.

`Calls!Fairness`, for `calls_return`: the swarm task handles its commands and the event loop
its events (weak fairness); libp2p ends every request within its timeout of 15 s
(`behaviour.rs`), every Kad query within its own, and a stray request arrives or is lost
(weak fairness of `Fails`, `LookupEnds`, `Vanishes`); whoever waits for room in the command
channel gets it in turn, as tokio's mpsc serves waiting senders in order (strong fairness of
`Responds` and `SendsRow`). That a response arrives is assumed nowhere.

`Ticker!Fairness`, for `ticker`: time goes on, each task goes on with its next step, a save
that has cleared the counts wakes the ticker, a bumped row falls due again (weak fairness);
the event loop comes to a connection event between whatever probes there are, since it takes
events in order (strong fairness of `HandleNews`). Connections, probes, saves and messages
need not happen, and no acknowledgement is assumed.

### Disagreements between the code and what it says of itself

Each is a run that TLC refutes; `findings` quotes the lines.

1. `delivery_synced`: Synced is documented as "both sides hold an identical copy". The
   reconcile promotes everything up to the peer's *highest* inbound id and drops the
   retries. A message whose push failed, followed by one that got through, becomes
   Synced and is never sent again; the peer's Pull asks only above the mark.
   (Consequently the README's claim that the reconcile catches whatever the queue lost
   does not hold below the mark.)
2. `delivery_sending`: Sending is documented as "queued for first send", but a row
   enters `sync_queue` only after a failed push; a crash in between leaves a row that
   shows a clock and that no drain will send.
3. `contacts_session`: a responder that has a session refuses a handshake because "the
   initiator keeps its own session"; after a lost answer the initiator has none and is
   refused for good.
4. `contacts_mirror`: a ChatDeleted means "Peer wiped the conversation; mirror locally";
   it names no conversation and is retried until acknowledged, so it can wipe one that
   was established later.

Smaller ones, which no run refutes because the models follow the code:

- `src/README.md:10` says a "reconcile catches anything the queue lost". An envelope that comes
  in a page and cannot be ingested is stepped over (`event_loop.rs:1123`); once a later one is
  stored, the high-water mark is above it and no reconcile asks for it again
  (`IngestPage`, `skipped`).
- A comment in `net/swarm.rs:403` calls the filter in `Dial` "the dial-decision chokepoint"
  that "closes the LanOnly relay-dial leak fully". `send_request` (`:504`-`:529`) dials a
  contact that is not connected with every address the behaviours hold, circuits that
  `add_peer_address` and Kad have put there included, in any mode; every push, drain and
  handshake does so, and such dials need not end (`HandleSendRequest`). `DiscoverySettles` is
  what is left: the dials of discovery end.
- The comment on `relay_reserved` (`net/swarm.rs:350`) has the guard last for the task's
  lifetime and keep `listen_on` from being issued again "every time the connection drops and
  reconnects". `ConnectionClosed` clears it so that the next reconnect issues `listen_on`
  again (`:764`), which `DefaultReserves` is about; the guard is of use against a second
  connection to the same relay only. After a `listen_on` that fails nothing tries
  again until the next connection.

- `src/README.md` says a relay slot is reserved at every configured bootstrap on connect.
  `ConnectionClosed` clears the guard only of peers that are bootstraps at that moment
  (`net/swarm.rs:767`): one that was removed from the settings, dropped its connection and
  was added again is connected without a reservation until it drops once more. At the
  built-in bootstrap, which cannot be removed, this cannot happen (`DefaultReserves`).
- `drain_queue_for_peer` says a reconnect "flushes EVERY queued row" and "drains the whole
  outbox at once"; it asks `due` for the first 256 rows of all peers (`DrainAll`).
- `KAD_LOOKUP_CONCURRENCY` is "Max simultaneous Kad `find_peer` lookups"; a permit is free
  after the caller's 10 s while the query may go on, so more queries than permits can run
  (`GivesUp` leaves the slot).
- `migrations/0007_pending_deletes.sql` says a deletion "can be retried until the peer acks".
  The ack of an older ChatDeleted removes the row that is there by then
  (`flush_pending_delete`), also one sealed for a later deletion of a conversation begun
  in between (`DeleteAcked`); that needs two deletions, a new handshake and a late ack. A peer
  that has blocked this node acknowledges without wiping; a request of its own may overwrite
  the block afterwards and leave its copy in use (`HandleMsg`, `AskInsert`).
- `NetHandle::shutdown` says the task "will drain in-flight requests and exit"; the loop is
  left at once and they fail (`HandleShutdown`).
- `event_loop::run` says it runs until the broadcast channel closes; the application's own
  NetHandle holds a sender of that channel, so it does not close while the event loop lives.
- The comment on `spawn_kick_sync` detaches it because both peers could "deadlock waiting for
  each other"; the drain next to it still awaits `send_msg` in the loop. The wait ends with
  the 15 s timeout of one of the requests (`LoopComesBack`), row by row.
- The ticker's upgrade dial of a relayed contact goes through `Dial`, whose
  `DisconnectedAndNotDialing` is false while the relayed connection is up: the attempt is
  made (`UpgradeGoesOn`) and issues no dial.
- The first cooldown is the ticker's interval "so the first retry keeps the existing
  once-per-tick cadence" (`reconnect.rs:19`); with the jitter added it may miss the next tick
  (`Recorded`).

A comment in `net/protocol.rs` says a sync Ack drops rows from the retry queue; the code
only sets their status, and the models follow the code (`HandleSyncAck` leaves `queue`
alone, the next drain sends the row once more).

## 4. What is proved

`DeliveryProofs` proves, from `DeliveryAssumption` alone (natural-number parameters, a
page holds something, the event loop is not a ticker), for any number of messages,
tickers, crashes, and any page size and budget:

| theorem | statement |
|---|---|
| `TypeCorrect` | `Spec => []TypeOK` |
| `InvCorrect` | `Spec => []IInv` |
| `DeliveredCorrect` | `Spec => []DeliveredIsTaken` |
| `SyncedCorrect` | `Spec => []SyncedIsCovered` |
| `RetryCorrect` | `Spec => []RetryCovered` |
| `PullCorrect` | `Spec => []PullLeavesNoGap` |
| `Refinement` | `Spec => ImplementsCourier` |
| `TicksLast` | `Spec => Promise!Lasting` |
| `KickEndsCorrect` | `Spec => KickEnds` |

The first three safety properties are not inductive: `DeliveredIsTaken` says nothing of the
ack that a step is about to believe. `IInv` adds what is in flight:

- `CallsBacked`: every call is about a message that was sent, every ack about one the
  recipient has taken - also an ack that outlived a crash of the recipient;
- `OnlySent`: whatever is stored, queued, pushed, paged or about to be drained was sent;
- `KicksBacked`: ids to confirm are stored, and so is a reported high-water mark - rows
  of the inbox are never lost, so a stale report stays true;
- `RemovalsSettled`: when a queue row is about to be removed its message has left the
  clock, which is what keeps `RetryCovered` when `DrainRemove` or `RemovePromoted` runs
  long after the status was written and another task has changed it since. It is also
  why no step may ever put a message back on the clock.

One step per action shows that it keeps each conjunct it can disturb.

`PullLeavesNoGap` needs an invariant of its own, `PullInv`: ids are sent in order, so a message
sent during the kick lies above everything the kick has asked about; and a page on its way is
closed downwards above `since`, which is what "the lowest `PullLimit` rows" gives
(`PageIsLowest`, an inclusion of finite sets) and what a page of the newest rows would not.
Whatever of the page is stored, the rest is in `skipped` when `since` moves.

The refinement maps `view` to `status` and `got` to `inbox \cup muted`: pushes and drains that are
acknowledged are `Vouch`, the recipient's `HandleMsg` and the part of a page that is ingested,
by `IngestPage` or before a crash, are `Arrive`, `PromoteOutboundSynced` is `Reconcile` of the
reported bound, everything else stutters; it uses `IInv` for the guards of `Vouch` and
`Reconcile`. `TicksLast` is what the sender can rely on once that is known: Courier has no
step that turns a tick back into a clock, unlists a message or takes one from the recipient,
so no step of Delivery does, in whatever order acks, promotions and crashes come.

`KickEnds` says that a kick of the recipient comes to an end: each of its steps leaves fewer to
go (`StepsLeft`). The proof uses the type invariant and nothing about the pages: the code
does not check that a page lies above the id it asked after, and only SYNC_MAX_PULL_PAGES
stops it, whatever a peer answers. It is proved for any page size and budget and is part of no
run.

Lemmas: `HighestIsMax` (the high-water mark is 0 or a member that bounds
the others) and three about which calls remain when one is abandoned or answered.

`ContactsProofs` proves, from `ContactsAssumption` (two parties, natural-number bounds),
for any number of requests, deletions, crashes and calls on their way:

| theorem | statement |
|---|---|
| `TypeCorrect` | `Spec => []TypeOK` |
| `ConsentCorrect` | `Spec => []ConsentInv` |
| `MutualConsentCorrect` | `Spec => []MutualConsent` |
| `PendingIsAnswerableCorrect` | `Spec => []PendingIsAnswerable` |
| `SessionIsSharedCorrect` | `Spec => []SessionIsShared` |
| `CopyIsChasedCorrect` | `Spec => []CopyIsChased` |
| `Refinement` | `Spec => ImplementsConsent` |

`MutualConsent` looks at accepted contacts only, and what makes a contact accepted is
decided long before: by a request row, a control message or the loop's next statement.
`ConsentInv` says of each of them whose will it stands for: `OwnSteps` (a running
`send_contact_request` and a PendingOut row: the user's own), `PeerSteps` (an incoming
row, a handshake or a message being handled: the peer's), `AgreedSteps` (everything on
the way to Accepted: both), `CallSteps` (the calls that carry it over). Crashes, wipes and
overwriting upserts then cannot matter: they remove or go back, and every step forward
needs one of these. That an incoming row is the peer's will and the one that is accepted is
where the proofs use `AnswerButtons`. `PeerIsOther` is the lemma that two parties are each other's peers.

Each of the other three has its own invariant, stated next to its theorem. `AnswerInv` narrows
"an answer is under way" to one whose status is still to be written: a decision that is
only to be told would not excuse a request surfaced again after a wipe. `ShareInv` adds that
a handshake, in a task or on the wire, is of a node that has asked, and that without a
deletion an acceptance comes from a peer that has its row. `ChaseInv` explains why an ack may end
the chase: the row holds the last sealed deletion or nothing, the loop's session row is newer
than the ChatDeleted it is wiping for from the moment the old one is gone, and so is that of
a peer whose ack is on its way, unless spared. `BeginsNew` is the lemma that a new session
row, from either side of a handshake, owes nothing to deletions made before it.

The refinement maps `status` to `contact` and `wants` to `consent`. `ConsentInv` is what it
needs at every step that writes a contact: `OwnSteps` for the upsert of
`send_contact_request`, `PeerSteps` for a surfaced request, `AgreedSteps` for everything
that ends in Accepted. It says more than `MutualConsent`, which looks at states only: a
control message that comes late cannot bring back a contact whose row a wipe has removed.

`RelayProofs` proves, from `RelayAssumption` (finitely many relays, at least one possible
connection to each, a channel that holds something), for any number of saves, restarts,
drops and connections:

| theorem | statement |
|---|---|
| `TypeCorrect` | `Spec => []TypeOK` |
| `GuardedCorrect` | `Spec => []GuardedListeners` |
| `QuietCorrect` | `Spec => []LanOnlyIsQuiet` |
| `DefaultReservesCorrect` | `Spec => DefaultReserves` |
| `SettingsAppliedCorrect` | `Spec => []SettingsApplied` |

`LanOnlyIsQuiet` is not inductive: `HandleLanOnly` removes the listeners that
`circuit_listeners` records, and would leave one that is not recorded. `GuardedListeners`
says there is none: a listener is made only where the guard was free, and the guard is
free only where no listener is recorded, so a second connection cannot make a second
listener that overwrites the record of the first. `TypeOK` carries the fact that the
built-in bootstrap is in every list of bootstraps on its way to the swarm; therefore its
`ConnectionClosed` always takes the branch that clears the guard, and with it
`GuardedListeners` gives `DefaultReserves`: the guard is free at every return, so `listen_on` is
called, and where it fails the guard stays free. For other relays that step of the argument
fails (the smaller disagreements in section 3 tell the case). `QuietSteps` collects the
actions that touch none of this, and the remaining lemmas type the command channel and discovery's states.

`SettingsApplied` speaks of an empty channel and an idle saver; on the way there the last
command of a type in the channel decides, whatever is in front of it. `BootTold` and
`ModeTold` say that this command is of the settings row, or that there is none and the row's value
is applied already, except while the saver still has to send it. `Sending` and `Taking` are the
lemmas about the two ends of the channel, for any type of command.

`PresenceProofs` proves, from `PresenceAssumption` (finitely many connections, natural-number
bounds), for any number of connections, skipped events and wipes:

| theorem | statement |
|---|---|
| `TypeCorrect` | `Spec => []TypeOK` |
| `LiveIsKnownCorrect` | `Spec => []LiveIsKnown` |
| `NoGhostCorrect` | `Spec => []NoGhost` |

Neither property is inductive: both say that something is in the channel, and not what is in
front of it or behind it there. `IInv` adds that a close in the channel is of a connection
that is gone (`ClosedAreGone`), so handling it removes no live entry; that what announced a
connection that is gone has its close behind it (`CloseFollows`), so a late established or
upgraded event makes no lasting ghost; and that the ids the ticker is about to demote are of
connections that existed before it asked and are gone (`SnapshotIsOld`). Entries come only
from events (`EntriesOpened`), and ids are never reused. `Broadcast` and `Remaining` are the
lemmas about adding to and taking from the channel, `Listed` says that what `disconnect_peer`
announces covers every connection.

`CallsProofs` proves, from `CallsAssumption` (calls between different nodes, channels that
hold something), for any nodes, any set of calls of every kind and any capacities:

| theorem | statement |
|---|---|
| `TypeCorrect` | `Spec => []TypeOK` |
| `InvCorrect` | `Spec => []IInv` |
| `NoCallHangsCorrect` | `Spec => []NoCallHangs` |
| `SlotsAreLiveCorrect` | `Spec => []SlotsAreLive` |
| `PromiseKept` | `Spec => KeepsPromise` |
| `CallsAreHonest` | `Spec => []Promise!Honest /\ Promise!Final` |

At most one execution is a statement about where a request can be. `IInv` says it is in one
place at a time: in the command channel it is nowhere else and unexecuted (`CommandsPlaced`),
on the wire on its way out it is not among the events, among the events it is the only copy
(`EventsPlaced`), and what is on its way back was executed (`WirePlaced`); sequences without
repetitions (`Unique`) are what makes "taken out" mean "gone". `SlotsAreLive` and
`NoCallHangs` are inductive only together: an answer must find the slot it belongs to, and a
slot that is closed must be the caller's last hope. The refinement maps a call's being in the
channel, on the wire or among the events to `open`; `HandleSend` and `Arrives` stutter, a
shutdown, a timeout and a dropped event are `Break`, `HandleRequest` is `Execute`. `CallsAreHonest` is what callers and handlers
build on, derived from the abstract module alone: a request is not executed twice, nor
after it was lost; a success is of an executed request; a call that has ended never goes on.

`TickerProofs` proves, from `TickerAssumption`, for any cadence, ceiling, limit and number of
events on their way:

| theorem | statement |
|---|---|
| `TypeCorrect` | `Spec => []TypeOK` |
| `UpgradeOwedCorrect` | `Spec => []UpgradeOwed` |
| `NoStaleCooldownCorrect` | `Spec => []NoStaleCooldown` |
| `CooldownGrows` | the cooldown starts at its base, doubles up to the ceiling, never shrinks, and stays the same after `MAX_STEP` |
| `UpgradeCountFolds` | `Counted` and the code's ever-growing count agree on every visit that makes an attempt |
| `UpgradeRecurs` | after any number of visits an attempt is due within the burst and one turn of the cadence |

`TypeOK` says that `due` repeats no row: only rows of `later` come in, and `Without` adds
none and keeps what is left in order (`WithoutKeeps`). It is inductive together with
`NewsFits`: while there is a connection the channel has room for the event of its end.
`UpgradeOwed` is inductive as it stands: that the count is zero and a wake-up or a visit is
to come is what every step of loop, save and pass hands on. `NoStaleCooldown` is not: it
speaks of a moment without news, and what happens on the way there decides. `InOrder` says a
connection that is up has its own event behind every close on its way, so that no old close
makes the contact Offline once the established event was handled; `Settled` says that from
that event on presence knows the contact, and that the only attempt on record is the one of a
pass that had read Offline before.

The last three theorems are about `cooldown_for`, `should_attempt_upgrade` and the count
behind it, for every number of attempts. That the recursive function `Factor` satisfies its
equation (`FactorIs`) and grows (`FactorGrows`) is induction over the numbers. The library
states induction with an operator parameter, which the provers cannot instantiate;
`Inductive` states it for a set - one that holds 0 and the successor of each of its members
holds all of Nat - and follows from the well-foundedness of inclusion among finite sets.

Only model-checked: the liveness properties, which need fairness and ENABLED and are outside
what TLAPS proves. Every invariant, action property and refinement of a passing run is
proved. No module uses a RECURSIVE operator.

Repeat with:

    tlc -config DeliveryCrash.cfg MCDelivery    (and so on, see "runs" in PROJECT.json)
    tlapm DeliveryProofs.tla
    tlapm ContactsProofs.tla
    tlapm PresenceProofs.tla
    tlapm RelayProofs.tla
    tlapm CallsProofs.tla
    tlapm TickerProofs.tla

## 5. What is not modelled

- `next_retry_at`'s arithmetic (30 s doubled up to an hour): Delivery lets the ticker take any
  due set, Ticker lets a bumped row fall due at any time.
- Both directions of a conversation with their messages at once: each is a copy of Delivery
  with its own rows; what they share is the two event loops, whose mutual waiting Calls has.
- The rate limiter's windows: a refusal is one of the environment's choices.
- Of the swarm task: Kad's routing table and provider records, mDNS, identify, NAT probes
  and transports. Their effect on the modelled parts is connections that come and go,
  addresses that are known or not, and calls that fail.
- Keys, signatures, encryption, encodings, the database file and its migration, the shell
  and the UI: data, pure I/O or formatting. An envelope is the message it carries; one
  that fails to open is one of the refusals of `RefuseMsg` in a live call, and one of those
  `IngestPage` steps over in a page.
- Clocks that step back (UUIDv7 order = sending order is assumed).

## 6. Plan

Done: Courier, Delivery, DeliveryProofs, Consent, Contacts, ContactsProofs, Presence,
PresenceProofs, Relay, RelayProofs, Rpc, Calls, CallsProofs, Ticker, TickerProofs. Next, by
importance:

1. Contacts: a mirrored wipe interrupted by a crash is finished or chased.
2. Relay: the composition of its connections with Presence.
3. `Conversation`: two copies of Delivery over two event loops, with deletion
   (`wipe_peer`) under running pushes, drains and kicks.
4. `Limits`: the sliding-window rate limiter with its boundary cases; a clock that steps
   back under UUIDv7 ids.
5. Proofs: the safety half of the liveness properties - for each what its steps get
   closer to, as `KickEnds` says it of the reconcile.
