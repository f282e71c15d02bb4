# webpush-service in TLA+

A TLA+ development of webpush-service, a Web Push (RFC 8030) server in Rust. It
models the parts of the server in which tasks, requests and nodes meet: the
two stores, the hub, notification across nodes, sessions, receipt streams, the
registration API, the accept loop and the shutdown of a process, the token caches of
the bridges; and the decisions that are hard to test exhaustively: what a push
handler accepts, what a platform's answer means, how an encrypted body is read. TLC checks
the modules on small instances; TLAPS proves, for every value of the constants, the safety
properties that TLC checks, under the hypotheses on the deployment given below where one is
needed, and that delivery and the token caches implement their abstract specifications.

Paths such as `session.rs` are under `crates/webpush-server/src/`; `memory.rs`,
`bigtable.rs` and the `Store` trait (`lib.rs`) under `crates/webpush-store/src/`.

## Inventory

| Component | State | Operations | Correct when |
|---|---|---|---|
| In-memory store, `memory.rs` | user agents, subscriptions with a push index, messages with a topic index, receipt subscriptions with queues, routes; one mutex | the methods of the `Store` trait | the indexes agree with what they index; a message has one outcome and no receipt is lost; receipts are numbered in order |
| Bigtable store, `bigtable.rs` | the same as rows | the same, each several row reads and mutations of which only one row is atomic | calls that interleave row by row settle a message once, leave a newer message alone, and lose no index of what is stored |
| Hub, `hub.rs` | per node: recipient -> sender of a bounded channel | register, unregister, notify | a replaced listener never removes its successor; one that falls behind is closed, not skipped |
| Cross-node notification, `notify.rs`, `internal.rs` | the routes in the store; forwards and cleanups under way | listen, notify, forward, clear_stale, drop of a Listener | an event reaches the current connection wherever it is; the route leads to it |
| Sessions, `session.rs` | what was sent, what is unacknowledged, whether the backlog goes on, timers | hello, register, unregister, ack, next_batch, ping, close | every stored message reaches the newest session; older sessions end; the idle ones too |
| Push and message endpoints, `endpoint.rs` | none of its own | push, withdraw, receipt subscriptions, bridge | what is accepted is stored before it is announced; deleted user agents are unreachable |
| Receipt streams, `receipts.rs` | backlog read, numbers seen | stream, wait=0 read | every receipt is written before it leaves the queue; a deleted subscription ends its streams |
| Registration API, `registration.rs`, `subscription.rs` | none of its own | create, read, update_token, delete, subscribe, unsubscribe | registering is idempotent; an endpoint handed out keeps resolving |
| Maintenance, `maintenance.rs` | none | reap, expire | expiry owes a 410; an active user agent is kept |
| Transport and shutdown, `transport.rs`, `shutdown.rs`, `lib.rs`, `main.rs` | permits, a shutdown signal, a task tracker | accept, upgrade, drain, stop | connections and sessions stay within the limit and no permit is lost; shutdown ends without its timeout and cuts nothing short |
| Tokens of the platforms, `webpush-gcp-auth`, `webpush-apns` | a cached token with its age, a lock or a mutex | token, fetch, invalidate; jwt, drop_jwt | a token outlives the request that carries it; one that was refused is dropped as soon as a send learns of it; users share one, and none waits for ever |
| Bridges, `webpush-fcm`, `webpush-apns`, `webpush-bridge` | none | send | a user agent is deleted exactly when its device is gone |
| Headers, errors, VAPID, `headers.rs`, `error.rs`, `webpush-crypto` | none | parse, verify | a restricted subscription is reached with its key only; refusals come in order and leave nothing behind |
| Content encoding, `webpush-crypto` | none | encrypt, decrypt | what is read is what was sent, or nothing |
| Configuration, telemetry | none that changes | loading, counting | |

How they interact: handlers and sessions call the store and the hub directly; a
push handler that finds no listener in its own hub reads the recipient's route
in the store and forwards the event to that node over HTTP; a session or receipt
stream owns a `Listener`, whose drop unregisters it and spawns a task that clears
the route; the reaper and the acknowledgements of sessions queue receipts, which
are announced like messages. Every `.await` is a point where another task runs,
and a handler may be dropped at any of them when its client hangs up.

What is hard: a message stored while a session connects; connections that
replace each other on one node or on several, with cleanups and `Gone` events
that arrive late; channels that are full; batches of the backlog; forwards that
fail; two calls to the store, or two rows of a call, that others come between; timers that are
only looked at when a ping is due; a lock held across a request to Google; a session that
passes from one task to another while the process stops; answers of a platform that
arrive after the token they are about was replaced. `PROJECT.json` lists these hazards at their
lines with the properties that cover them.

## Modules

| Module | Models | On top of |
|---|---|---|
| `MemoryStore` | `memory.rs`, `lib.rs` of the store | |
| `Hub` | `hub.rs`, the life of a `Listener` | |
| `Notify` | `notify.rs`, `internal.rs` | extends `MemoryStore`, instantiates `Hub` |
| `Mail` | what delivery promises: held, on its way, sent, and who may take a message out (abstract) | |
| `Delivery` | `store_and_notify` and withdrawal (`endpoint.rs`), sessions, the reaper | extends `Notify`, implements `Mail` |
| `ReceiptStream` | `receipts.rs`, `owe_receipt`, `notify_receipts`, deletion of receipt subscriptions, the reaper | extends `Notify` |
| `Registration` | `registration.rs`, `subscription.rs`, `register` and `unregister` of sessions, the lookups and the bridge half of a push, the expiry loop | extends `MemoryStore` |
| `Activity` | pings, idle timeout and `last_seen` of a session against the expiry loop | |
| `BigtableStore` | `bigtable.rs`, row by row | |
| `RouteRows` | the route row on Bigtable (`bigtable.rs`) under the takeovers of `notify.rs` | |
| `CellChunks` | `read()` of `bigtable.rs`: rows from a stream of chunks | |
| `Server` | `transport.rs`, `shutdown.rs`, the upgrade of `session.rs`, the tracked tasks | |
| `PushRequest` | `push` and what it calls in `endpoint.rs`, `headers.rs`, `error.rs`, `vapid.rs` | |
| `Credential` | what a cache of short-lived credentials promises (abstract) | |
| `AccessToken` | `webpush-gcp-auth` under the sends of `webpush-fcm`, and their answers | implements `Credential` |
| `ProviderToken` | `webpush-apns`: the provider token, the sends and their answers | implements `Credential` |
| `ContentEncoding` | `ece.rs`: records, padding, truncation | |
| `MCMemoryStore`, `MCBigtable`, `MCDelivery`, `MCReceiptStream` | symmetry sets and constants for TLC | |
| `MCClients` | registrations and hub, which share no state, as a sum | extends `Registration`, `Hub` |
| `MCParts` | the components that share no state, as a sum; requests and rows for TLC | extends `Server`, `Activity`, `AccessToken`, `ProviderToken`, `PushRequest`, `ContentEncoding`, `CellChunks`, `RouteRows` |
| `MemoryStoreProofs`, `HubProofs`, `RegistrationProofs` | theorems | extend the module they are about |
| `BigtableProofs` | theorems about the Bigtable store | extends `BigtableStore`, `RouteRows` |
| `NotifyProofs` | lemmas about the hubs, channels and tasks under `Notify` | extends `Notify`, `MemoryStoreProofs`, instantiates `HubProofs` |
| `DeliveryProofs` | theorems about delivery to sessions | extends `Delivery`, `NotifyProofs` |
| `ReceiptProofs` | theorems about receipt streams | extends `ReceiptStream`, `NotifyProofs` |
| `PartsProofs` | theorems about the components of `MCParts` | extends `MCParts`, `Credential` |

An operator whose comment begins with "Faulty:" is not part of a specification.
It is what a plausible mistake in the code would look like, and PROJECT.json
pairs it with the property that notices.

**MemoryStore.** Each method locks the one mutex, so it is one action. Ids drawn
at random are members of a set that were not issued before (`issued`, `granted`).
The server's two receipt statuses are 204 (acknowledged) and 410. `returned` holds
messages that `delete_message` handed to a caller who owes their receipt;
`settled` is a history of all receipts. Callers may act on stale reads, so
messages are inserted for subscriptions that are gone, and receipts are queued
for receipt subscriptions that are gone (the store then ignores them).

**BigtableStore.** A variable per kind of row. A method is a call under way on a
node (`calls`): `step` is the request it sends next, the other fields are what it
was called with and has read. The begin of a call includes its first request. The
rows of a scan are worked off in any order. `call_fails` ends a call at any step: the
request fails, the handler is dropped, or the node dies. A node has one call at a
time, which is no restriction except for the sequence numbers that its calls share.
`owing` and `settled` are histories: messages deleted by a call that owes their
receipt, and receipts queued. Cells that no property tells apart (device tokens,
VAPID keys, bodies) are left out; the route rows are in `RouteRows`.

**RouteRows.** One recipient that moves between nodes, each visited once (what a
revisited node meets is the subject of `Delivery`). `set_route` is `read_previous`,
`begin_put`, which reads the node's clock, and `put_route`, in which the write is applied;
in between other nodes take over, clean up and forward `Gone`. The row keeps the versions
of its cell, each with the time its writer gave it, which may be any of `RouteStamps`:
reads and the predicate of `clear_route` see the latest (`Named`), and a deletion takes all.
Histories: `latest` is the last node to have written the row, `contended` whether two
takeovers ever overlapped, `skewed` whether a clock was behind a time in the row, `overtaken`
whether a write met one with a later time.

**CellChunks.** Bigtable cuts the rows of `Table` into chunks in any way its
protocol allows, leaves out names that repeat, and takes back a row it has begun.
The variables of the reader are those of `read()`.

**Hub.** A channel is a sequence with at most `Capacity` events. A slot holds the
only sender, so a listener outside its slot finds its channel closed after what
is queued. `listening`, `ended`, `dropped` are the connection's loop, the time
between its return and the drop of the `Listener`, and after. `Stuck` are connections whose
client may stop reading, and whose task then stands in a write.

**Notify.** A task is an announcement, a forward or a cleanup under way; `step`
is the call it makes next. `listen` registers in the hub; `take_route` is the
second half in a cluster, one call to `set_route` and the spawn of a `Gone` to the
node that held the route. `newest` is a history variable: the last connection to
complete `listen()`. Faults are crashes of a node, forwards that fail to connect
or time out, and handlers dropped at an await.

**Delivery.** One user agent with a subscription; others, as in `delivery_single`, only connect.
Sessions have the stages
`registered`, `reading` (about to call `pending()`), `sending` (what is left of the `batch` it
returned, one message a step, whatever becomes of it meanwhile) and `serving` (the select loop);
`sent`, `unacked` and `more` are the fields of the same names. `asked` is a history of the last
step: which message it removed for whom. Messages ask for no receipt.

**Mail.** What is `underway` to a user agent was announced when its message was accepted, or
fetched for an open connection while the message was held and unexpired. A message leaves
`held` by an acknowledgement of its own user agent or a withdrawal (`Remove`, which says in `asked`
for whom), by a newer one of its topic, or because it is due (`Expire`, which takes no other).

**ReceiptStream.** Messages are stored from the start, ask for a receipt and may
expire. Readers are streams, and `wait=0` reads, which are in no hub. A reader
checks the subscription, reads the queue, writes a receipt and deletes it, each
a step. Keep-alives are left out.

**Registration.** A request is a handler with the call it makes next and what it
has read. `MaxClient = 1` says that a user agent sends one request after the
other, as the documentation tells clients to; pushes and expiry always race.
The refusals of a push for its headers, its VAPID token or its size have no
effect and end like a hang-up. `alive` are the device tokens the platform knows.

**Server.** A process with one listener. `conn` is what a client's connection does,
`refs` who shares its `ConnectionPermit`, `tasks` the count of `TaskTracker`, and
`Watch` its notice that it is closed and empty. A WebSocket upgrade ends the connection
(`switch`) and leaves a session that nobody counts until axum's task calls
`track_future`; `overlooked` remembers those that were in that state when the tracker
was empty. `side` are the tasks that listeners spawn. `Stuck` clients never finish
their request nor read what they are sent.

**PushRequest.** A request is a record with what the handler tells apart: a header is
the sequence of its values, a credential says which checks it would pass. The
handler takes a step for each store or bridge call, and each of its early returns is
an answer with its status. `Registration` has the races between its lookups.

**AccessToken.** `lock` is the queue of Tokio's fair mutex, whose head holds it. `issued`
are all tokens ever fetched, each with the times at which it is due and expires; `cached` names
one. A send may be dropped at any await (`hang_up`), which releases the lock; it is `dropped`
then, and what it knew of a refusal is kept as a history. `token` is the
fast path and the wait, `fetch` to `Fetched` the request under the lock. Tokens are
revoked and devices unregistered at any time.

**ProviderToken.** `jwt()` and `drop_jwt()` hold a plain mutex and are steps with what surrounds
them. Keys are revoked and trusted again, devices go, and the answer may come late.

**ContentEncoding.** The cipher is ideal: what is sealed opens under its own sequence
number only, complete and unchanged. Records, padding, record sizes and delimiters are
those of the source, with a tag of one octet. Bodies are cut, and records dropped,
repeated, swapped and appended.

**Activity.** Discrete time. Timers fire when they are due and sends do not block.
`hello` looks the user agent up, `touch` is the call of `touch_user_agent`, and the sweep may
come between; `orphaned` remembers that it did. From the first frame to the loop it takes at
most `MaxSetup`.

## Runs

| Run | Question | Bounds |
|---|---|---|
| `store` | Do the store's maps stay consistent, is no receipt lost or given twice? | one user agent and channel, two push ids (registered twice), two messages, a topic, a receipt subscription, a token, a node |
| `clients` | What a node keeps for user agents. Do endpoints keep resolving, is registering idempotent, are deleted user agents unreachable? Do the hub's slots and channels stay right, does every detached listener end? | one user agent and channel, two push ids, two tokens, two requests of which one from the client; three listeners of which one is stuck, two recipients, channels of two |
| `delivery_single` | Does the current session on one node miss anything, or stop in the middle of its backlog? | two user agents of whom one has the subscription, two messages, a topic, TTL 0 and 1, two sessions whose ids are reused, batches and channels of one |
| `delivery_backlog` | In a cluster with a fault: does the next session read the whole backlog, and does delivery keep what `Mail` promises? | a connection and an endpoint node, two user agents, two messages, a topic, TTL 0 and 1, one session whose id is reused, one fault, batches and channels of one |
| `delivery_cluster` | With two connection nodes: is nothing missed, does the route stay, do older sessions end, and is a stored message delivered by the next session after a fault? | two connection nodes, an endpoint node, one message, two sessions, one fault |
| `receipts_single` | Does a receipt reach the current stream, does none leave the queue unwritten? | two messages, two streams whose ids are reused, channels of one |
| `receipts_faults` | Does a stream drain the queue, and end when its subscription is deleted? | a connection and an endpoint node, a stream and a `wait=0` read, one message, one fault |
| `bigtable` | Do calls of two nodes, one of which may fail, settle a message once and keep its indexes? | one user agent and channel, two push ids, two messages of one topic that want a receipt, a receipt subscription, five calls, one failure, one tick |
| `parts` | Each component that shares no state with another: do permits add up and does shutdown end; is an active user agent kept and a silent session closed; do tokens outlive their requests and are they shared; what do platform answers, headers and credentials decide; is what is decrypted what was sent; are rows read as stored; does the route name the latest node? | permits: two clients of whom one is stuck, one permit, TLS, two requests, a failed accept; clocks: ping 2, pong timeout 1, touch interval 4, setup 1, expiry 7, sixteen ticks; tokens: three sends, three ticks, a revocation; requests: about two thousand, one for every decision at its boundaries; messages of up to two octets in two records; three rows, two resets; three nodes, clocks that show 1 or 2, one fault |
| `bigtable_seq`, `delivery_stale_cleanup`, `registration_race` | findings, below | |

Why the bounds are enough: the races are between two connections of one
recipient, so two listeners (and their reuse) give a predecessor and a successor
in every phase; a channel of one makes "full" one event away, and a batch of one
makes a second message a second batch. Two messages are needed for order and for
a batch that is not the last; a fault is needed once, since the claim is about
what the next session does. User agents, channels and recipients do not share
state except in the store's maps, and there the proofs cover any number.
Five calls on Bigtable create a subscription, store a message, replace it, and let
two calls race for either. `Revisit = FALSE` in `delivery_cluster` leaves out a user agent
that returns to a node it has left; what happens then are findings. In `delivery_backlog` the
second message is the second batch, read only because the first was acknowledged, and
the one session id is used by one session after the other, on a node that crashes or not. Deadlock is
not checked: with its ids used up and everyone gone the system may rest.
`clients` and `parts` are sums: `part` picks a component and the others rest in their initial
states. They have no variable in common and their steps do not depend on one another, so a
behaviour of all of them is, for each, one of its own with stuttering; nothing is
lost by running them one at a time, and the product of their states is not needed. One
permit and two clients make the accept loop wait at its limit while a session or
a stuck client holds the permit; three sends are one that is refused, one that
refreshes and one that was waiting; three nodes are two takeovers that overlap and
the session they supersede; two times on the clocks make a write that is applied later count
as older, as new, or as newer than what it meets.
The invariants of `delivery_cluster` are claimed while nothing has failed, `Redelivered`
and `MailDelivered` also after a fault.

**Fairness.** Weak fairness of every task and session step: the Tokio runtime
polls each ready task, and a forward ends because the HTTP client has a timeout
(`cluster.notify_timeout`). A write to a client has no timeout (`session.rs:311`, `459`, `471`, `512`):
a connection whose client stays connected and does not read stands in it, and neither looks at its
channel nor drops its `Listener`. So all of this is assumed of the connections of clients
that read only. `Hub` says which: of those in `Stuck` nothing is assumed, and
`DetachedListenersEnd` claims nothing, but the others must end in spite of them. In
`Delivery` clients read, and also acknowledge what they were sent as
long as they stay connected: a session that is never acknowledged never
reads its next batch, by design. In `ReceiptStream` the publisher
reads its stream, or the fairness of writing would not hold. Nothing is assumed of connects, pushes, deletions, ends of
sessions or faults. In `Server`, of tasks and timers, but not of `shutdown.timeout`: the
question is whether shutdown needs it. Strong fairness only of the background loop's
stop: its `select!` polls its branches in random order, so work that is always due again
does not starve the shutdown branch. Clients outside `Stuck` read what they are sent once
the process stops; TLS handshakes end by `handshake_timeout`. In `AccessToken`, of every
send: requests end because the HTTP client has a timeout, and the mutex is first come first
served.

## What the runs show

A run checks the named conjunctions below; their parts are stated and commented on one
by one in the modules.

- *Store.* `StoreConsistent`: the topic index and the push index are exact
  (`TopicSlotsExact`, `PushResolves`), and receipts are queued only where a stream can
  find them (`QueuesOwned`). `OneOutcome`, `EndsAccountedFor`: acknowledgement, expiry,
  withdrawal and unsubscription that race for a message end with one outcome, and never
  with none. `SeqsIncrease`: receipts are queued in order.
- *Bigtable.* `ReceiptsExact`: the conditional deletion of the message row decides who
  settles a message (`OneReceipt`), and unless a call fails its receipt follows
  (`ReceiptsFollow`). `NewerMessagesStay`: that deletion spares the message that replaced
  another. `BigtableInv`: what is stored can be found by id, by the reaper (`IndexesLead`)
  and by push id (`ChannelsResolve`), whichever creates, replacements and deletes
  overlap; index rows that lead nowhere do remain, as the source says.
- *Hub.* `HubInv` (`HubTypeOK`, `SlotsHoldOpenListeners`), `OnlyOwnerEmptiesSlot`,
  `DetachedListenersEnd`, for clients that read, whatever others do. As a consequence the `Closed` arm of `Hub::notify` is never taken.
- *Delivery.* `DeliveryInv`: registering before reading the backlog, and storing before
  announcing, leave no gap, on one node and across nodes (`NothingMissed`); a session that has
  more of its backlog to read awaits an acknowledgement, after which it reads on (`AsksForMore`);
  and the current session is not told to go (`NewestNotReplaced`). `RouteKept`: takeovers leave the
  route with the right session. `SessionsServed`: they close the older one
  (`OlderSessionsEnd`), and whatever was lost, the next session delivers it
  (`Redelivered`), one batch after the other as `delivery_backlog` shows. `MailDelivered`:
  Delivery implements `Mail`. A message is held from its push until its own user agent
  acknowledges it, it is withdrawn, replaced or past its expiry, whatever is lost; and a
  connection is sent only what was announced to its user agent, or what it read while it was
  held for it and had not expired. `UnderWay` maps tasks, channels and batches to what is on
  its way, `Owners` the connections that are open to their user agents, and `asked` tells a removal
  that was asked for from a loss. An announcement is made by the push only, and a
  `Gone`, a cleanup or a crash can but lose one.
- *Receipts.* `ReceiptInv` (`NoReceiptForgotten`), `LeavesWhenWritten`, `BacklogDrains`,
  `DeletedStreamsEnd`.
- *Registration.* `RegistrationInv` (`PromisesKept`), `IdempotentRegister`,
  `DeletedUnreachable`, for a client that sends one request after the other.
- *Activity.* `ActiveKept`: a user agent that a session has stored, or found when it touched it, is
  not expired under it. `SilentClosed`.
- *Routes on Bigtable.* `RouteNamesLatest`: the row names the open connection that wrote it last and
  no cleanup removes it, although `set_route` is two requests, until a write meets one with a later
  time; which takes takeovers that overlap, or clocks that are out of step (below).
  `SupersededTold`: a superseded connection is told to close unless two takeovers
  overlapped, a write met one with a later time or something failed.
- *Server.* `PermitsInUse`: connections and the sessions that outlive them share the
  limit, and no permit is lost on any path. `ShutdownDrains`: everything but what a stuck
  client holds ends without the timeout, also the accept loop at its limit.
  `NothingCutShort`: when `run()` returns in time nothing is cut short, but for the
  upgrades that nobody counted (below).
- *Tokens.* `CredentialsLast`: the age of a token counts from before it was asked for, so
  it is valid to the end of the slowest request, Google's (`NeverLapses`) and Apple's
  (`WithinWindow`). `RefusedForgotten`: once `deliver()` returns to a send whose token was refused,
  that token is not handed out again; while it still is, every send that knows waits in
  `invalidate()`, or was dropped there (below).
  `CredentialsShared`: both caches implement `Credential` (`SharesRefresh`, `ReusesJwt`), a
  credential more only for a refusal. `SendsEnd`: nobody waits for the lock for ever.
- *Answers of the platforms.* `OnlyGoneDeleted` (`GoneIsGone` for FCM, `UnknownIsGone` for APNs).
- *Push requests.* `RestrictionHolds`. `PushDecided`: the answer is that of the first line of
  the documented table that applies (`AnsweredInOrder`), a refusal leaves nothing behind
  (`RefusedLeavesNothing`), a lifetime is kept up to its limits (`TtlKept`).
- *Content encoding.* `ReadAsSent` (`OnlyWhatWasSent`, `SentIsRead`). *Rows.* `RowsAsStored`.

### Findings

- `bigtable_seq`: `next_seq` is the clock in milliseconds times 1000, unique per
  process only, and all that tells the rows `rq#{rsub}#{seq}` of a queue apart.
  Receipts that two nodes queue for one receipt subscription in the same
  millisecond share a row: the second overwrites the first, which is never sent.
  `architecture.md:247` gives up only strict ordering across nodes for it.
- `delivery_stale_cleanup`: the drop of a `Listener` unregisters it and clears the
  route in a spawned task. A user agent that reconnects to the same node in
  between sets its route and loses it to that task, as both routes name the same
  node. `notify.rs:29-30` says that a stale cleanup never removes a newer route.
- `registration_race`: `subscription::register` looks a channel up and creates it
  in two calls. Two registers of one channel that overlap, such as a retry after
  a timeout, both create it and reply with different endpoints, of which one is
  dead. `subscription.rs:11-13` says registering again is idempotent.

### Further observations

Met while modelling, each reproduced by the change of constants or of the
property given here, and not among the runs:

- `App::notify` asks its own hub first and stops there if it finds a listener. With
  role `all` in a cluster a push may be accepted on the node of a superseded session
  that has not ended yet. The event goes to that session; the current one does not
  get the message until it reconnects, while `notify.rs:24-25` says every message is
  in the backlog or forwarded: `NothingMissed` in `delivery_cluster` with
  `EndpointNodes = ConnectNodes = Nodes`.
- `expire_after` "never removes an active session", says `architecture.md:161`. A session
  looks its user agent up (`session.rs:211`), then touches it (`218`), and does not look at
  whether the touch found it. When the sweep runs in between, the session takes its user agent for
  stored (`stored` is true) and it is gone, with either store: `ActiveKept` in
  `parts` without its `~orphaned`.
- A refused token is handed out again when the handler that learned of the refusal is
  dropped while it waits in `invalidate()` for the lock (`webpush-gcp-auth/src/lib.rs:256`,
  `webpush-fcm/src/lib.rs:185`): the token stays cached until another send is refused or it is due.
  `RefusedForgotten` in `parts` with `"dropped"` taken out of it.
- A route write counts by the clock of its writer, read before the request
  (`bigtable.rs:455-458`), and reads and predicates see the latest time (`281`, `472`). When two
  takeovers overlap, or a clock is behind, the row goes on to name the node that wrote before:
  events are forwarded there, and its `clear_route` deletes the row with the last writer's cell in
  it. A node removes a route that another had taken over, which `architecture.md:228` says the
  check of the latest version prevents:
  `RouteNamesLatest` in `parts` without its `overtaken`.
- A message of the backlog that is withdrawn, replaced or expires between the read of its batch
  (`session.rs:423`) and its own send (`425-427`), which may wait for the client to read the ones before it, is
  sent all the same:
  `[][\A id \in ListenerIds : session[id].stage = "sending" => session'[id].sent \ session[id].sent \subseteq Ids(Unexpired(RecipientOf(id), clock))]_vars`
  in `delivery_single`.
- An event carries its message. One that is withdrawn or replaced after it was announced, while its
  event is in a task or a channel, is sent all the same, although `endpoint.rs:356-357`
  says of a withdrawn message that it is not delivered afterwards:
  `[][\A id \in ListenerIds : session'[id].sent \ session[id].sent \subseteq Ids(messages)]_vars` in
  `delivery_single`. `Mail` therefore allows what was announced, or read, to be sent.
- A delayed `Gone` closes the newest session when the user agent has come back to
  the node it is sent to: `NewestNotReplaced` in `delivery_cluster` with three
  sessions and `Revisit = TRUE`.
- `App::notify` that found no local listener and then reads its own node as the
  route clears it, also when a stream has registered in between:
  `NoReceiptForgotten` in `receipts_faults` with two messages and no fault.
- A deletion handled on a node that holds an older stream does not reach the newer
  one elsewhere: `DeletedStreamsEnd` with two endpoint nodes and two streams.
- A stream and a `wait=0` read that overlap both write a receipt: `WrittenOnce`
  with a `wait=0` read.
- A push that used a replaced device token deletes the user agent although the new
  token works: `GoneTokensOnly` in `clients`.
- `expire_after` of less than six hours and a ping interval, which the
  configuration accepts, deletes a connected user agent: `ActiveKept` in
  `parts` with `ExpireAfter = 4`.
- An upgraded session is not counted between the end of its connection's task and
  axum's call of `track_future` (`session.rs:154-155`), while `shutdown.rs:14-15` says that
  waiting for the tracker waits for all: `NothingCutShort` in `parts` with
  `overlooked` taken out of it.

Read off the code:

- Apple's 403 drops the cached token only once the body with its reason is read (`webpush-apns/src/lib.rs:343-349`): a
  handler dropped before that, or a body that is lost, leaves it cached too.
- The 401 or 403 of a slow send drops whatever token is cached by then, also one that was
  fetched or signed since, so one revocation may cost several refreshes, and Apple
  sees two provider tokens within twenty minutes. `Credential` counts refusals, not
  revocations, for this reason.
- With an HTTP timeout above `REFRESH_MARGIN`, which the configuration accepts, a token can lapse on
  its way: `AccessAssumption` excludes it.
- The Bigtable store never invalidates a token that was refused (`bigtable.rs:169`).
- `ece::decrypt` returns `InvalidPadding`, not the documented `Truncated`
  (`ece.rs:217-219`, `228`), for a body cut between two records.
- FCM's 404 counts as a token that is gone whatever its error code.

On Bigtable, read off the code:

- `expire_user_agents` deletes what was stale when its scan read it, also a user
  agent that was seen since. The in-memory store does not.
- `enqueue_receipt` looks the receipt subscription up and writes the queue row in
  two requests; a receipt subscription deleted in between leaves a row behind that
  nothing reads or deletes.
- A call that fails after the message row is gone loses its receipt, and a push that
  fails between its rows leaves a message that cannot be acknowledged by id.

## Proofs

All are by an inductive invariant.

**MemoryStoreProofs**, from `TimesAssumption` and `NoneAssumption`. `StoreInv` adds
to the invariants of the run:
`MailApart` (a message is stored or handed out, with an id that was issued, and
never both), `QueueBounded` (queued receipts are settled ones, and no number is
beyond the counter) and `PushIndexed` (keys and push ids are unique and the index
leads from one to the other). None of `OneOutcome`, `PushResolves` and
`SeqsIncrease` is inductive without them: an arbitrary state could hold two
messages with one id, two subscriptions with one push id, or a receipt numbered
above the counter. The proof splits the store into the mail (messages, topics,
receipts) and the accounts (user agents, subscriptions); each action is shown to
keep each half, with lemmas for the removal of a set of messages, which
acknowledgement, reaping, unsubscription and deletion share. Theorems:
`TypeCorrect`, `TopicIndexExact`, `ReceiptsOwned` and `PushIdsResolve`, which together are
`MapsAgree`; `SettledOnce`; and of the actions `NoSilentEnd` and `ReceiptsInOrder`.

**HubProofs**, from `HubAssumption`. `HubInv` is the type invariant with
`SlotsHoldOpenListeners`, which needs it. Theorems: `HubInvariant`, with its parts `ChannelsBounded` and
`SlotsAreOpen`, and of the actions `SuccessorsStay`.

**BigtableProofs**, from `BigtableAssumption`, `NoneAssumption` and `RouteAssumption`, for any
number of nodes, user agents, rows, calls and failures. `BigtableInv` and `ReceiptsExact` speak of
rows and of the calls that are about to repair them, so the invariant has to say what a call
in the middle of its work knows: `StoreFits(g)`, where `g` is the message that an id
was drawn for.

- `WellFormed`: a call has read what its step needs.
- `RowsFit`, `OwingFits`, `EntriesFit`: an id stands for one message, which is in its own row or
  nowhere and has no receipt while it is there; an index row of the reaper names that row.
- `HoldsMail`: the same of what a call has read. When it deletes an index row of the reaper, the
  message is in no row.
- `Removes`, `OneRemover`: once a call has emptied a message row, the message is in no row, no
  receipt has been queued for it, and no other call is past that point with the same message.
  This is what the conditional mutation of `delete_message_row` buys, and from it `OneReceipt`.
- `ChannelsFit`, `OwnsPush`: a push id is drawn for one channel, so the push row that a
  deletion removes is not that of a channel that was created since.

None of the four parts of the two properties is inductive without these. `g` changes in one
step only, `insert_message`, for the id it draws. How a call goes on (`Goto`, the loops) is
proved once for all steps; `FitStays` and `CallsStay` say which changes of the rows leave what
the other calls know true, and each of the 30 actions then has a lemma of its own. Theorems:
`StoreInvariant`, `StoredIsFound`, `ReceiptsAreExact`, and of the actions `NewerMessagesKept`.

For the route rows `RouteInv`
adds to the two invariants of the run: `CleanupsEnded` (only ended connections are
cleaned up), `OneTakeover` (until takeovers overlap there is at most one under way),
`ReadIsLatest` (what that one has read is the connection it supersedes) and `InStep` (until takeovers
overlap or a clock is behind, a write under way is no earlier than any in the row). The
first gives `LatestRouteKept` as long as no write is overtaken: the node whose connection is
open is not being cleaned up. The last shows what it takes for one to be (`PutNames`). The other
two give `NoneLingers`, which is about what `set_route` read some steps before.

**NotifyProofs** holds what the next two share, from `NotifyAssumption`: every step of the hubs keeps
`HubInv` (`HubStep`, from `HubProofs`) and so does a crash; what registering, notifying, dropping a
listener and the tasks of `Notify` do to slots, channels and announcements.

**DeliveryProofs**, from `DeliveryAssumption`, `NotifyAssumption` and the assumptions of `MemoryStore`,
for any number of user agents, messages, nodes, connections and faults, any batch size and
channel capacity. Steps of delivery are steps of the store (`StepOfStore`) and, but for crashes,
of the hubs (`StepOfHub`), so `StoreInv` and `HubInv` are kept by what is proved of them alone.

- In every deployment: `BaseInv` adds what tasks announce, and to whom (`TaskFits`), what a session may
  have been sent, what is in its batch and its channel, and that while it has more of its backlog to read
  it awaits an acknowledgement or has some to send (`SessionFits`, with `ReadsOn`), and that the newest connection is
  past `listen()` (`NewestFits`). Theorems: `SessionsFit`, `StoreUsedAsAllowed`
  (delivery takes only the steps that `MemoryStore` has).
- Also in every deployment, `DeliveryIsMail`: a refinement, step by step. `store_and_notify` maps to
  `Accept`, withdrawal and `ack` to `Remove`, the reaper to `Expire`, `hello` to `Connect`,
  `next_batch` to `Fetch`, `send_stored` and an event taken from the channel to `Send`; ends, drops,
  crashes and tasks to `Lose`, which also covers the steps that change nothing `Mail` sees. What a task
  hands to a channel was under way before (`TaskIsMail`), what a channel holds was announced to
  its recipient (`EventIsMail`), what a batch is read from is held and not
  expired (`BatchIsMail`), and what is sent of it was in it (`SendIsMail`). An `ack` removes its own user
  agent's message only (`AckIsMail`). A step of `Mail` that takes out a message which is neither due nor replaced says in
  `asked` for whom, so a step of Delivery that loses one is no step of `Mail`. That exactly the message of the same topic is replaced needs
  `TopicSlotsExact` of the store (`AcceptReplaces`).
- `DeliveryInv` and `RouteKept` are false in some deployments (findings and observations
  above), and so have the hypothesis `Deployment`: a single node, or a
  cluster whose session nodes accept no pushes and to whose nodes a user agent does not come
  back; and clients that acknowledge with known codes only. (An unknown code leaves the message in the
  store and nothing to wait for. The next full batch may then be one that was all sent already, where
  the session stops reading its backlog.) The instances of the runs are such deployments.
  `DeliveryIInv` has two parts more. `ClusterInv`, in a cluster: what routes and forwards name are
  places of connections past `listen()` (`Leads`, `ForwardLeads`), `Gone` is forwarded only where the newest
  connection is not, a cleanup is about a connection that is out of its hub (`CleanupLate`), and the
  route names the newest connection (`NamesNewest`). `Fine`, of every
  connection: it is not told to go unless superseded (`Unreplaced`), what it was sent and
  is still stored awaits an acknowledgement (`Awaits`), and once it has read the last batch of its backlog it
  gets what is stored: it was sent, or is in the batch, the channel or a task (`Served`). `Awaits` is what makes `Served` inductive: it is why a
  full batch that was all sent already cannot occur, the case in which `next_batch` gives up.
  Theorems: `CurrentSessionServed`, `RouteOfCurrentKept`.

**ReceiptProofs**, from `ReceiptStreamAssumption`, `NotifyAssumption` and the assumptions of
`MemoryStore`, for any number of messages, receipt subscriptions, nodes, streams, `wait=0` reads and
faults.

- In every deployment: `BaseInv` is `StoreInv` and `HubInv` with what tasks announce, and to
  whom (`TaskFits`), what a reader reads and deletes (`ReaderFits`: its own queue, and only what
  was written), and a count that bounds the numbers of receipts by the messages there were
  (`Counted`), since only receipts among `Events` can be announced. That an announcement names
  every new receipt, in order, is `InOrderNamesAll`. Theorems: `StreamsFit` and of the actions
  `WrittenBeforeRemoved`.
- `NoReceiptForgotten` is false in a cluster (observations above), so `NoReceiptMissed` has the
  hypothesis `OneNode`: one node, and no cluster. There `ReceiptIInv` adds `Served`: a stream in its hub
  that has read the queue has written what is queued, or has it in its backlog or channel,
  or a task announces it. It says so of every stream that is still registered, not only of the newest. What keeps it
  is that a stream registers before it reads the queue, that a receipt is queued before it is announced,
  that a full channel costs the stream its slot, and that the only handler that can be dropped
  announces nothing but `Gone`.

**RegistrationProofs**, from `RegistrationAssumption` and the assumptions of `MemoryStore`, on top of
`MemoryStoreProofs`: `RegistrationIInv` is `StoreInv` with what a request under way has
read (`RequestsOK`): its user agent existed, and a push that is `late` has found it
gone. User agents that are gone stay gone, so a handler's position stays as good as
it was whatever the store does in between (`RequestsOutlive`). Theorems: `RegistrationInvariant` and
`DeletedStaysUnreachable` for any overlap of requests. That endpoints keep resolving is false
when the requests of one user agent overlap (`registration_race`); `PromisesKeptOneAtATime`
has the hypothesis `[]OneAtATime`, which allows any number of user agents, pushes and sweeps at once, and
`RegistrationCorrect` and `RegisterIdempotent` are its consequences for the `MaxClient = 1`
of the run.

**PartsProofs.** A step of `PartsSpec` is a step of each part or leaves it unchanged
(`PartsSteps`), so each part is proved by itself.

- *Server*, from `ServerAssumption`, for any finite set of clients. `PermitInv` adds to
  `PermitsInUse` who shares a permit (`SharedBy`): the connection's task while it is
  served, and the session from the upgrade to its end, so that the last of the two
  returns it exactly when neither is open any more. `TaskInv` says what `tasks` counts
  (`TasksCounted`: the accept loop, the background loop, connections, pumps, counted sessions,
  side tasks) and what is still open after the tracker was empty (`Drained`: only upgrades that
  were overlooked and what they spawn). Counting is by the cardinality of the sets of clients,
  each of which a step of one client changes by at most one (`ChangeCounted`). Theorems:
  `PermitsAccountedFor`, `ServerInvariant`, `ShutdownWaits`.
- *AccessToken*, from `AccessAssumption` (the timeout is within the margin, sends are finitely many).
  `AccessInv`: a token is valid for longer than the request that carries it can take, from the
  moment it is sent (`Timely`); who is in the queue of the lock (`QueuedInStages`), that it is
  the holder who fetches (`FetcherHolds`), and that refused tokens are those of sends that wait to drop
  them, have dropped them, or were dropped themselves (`RefusalsRemembered`). Theorems:
  `AccessInvariant`, `RefusedTokenForgotten`.
- *ProviderToken*, from `ProviderAssumption`. `ProviderInv`: the same for a token that is
  signed, not fetched (`InLifetime`, `SignedNewest`). Theorems: `ProviderInvariant`, and for both
  platforms `CredentialsOutlastRequests` and `DevicesDeletedWhenGone`.
- *Credential.* `RefusalsPay`, for any times: `EarlyRefused` is not inductive, since a state
  in which a credential was dropped and that satisfies it could mint one more.
  `Unspent` keeps the refusal that paid for it apart. `CachesAreCredentials`: both caches
  implement it. A fetch maps to a mint, which is early only if the cached token was
  dropped for a refusal; the rest stutter.
- *PushRequest*, from `PushAssumption` (how requests are typed). `PushInv` lists, for each step of the handler, the
  checks that have been passed and what has not happened yet. Theorems: `RestrictionEnforced`, `PushesDecided`.
- *Activity*, from `ActivityAssumption`. `ClocksInv` relates the clocks: the
  next ping is at most `Ping` after a moment at which the client had been heard
  and `last_seen` was recent enough; `touched` runs ahead of `last_seen` by at most
  `MaxSetup`, the longest from the first frame to the loop, because it is set when the loop
  begins. What it says of `last_seen` is about sessions that are not `orphaned`. From it
  `SilentSessionsClosed`, and `ActiveSessionsKept` under the assumption
  `ExpireAfter >= TouchInterval + Ping + MaxSetup`. The bound is tight: one less and
  TLC finds a counterexample.
- *CellChunks*, from `ChunkAssumption` (rows have cells, columns are distinct within a row). `ChunkInv`: the rows
  given out are those before the one that is being sent, and what was gathered of that one
  is what was sent since its last reset (`Partial`). Theorem: `RowsReadAsStored`.
- *ContentEncoding*, from `EncodingAssumption`, for messages, records and padding of any
  length. `EncodingInv`: there are places `ends` at which the message is cut into the data of
  the records (`Encoded`: each has its delimiter and all but the last fill `rs`), and places
  `cut` at which the octets on the wire are cut into sealed records (`Cuts`); the reader
  has read the message up to `ends[seq]`, and of a body that is as it was sent the octets
  from `cut[seq]` on are left. The next `rs` octets of those are the next sealed record
  (`NextRecord`), and opening it gives its data and delimiter (`OpenedRecord`). A body is put
  together by `FlattenSeq`, which is recursive: in place of an induction, for which no
  prover is at hand, `WholeIsCut` takes the least number of pieces for which it would
  fail (`LeastNumber`, from the well-foundedness of the finite sets below it). Theorem:
  `MessagesReadAsSent`.
- `PartsTypesKept` collects the types.

Only model-checked:

- `ReceiptInv` in a cluster: there it is false.
- `DeliveryInv` of a cluster to which user agents come back, or with role `all`: there it is false.
- Every liveness property (`DetachedListenersEnd`, `Redelivered`, `SessionsServed`,
  `BacklogDrains`, `DeletedStreamsEnd`, `ShutdownDrains`, `SendsEnd`), which is out of the
  prover's reach.

## Assumed of the outside

The HTTP client's timeout is within `REFRESH_MARGIN`. FCM answers 404 only for
a device it does not know and 401 only for a token that has lapsed or was revoked; APNs
answers 403 for its token only, and the reasons listed in `ForKnown` and `ForUnknown`. AES-GCM
and ES256 are ideal. A client has one request under way per connection.

## Not modelled

Configuration (its values are constants), telemetry and logging, wording of errors and
JSON. The store's contract tests, whose guarantees are properties here. Parsing of
WebSocket frames and their close codes. `/ready` and the other probes, CORS, the reload of
certificates, HTTP/2 multiplexing on one connection. Signing of assertions and provider
tokens. The device token column and the creation of tables on Bigtable, and a route write that
Bigtable applies long after its caller gave up on it; the cluster of
`Delivery` uses the in-memory store's atomic `set_route`, and `RouteRows` has what is
different on Bigtable.

Three hazards are not prevented by the code, and no property claims that they are: the
verdict on a replaced device token, a receipt lost when queueing it fails after the
message was deleted, and the sweep of a user agent that was seen since its row was read.

## Plan

Done: the modules above, each with its runs, and the proofs listed. Every safety property that a
passing run checks is stated by a theorem. What may come next:

1. The device token column on Bigtable, with the verdict on a replaced token.
2. `expire_user_agents` on Bigtable row by row, against `touch`.
