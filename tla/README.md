# A TLA+ model of DecentChat's messaging core

DecentChat is a peer-to-peer chat: browser, mobile and bot clients hold every
message themselves, connect to each other over WebRTC, and have to end up with the
same conversations although peers come and go and nobody else keeps a copy. This
directory models the parts of the client that make that true: the connections
between two peers, the handshakes that give them a session, the Double Ratchet, the
outbox, the delivery of messages with its receipts, the message store, set
reconciliation, and the scheduling of message syncs. Each is a TLA+ module with
configurations for TLC, and each has theorems that TLAPS checks for every value of
the constants.

Paths below are relative to `src/`. `CC` is
`decent-client-web/src/app/ChatController.ts`, which wires the packages together
and holds most of the protocol logic.

## 1. Inventory

| Component | State it keeps | Operations | Hard because |
|---|---|---|---|
| PeerTransport | per remote peer: the registered connection, the connect() in progress, reconnect timer, quarantine, heartbeat | connect, accept, open, close, error, reconnect, disconnect | both sides connect at once; attempts, timers and events outlive what they were about |
| Session handshakes (CC, `MessageProtocol`) | readyPeers, handshakeInFlight, ratchetStates, sharedSecrets, one DH key pair | handshake, reply, encrypt, decrypt, restore | both sides begin; a handler outlives its connection; a page restarts and its peer does not |
| Double Ratchet | chains, counters, skipped keys | initAlice, initBob, encrypt, decrypt | awaits between read and write, lost and late messages |
| OfflineQueue and its flush (CC) | rows with attempts and backoff in IndexedDB, flush in flight, timers | enqueue, flush, markAttempt, acknowledge, expire | read, await, write, by several callers; a flush outlives its connection |
| Delivery (CC; OfflineQueue, CustodyStore, ReceiptProtocol, MessageDedup) | sender: messages with status and receipt lists, in memory and saved; outbox rows; recipient: store, saved messages, ids seen | send loops, flush, retry, receive, acknowledge, read receipt, relay | lost and duplicated messages, restarts on both sides, two copies handled at once, receipts racing the send loop |
| MessageStore, HashChain (`decent-protocol`) | per channel an array and a set of ids | createMessage, addMessage, importMessages, forceAdd, bulkAdd, remap, trim, prepend, clear | three of them read, await a digest, and go on with what they read |
| Negentropy (`decent-protocol/src/crdt`) | the items of one build, nothing between queries on the responder's side | reconcile, processQuery | the responder's store changes between rounds; the peers may order a message differently |
| Message sync scheduling (CC) | messageSyncInFlight, _globalSyncLock, lastMessageSyncRequestAt, pendingNegentropyQueries, inbound queue per peer | requestMessageSync and its callers, query and answer handlers, connect, disconnect | promises that outlive connections, answers behind the handler that waits for them, cooldowns |
| Message sync content (CC) | the stores above | message-sync-request, -response, fetch | merges what peers send into store, CRDT and disk |
| MessageCRDT, VectorClock | vector clock and messages per channel | create, add, merge, sort, trim | causal order across peers, restarts |
| CustodyStore | envelopes other peers keep for an absent one | store, hand over, expire | read, await, write |
| ManifestStore, SyncManifest | versions, deltas, snapshots per workspace | author, apply, restore | two authors, restore while deltas arrive |
| WorkspaceManager, SyncProtocol, workspace deltas | members, roles, channels | join, update, remap | concurrent edits |
| Directory, presence, discovery, history paging | pages, shards, subscriptions | paged requests | stale pages |
| ChunkedTransfer, RateLimiter, ClockSync, pre-keys | counters and windows | send, consume, probe, rotate | limits and timeouts |
| Identity, keys, ciphers, invites, contacts, media, storage | keys, encodings, IndexedDB | | cryptography, encodings and I/O: little a state machine adds |
| User interfaces, mobile client, bots, company simulation | views, agents | | front ends over the same packages |

`PROJECT.json` lists every component with its sources and what is modelled of it,
and every hazard with its line and the properties that would catch it.

How they interact: PeerTransport tells CC when a peer connects or disconnects and
runs one inbound handler per peer at a time. A connect begins with handshakes, which
make the peer ready; a ready peer gets the outbox, then a sync. The send loop, the
retry, the flush and the relays encrypt with the one session of the peer. The
delivery and sync code calls `MessageStore` asynchronously and from several inbound
queues at a time, so that the store's awaits interleave; a handler may await a sync
whose answers come through the same queue. A sync builds a Negentropy from the store
and reconciles it with the peer; what it fetches goes back into the store. Receipts
travel as messages and change the status of the sender's copies, which are also what
the retry looks at.

## 2. Plan

Order: what every other part rests on first. Done: `MessageStore`,
`MessageDelivery`, `Negentropy`, `SyncScheduler`, `DoubleRatchet`, `OfflineQueue`
with the abstract `Outbox` it implements, `Session`, `PeerTransport`.

Left, in this order:

1. `MessageSync`: what a sync writes into store, CRDT and disk; the timestamp
   fallback. Composes `MessageStore`'s operations with the result of `Negentropy`.
2. `MessageCRDT` and `VectorClock`: causality is never reversed, merges converge.
3. `ManifestStore` and `WorkspaceSync`: two authors of a version, hydration, roles.
4. History paging, and the small ones: rate limiter, chunked transfer, clock
   synchronisation, presence.

Abstract specifications still worth stating: a reliable channel (a message accepted
from the sender is held by every recipient at most once, and is displayed as
delivered only when it is held), implemented by `MessageDelivery`; a set union,
implemented by a reconciliation followed by the fetch; a lock, to measure the sync
lock against.

## 3. Modules

| Module | Models | Proofs |
|---|---|---|
| `MessageStore` | MessageStore.ts and HashChain.ts | `MessageStoreProofs` |
| `MessageDelivery` | send, outbox, retry, receive, receipts, relay | `MessageDeliveryProofs` |
| `Negentropy` | Negentropy.ts as CC uses it | `NegentropyProofs` |
| `SyncScheduler` | requestMessageSync, its callers, the inbound queues | `SyncSchedulerProofs` |
| `DoubleRatchet` | DoubleRatchet.ts as MessageProtocol.ts drives it | `DoubleRatchetProofs` |
| `Outbox` | nothing of the code: what an outbox promises | |
| `OfflineQueue` | OfflineQueue.ts over IndexedDB, flushOfflineQueue and receipts of CC | `OfflineQueueProofs` |
| `Session` | the handshakes of CC and MessageProtocol.ts | `SessionProofs` |
| `PeerTransport` | PeerTransport.ts between two peers | `PeerTransportProofs` |

Each has an `MC` module with symmetry sets and constant values for TLC. An operator
whose comment begins with "Mutant:", or that `PROJECT.json` lists under "mutants", is
no part of a specification: it is the definition that follows it with a plausible
mistake, used to make sure that the properties notice.

### MessageStore

`channels` and `channelIdSets` are the two Maps. A `Caller` is an asynchronous call
between two awaits: `call[d]` holds exactly the local variables that the code uses
after the await, among them whether the array it took from the Map is still the
one in the Map (`attached`). `BeginAdd` is addMessage up to its await and
`AddFinish` the rest, with every check that precedes and follows; createMessage and
importMessages are split likewise. The synchronous operations are one action each,
their sorts and filters included (`SortedByTime`, `Filtered`: bijections onto the
positions kept, in order). `forceAdd`'s binary search is modelled by the positions it can
return on the array it gets. SHA-256 is injective: a hash is the list of the
(id, timestamp) pairs it commits to. `Overlap = FALSE` makes callers wait for one
another, as the code's comments assume; `TRUE` is what the inbound queues do.

### MessageDelivery

One conversation, one writer. `log` and `saved` are the writer's copies in memory
and in IndexedDB, with status and receipt lists; `todo` and `sending` are its send
loops; `queue` the outbox; `flush` and `retry` the two replays, each working on a
snapshot. For a recipient `mem`, `disk`, `seen` (multiDeviceDedup), `gossiped` and
`viewed`; `lane[<<from, r>>]` is the handler of what one peer sends it, with a
program counter per await. `net` is FIFO per connection and loses a suffix when the
connection is lost. `Direct` selects direct conversations, whose path differs in
the places marked in the module. `Busy` says that others write to the conversation,
which makes addMessage's verdict on the previous hash nondeterministic.

### Negentropy

`local` are the initiator's items, read once; `remote` is the responder's store,
which grows and loses its oldest items between rounds. A range carries the set of
items that its fingerprint stands for. `Round` is one pass of reconcile's loop:
`processQuery` of the current remote store, then the initiator's bookkeeping. `steady` and
`ever` are history variables for the properties.

### SyncScheduler

A `Task` is one run of requestMessageSync's `runOnce`. Its phase is the await it
is in: `waiting` for the lock, `asking` and `again` for the two reconciliations,
`backoff` between them, `grace` after a timestamp request, `ending` before its
finally blocks. `query` says whether it has a pending query and whether the answer is
on its way. A promise is the task that will settle it, so that `lock` and a
handler's `awaits` hold tasks. `conn` numbers the connections of a peer; each has an
inbound queue of its own, handled in order, and the queue of a lost connection is
still worked off. Times are ages that saturate at the longest interval compared with.
`Resuming` expresses that continuations of settled promises (microtasks) run before
the next timer or message is handled, where the code depends on it.

### DoubleRatchet

`state[p]` is a peer's RatchetState with symbolic keys: a root key is the list of DH
outputs mixed into it, a chain or message key its root and a number. encrypt and
decrypt are split at their awaits; `encrypting` and `decrypting` hold the locals.
`net` is a set: messages come in any order, late, never, or (`MaxCopies`) twice.
Skipped keys are kept in the Map's order and pruned as `storeSkippedKey` does.
`Overlap` says whether two encryptions for the peer may be in progress at once, which
nothing in CC prevents.

### Outbox and OfflineQueue

`rows` are the outbox rows of one recipient in IndexedDB, numbered by the key
generator; every transaction of enqueue, getQueued, removeBatch, markAttempt and
acknowledgeByMessageId is a step. A `Flusher` is a run of `flushOfflineQueue` with
its await as `pc`; one that outlives its connection is an `orphan`. A `Receiver` is
a receipt being applied. `post`, `scheduled`, `retries` and `cool` are the triggers
and the cooldown. `Outbox` is the abstract promise, and `OfflineQueue` implements it:
what is taken is `DOMAIN written`, held are `DOMAIN rows`, handed over `sent`.

### Session

An end `<<p, q>>` is what p keeps for q: `session` in memory and `disk` in the
store, each known by the two DH keys its first root comes from; `legacy` the static
secret; `ready`, `inFlight` and `cool` the marks of CC. `key[p]` is
`ratchetDHKeyPair`, one for all ends of p. The handler of a handshake is `HelloTaken`,
`Look`, `Derive`, `Store`, `Finish`, one per await. Each end has a live worker and a
lost one, which goes on with what the previous connection left in its inbound queue.
`clean` is a history variable: nothing of an earlier connection was left when the end
opened, and no message from the outbox has come since.

### PeerTransport

A slot of `conn` is a DataConnection of PeerJS with its offer (`phase`) and its two
ends. `entry` is the `connections` Map, `loop` the connect() in progress by the await
it is in (`signal`, `attempt`, `delay`), `timer` `_reconnectTimers`. `Setup` is
`_setupConnection` with its comparison of crossing connections; `Opens`, `Closes` and
`IceFails` are the three event handlers; `Attempt`, `AttemptFails` and `DelayOver` the
loop of connect(). `app` is what onConnect and onDisconnect tell the client.
PeerJS and WebRTC are external, and modelled from how the code uses them: an end closed
before it opened makes no event, a failure of ICE makes an error event, and a refused
offer no event at all at the caller.

## 4. What the checks show

Passing runs; every property has a mutant in `PROJECT.json` that it detects.

| Run | Instance | Properties |
|---|---|---|
| transport | 2 peers, 3 connection slots, 1 retry, 1 fault, fairness | the app knows what is connected; an open end is the registered one; no connection replaces another without a disconnect between; peers connect again unless a dead connection blocks them |
| session | 2 peers, 2 connections, 1 message, 1 end with a lost handler, fairness | two ready peers of a clean connection have matching sessions; what is sent in it opens; both ends become ready |
| ratchet_serial | Alice sends 3, Bob 5, MAX_SKIP 1, 1 copy, one encryption at a time | no key serves two messages; what a peer holds opens nothing past; a late message opens |
| outbox | 1 message, 2 rows, 2 runs of the flush, 1 receipt handler, 2 attempts, 2 faults, fairness | the type invariant; one flush per connection; `OfflineQueue` implements `Outbox`; a refused row is sent again |
| store_serial | 2 channels, 2 ids, 3 times, arrays of 2, one call at a time | everything `validateInvariants` asserts; an accepted message is stored; it extends the chain |
| delivery_channel | 1 message, 1 recipient, quiet channel, 3 faults, 3 replays | an acknowledged message is on disk; a lost copy is in the outbox or will be retried; a held message is acknowledged again |
| delivery_gossip | 1 message, 2 recipients that relay, busy, 1 fault | a message is stored once; the status shown is backed by receipts |
| delivery_direct | 2 direct messages, busy, 1 fault | a lost copy is in the outbox or will be retried, with no other recipient to relay it |
| negentropy_result | 5 ids, one of them at either end, threshold 1, 2 parts, 2 changes, 6 rounds | needs are missing and complete, excess is complete and is nothing the responder holds at the same place, the rounds never run out |
| sync_tasks | 1 peer, 2 connections, 2 tasks, 2 queries, fairness | `InFlightIsRunning`, `SingleFlight`, `WaitsForHolder`, `AnswerIsPending`; every sync ends (`SyncEnds`), also through a disconnect and when its answers wait behind the handler that awaits it |

Violations: what a comment of the repository says and the code does not do. The
lines and quotations are in `PROJECT.json`, `findings`.

| Run | What happens |
|---|---|
| session_queued | a message encrypted while the peer was away cannot be opened: the first handshake of the next connection clears the session it was encrypted with |
| transport_reconnect | after the last attempt of connect() its closed connection stays registered: later attempts return at once, the reconnect timer stops, the peer with the lower id refuses the other's calls |

Further configurations, each of which checks one property that TLC finds violated.
They show why the passing runs assume what they assume.

| Configuration | Property | What happens |
|---|---|---|
| `MCMessageStoreReplay.cfg` | `NoDuplicateIds` | two overlapping addMessage calls store one id twice (MessageStore.ts:100, "keep insertions replay-safe") |
| `MCMessageDeliveryRejected.cfg` | `AckedIsPersisted` | a message the store rejected because the channel grew meanwhile is acknowledged when its next copy comes (CC 2495; DEP-005: "After successfully receiving, decrypting, and persisting") |
| `MCMessageDeliveryStatus.cfg` | `StatusNeverRegresses` | a message already read goes back to sent when its send loop ends (CC 6629) |
| `MCSyncSchedulerLock.cfg` | `OneSyncAtATime` | two syncs run at once under the global lock (CC 10310; CC 352: "only one full message sync runs at a time") |
| `MCSyncSchedulerPeriodic.cfg` | `PeriodicSync` | the periodic sync never runs: the sweep stamps the time that the request then finds too recent (CC 5815) |
| `MCOfflineQueueFailed.cfg` | `FailedIsRetried` | the one flush after a failed attempt comes inside the row's backoff, and no other is scheduled (CC 11359, "Retry pending queue shortly while peer remains ready") |
| `MCDoubleRatchetOverlap.cfg` | `UniqueKeys` | two overlapping encryptions use one message key (DoubleRatchet.ts:132) |
| `MCSessionReconnect.cfg` | `ReconnectAgrees` | a handshake of a lost connection, handled after the disconnect, marks the peer ready with a session of its own; the handshake of the next connection then finds it ready and clears nothing (CC 1765, "the next handshake WILL go through the full clear + init path") |

What the passing runs assume or leave open; the first three can be seen by changing
the constant named in a configuration:

- With `Overlap = TRUE` (and two callers) `AcceptedExtendsChain` fails: addMessage
  verifies against the last message it read before its await (MessageStore.ts:122). So
  does `AcceptedIsStored`: importMessages, remapChannel and clearChannel put
  another array into the Map while addMessage waits (MessageStore.ts:141).
- With two recipients `LostCopyIsResent` fails: the status of a group message counts
  the recipients online at send time, and the retry skips what is delivered (CC 11125).
- With `Direct = TRUE` `HeldIsAckedAgain` fails: a direct message already in
  the seen-cache is dropped (CC 2200) before the check that would acknowledge it (CC 2224).
- `Session` with `Link <- Fork` (one peer is Bob to two others) violates
  `SessionsAgree`: the one `ratchetDHKeyPair` is cleared by the session that consumes it
  first, and the other handshake that named it gets a session without a key pair.
- `ExcessIsMissing` speaks of messages held under the same key. A message whose
  timestamp the receiver moved (CC 2446) may be pushed to a responder that has it.
- `ReconnectsUnlessBlocked` exempts exactly the state of transport_reconnect: a dead
  connecting entry with no attempt in progress, at the lower id, or inbound at the
  higher. It says that each peer connects again and again, and no more: that both are
  connected at once from some time on would not hold, since an adversary may let each
  peer's connection open just when the other has lost its own.
- The sweep, and a sync of a lost connection that gets the lock late, set the throttle of a
  peer that has just connected (CC 5815, CC 10317): its first request is then skipped.

Bounds. Two ids, two channels and arrays of two are enough for every
check of the store that compares two entries or two channels; three times order
any two messages and leave one between. In the delivery module a fault is a lost
connection, a restart, an expired row or a sweep: three of them, with three
replays, cover each pair of them around a replay and the loss of the replay itself. Two
recipients are the smallest number with a relay. Five ids with two parts and threshold 1 give
splits of splits, and two changes a message that comes and one that goes. Two
sync tasks are a holder and a waiter, and a second connection gives a task that outlives its
own. Eight ratchet messages with MAX_SKIP 1 fill the skipped keys of a
peer, prune them, and cross several DH steps. Two runs of the flush are the one of a
lost connection and the one of the next; two rows are a row and the one that overtakes
it; two faults are a failure and what interferes with its repair. In `Session` the
second connection meets what the first left, and one end at a time is left with
handlers of the first (`MaxLost`); a longer history adds only older keys, which are
compared for equality. The cooldown of handshake replies is assumed longer than the
handshakes of a connection take. In `PeerTransport` a crossing takes two
connections and the next attempt a third; the client configures one retry; one fault
is enough to lose any connection, attempt, page or signalling server at any moment, and
what follows from it (closes, timeouts of hopeless attempts, quarantines) costs nothing.

`CHECK_DEADLOCK FALSE` is set where the modelled activity ends: a reconciliation is
over after its last round, and the bounds on faults, replays, connections, rows,
messages, array lengths and times stop the others. The sync scheduler always has a clock
tick, the transport always a maintenance call, and both are checked for deadlock.

Fairness. All of it is the JavaScript event loop and its timers; nothing is
assumed of the users or of what peers answer.

- `SyncScheduler`: timers fire (`Tick`, the timeouts in `TaskStep`, `HeavySync`, the
  `Maintenance` sweep), settled promises run their continuations (`TaskStep`), and
  the inbound queue's next handler runs when the one before returned (`Handle`). Peers
  may answer, reject or stay silent.
- `OfflineQueue`: IndexedDB transactions complete, timers fire, cooldown and backoff
  end. Connections, encryption and receipts are not forced.
- `Session`: some handler goes on as long as one can (`Handle`). No connection, message
  or restart is forced; `EventuallyReady` holds until the connection is lost.
- `PeerTransport`: offers arrive or are lost, a connection whose other end is closed
  fails, hopeless attempts time out, delays and quarantines end, the signalling server comes
  back (CC's and the transport's retries go on forever), and reconnect timer or
  periodic maintenance run; maintenance leaves a peer alone whose timer is set. The faults
  are finite, as any claim that peers meet again has to assume.

## 5. What is proved

All by TLAPS, for every value of the constants that satisfies the module's
assumption (finite sets, naturals, `None` outside the sets it is added to), and, in
the bounded modules, for every bound.

- **PeerTransportProofs.** `TypeCorrect`, `AppKnows`, `NoOrphans`, `NotReplaced`. One
  invariant `Inv` of three parts: `Core` has the types of connections and entries (an
  end is open only after its offer has arrived) with the two properties; `LoopOK`
  says that an attempt waits for a connection that is not open yet, which is why its
  timeout closes nothing the app uses; `RestOK` the other types. Every
  step keeps, loses or gains the open connection of a peer (`Keep`, `Lose`, `Gains`),
  and `NotReplaced` follows since none of the three changes one open
  connection into another.
- **SessionProofs.** `TypeCorrect`; `SettledAgree` and `MessagesOpen` under `OneLower`:
  no peer is Bob to two others. Without it both fail (`Fork`). The
  inductive invariant describes each end alone (`EndOK`: how far its handler is, what
  its key pair is named in, what the wire may carry), and both ends of a cleanly
  opened connection together (`Matched`): there is one key of Bob, which every handshake
  and message on either wire names, and either end has, will derive, or has
  still to be told it. It is needed since the two sides clear, derive and reply in any order.
- **DoubleRatchetProofs.** `TypeCorrect` for overlapping calls too; `KeysAreUnique` and
  `PastIsSecret` when encryptions wait for one another. `Safe` says that the roots of a
  peer alternate, that what was sent lies before the sending chain key, and that
  skipped keys and receiving chain lie beyond what was opened.
  `LateAreOpened`, under the same condition: a message opens whenever it comes, unless more than
  MAX_SKIP of those before it are missing. `Safe` compares the keys of one peer and does
  not say that the two derive the same ones; `Aligned` does. All root keys of a session are
  beginnings of one list (`RootOf`), so that key pair and number in a header tell the key
  of the message; the messages of a chain are numbered without a gap, up to the
  `previousCount` the next chain announces; neither peer is more than one key pair ahead of what the
  other has been told; and a message behind the recipient is opened or has its
  slot among the skipped keys. So a call that throws would pass over more than MAX_SKIP messages, none of
  them opened, all sent before (`ManyMissing`). `Aligned` holds until the first doubled
  message or pruned key (`overrun`), which the property excepts.
- **OfflineQueueProofs.** `TypeCorrect`; `OneFlush`; and `Refinement`, that `OfflineQueue`
  implements `Outbox`. The invariant says what a run or a receipt may have read before its
  await: a copy whose attempts never exceed the failures there have been, and ids to be
  removed only when they are sent, acknowledged or exhausted (`FlushOK`, `ReceiptOK`).
- **MessageStoreProofs.** `TypeCorrect`. `SerialStoreValid`: if calls wait for one
  another, the store satisfies `validateInvariants` forever. The invariant is not
  inductive alone: what a call remembers across its await must still agree with the
  store. `SerialInv` adds that at most one call is in progress, that its array is
  attached, and that the message it checked against is still the last. The same invariant gives
  `SerialAcceptedIsStored` and `SerialAcceptedExtendsChain`: the push goes to the array in
  the Map, behind the message that was compared. The lemmas
  before it say what sorting, filtering, joining, splitting and inserting do to an
  array with distinct ids in time order.
- **MessageDeliveryProofs.** `TypeCorrect`. `MessageStoredOnce`: with any number of
  recipients, relays, faults and replays no recipient stores a message twice; the
  invariant says that an id is marked as seen from before its addMessage until
  it is held, so that at most one lane adds it (`AddingIsMarked`, `OneAdder`).
  `StatusIsJustified`: a status is backed by receipts. `DirectAckIsPersisted`: in
  direct conversations an acknowledgment implies persistence; it needs that a
  message in memory is saved or being saved (`HeldIsSaved`), and that a handler
  never acknowledges unsaved what another is still saving (`UnsavedIsOnDisk`), since a
  direct conversation has one handler. `DirectLostCopyIsResent` follows: what the
  receipts say is true of the disks (`ArrivedInv`), so a status of delivered or read,
  which would end the retries, is never that of a lost copy. `QuietAckIsPersisted` and
  `QuietLostCopyIsResent` say the same of a channel of two to which nobody else
  writes; there a message may be found seen but not held, and `QuietInv` shows that it
  was relayed, hence saved: what is seen is in the array, since addMessage rejects nothing.
  `ChannelHeldIsAckedAgain`, in channels of any size, busy or not: the one way a
  handler ends without an acknowledgment is a rejected message, and that is not held.
- **NegentropyProofs.** `TypeCorrect`, and the four results: nothing is missed,
  nothing is asked in vain, nothing is kept back, nothing is pushed back, for any stores, keys, threshold, number of
  parts and changes. `ResultInv` says that every steady item of the responder and every
  local item is already accounted for or lies in a range still to be asked about; `RoundSplits`
  and `RoundKeepsCover` carry it through a round. `SplittingEnds`: if the id space has at
  most `SplitBuckets^(MaxRounds - 1 - MaxChanges)` ids, MAX_ROUNDS never cuts a reconciliation
  short (the code's 16 parts and 24 rounds leave room for any store). What the responder
  holds of one part of a split range is at most a `SplitBuckets`-th of what it holds of the range, rounded
  up (`PartIsSmaller`), and a change between two rounds undoes at most one of them: the invariant
  `Shrinking` bounds every range by a power of the rounds left (`Spare`). The powers are
  a parameter given by its recursion.
- **SyncSchedulerProofs.** `TypeCorrect`, `InFlightCorrect`, `FlightCorrect`,
  `LockCorrect` and `AnswersCorrect`, from one invariant in three parts. `FlightPart` adds to the two
  properties that a busy task of the current connection is the one
  messageSyncInFlight names, which is why a new task never meets one; `LockPart` that
  the lock's holder runs; `QueuePart` that only a task with a pending query has an
  answer queued, and no two answers are for the same query, which is why handling one
  leaves no stale one behind.

Every invariant and action property of the passing runs is stated by a theorem. Only
model-checked are the liveness properties `SyncEnds`, `RefusedIsRetried`,
`EventuallyReady` and `ReconnectsUnlessBlocked`: liveness and ENABLED are outside what
TLAPS proves.

## 6. What is left out

- Cryptography: encryption fails or succeeds, hashes do not collide, keys are symbols.
- In delivery: custodians that are not members, manual resend, the outboxes of
  relaying recipients, the loss of a receipt inside a relay, backoff and attempt
  counters (a row may expire at any time, and a flush may skip it; `OfflineQueue` has
  them), the eviction of the oldest of
  10000 remembered ids. Writing a message is one step, and so is collecting the
  candidates of a retry. Outbox rows for one recipient and message are one element of a set.
- In the outbox: `listQueued`, and the direct removals of the bots.
- In the ratchet: serialisation, an identity on what the model keeps. In the sessions:
  the pre-key bootstrap, peers of protocol version 1, a send that is refused and tried
  again; createHandshake, which awaits nothing that others change, is one step.
- In the transport: a second signalling server, the retry of an attempt that PeerJS
  refuses as disconnected, pings and ICE restarts (the heartbeat may give up at any
  time), the back-off of the signalling reconnect. send() marks a peer as disconnected
  when its connection is no longer open; PeerJS emits the close event before that is
  so, and the case has no action. The app is assumed to want the peer: which peers of a
  partial mesh it connects to is not modelled. `reinitializeTransportIfStuck` is, and
  does not end the state of transport_reconnect, since it needs a lost signalling server.
- In the scheduler: what a sync does to the stores, and which errors are shown; a
  reconciliation is a number of queries.
- Steps without an await in them are atomic, as they are in JavaScript.

### Not modelled

The components that `PROJECT.json` lists as not_modelled, each with its reason. Most
of the repository's lines are outside the messaging core: user interfaces, bots that
repeat the client's handling over the same packages, a generated bundle, word lists,
agent templates. That is why the share of the lines the models stand for is small. Of
the core itself, the contents of a sync, the CRDT, the manifest and the workspace
protocol come next (section 2).
