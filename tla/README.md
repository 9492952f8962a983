# A formal model of the Polymarket Python SDK

TLA+ modules, TLC configurations and TLAPS proofs for the parts of `src/src/polymarket` that keep
state over time. The SDK is an asyncio client library: most of its code is a request and a parsed
response, and what can go wrong there is visible in one call. What cannot be seen in one call is
in the streaming layer, the sessions, the caches and the transaction flows: tasks that interleave
at each `await`, sockets that vanish, retries that race the answer they gave up on. That is what
this project is about. `PROJECT.json` maps each definition to the lines it translates.

Paths below are relative to `src/src/polymarket/`.

## 1. Inventory

### 1.1 Streaming layer (modelled)

**Websocket connection** - `_internal/ws/connection.py`. `AsyncWebSocketConnection` is one
reconnectable websocket shared by several tasks.
- State: `_socket`, `_reader_task`, `_watchdog_task`, `_connecting` (a shared dial), `_closing` (a
  shared shutdown), the registered callbacks.
- Operations: `connect` (reuse, join a dial, replace a stale socket), `_open`, `close`/`_shutdown`,
  `_read_loop` with its finalizer, the watchdog, `send`.
- Hard: the reader's finalizer and `_shutdown` compete to claim the socket
  (`_claim_socket`), `connect` awaits `close`, `_shutdown` awaits the dial and the reader, and the
  caller holds a lock that others wait for.
- Correct when: no open websocket is forgotten; no circle of tasks awaiting each other;
  `on_connection_lost` is reported, or whoever silenced it takes over the reconnect.

**Stream managers** - `_internal/streams/clob/market.py`, `clob/user.py`, `rtds/manager.py`,
`perps/market.py`, `sports/manager.py`, with `registry.py`, `reconnect.py` and their protocols.
Many subscriptions share one socket.
- State: the registry (subscription, matcher, handle), `_send_lock`, `_closed`, the scheduler's
  single timer, and what the server has been asked to stream.
- Operations: `subscribe` (with its rollback), a handle's close callback, `_reconnect`,
  `_on_socket_connection_lost`, `close`.
- Hard: every operation awaits in the middle; the first frame on a fresh socket carries the whole
  state, later frames differences; `close()` does not take the lock; the user stream awaits
  credentials between the connect and its first frame.
- Correct when: an idle open socket streams exactly what the registry needs; registered streams
  always have a socket or somebody who is going to open one; a handle in a user's hands is
  registered or ended; `close()` leaves no open socket; every call returns.

**Subscription handle** - `_internal/streams/handle.py`. A bounded drop-oldest queue with an end
sentinel between a manager and one consumer.
- State: the queue, `_ended`, `_end_error`, `_dropped`, the shared close task.
- Hard: the sentinel needs room in a full queue, `close()` empties a queue that already holds one,
  the consumer may be waiting or not.
- Correct when: the queue keeps the newest events in order, the sentinel is last and is not lost,
  each loss is counted, the outcome is final, the consumer never waits on an ended handle.

**Merged handle** - `_internal/streams/merged_handle.py`. One pump task per child moves events into
a shared bounded queue; the first child error closes the rest.
- Correct when: the merged iteration ends exactly when all pumps have left, the first failure is
  raised and not masked, children keep their order, losses are counted.

**Realtime price streams** - `_internal/streams/realtime/` (session, socket, manager). One worker
task per session opens and authorizes the connection and sends one operation at a time.
- State: the keys with their listeners, acceptance future and `accepted` flag; the queue of
  coalesced operations; `_authenticated`, `_lost`, the idle timer, the shutdown task.
- Hard: keys are shared by handles that hold different sets of them; users add and remove keys while
  an operation is in flight; an operation may be refused in part; the connection may go at any await.
- Correct when: a worker with nothing to do has told the server everything; an answer accepts
  only the subscription it answers; a handle holds all of its keys or none; a failed reconnect ends
  no handle that has been given out; every subscribe ends; an unused session closes.

### 1.2 Sessions (modelled in part)

**Perps trading session** - `_internal/perps_session.py`. Commands, responses and account events of
one trading account over one reconnecting websocket.
- State: `_pending` (futures by request identifier), `_next_request_id`, `_closed`, the scheduler's
  timer, `_sequences` by channel, the bounded event queue with its sentinel, the event waiters.
- Operations: `open`, `_connect` (dial, authenticate, subscribe), `_reconnect`, `close`,
  `_send_request`, `_on_message`, `_on_socket_connection_lost`, `__anext__`, `place_order`,
  `cancel_orders` with its retries.
- Hard: each connection is authenticated and subscribed by two requests of its own, which are timed
  out, rejected and lost like any other; a late loss report rejects the requests of the next
  connection; `close()` and a reconnect share the connection's shutdown; an order's first update may
  precede the answer that accepts the order; a cancellation is retried for the orders in flight only.
- Correct when: a command is settled once and by its own response; an open session has a way back to
  a subscribed socket; nothing is pending after `close()`, and no socket open; no gap in the events is
  silent; `place_order` does not miss an early update; the report of `cancel_orders` is what the
  server decided.

**RFQ session** - `_internal/rfq.py`, `clients/async_secure.py` (`open_rfq_session`, `_close_rfq_session`).
One quoter session per client, shared by everyone who opens it.
- State: the client's three slots (`_rfq_session`, `_rfq_session_opening`, `_rfq_session_connecting`); the
  session's `_closed`, its authentication waiter and its queues of acknowledgement waiters.
- Hard: the opener, those who join it, losses and `close()` all write the slots after awaits;
  acknowledgements carry no request identifier and settle the oldest waiter.
- Correct when: the client has one live session at most and knows it; closing the client reaches
  every session; an acknowledgement goes to the quote it answers unless one has timed out before.

### 1.3 Caches and order flow (modelled in part)

**Order metadata cache** - `_internal/actions/orders/cache.py`. Single-flight loads for tasks and
for threads.
- State: `_values` with expiry, `_inflight`.
- Operations: `get` with and without `force`, the loads, `discard`, `close`.
- Correct when: concurrent misses share a load, and no load stores an older version over a newer one.

**Order placement** - `_internal/actions/orders/` (`limit.py`, `place.py`, `post.py`, `allowance.py`). Draft
from cached metadata, one forced refresh when the price is off the grid, post; after a rejection for
lack of allowance an approval transaction and one repost.
- Correct when: a retry follows its cause - an order is posted again only after its approval has
  been executed - and no retry repeats what may have taken place.

**Relayer and EOA transactions** - `_internal/actions/relayer/`, `_internal/eoa/`. Nonce, signature,
submission with retries for a busy wallet or a nonce left behind, polling to a terminal state.
- Hard: the answer to a submission may be lost; nonces go stale between the fetch and the submission;
  several orders of one wallet approve at once.
- Correct when: a transaction has one submission at most that may be executed.

### 1.4 Not modelled

- HTTP transport and rate-limit retry: one request, one response; the state is httpx's, and the retry
  repeats what the server refused before it did anything.
- The client classes (delegation; the state they do hold is modelled with its owner), stateless REST
  actions and their parsers, models and data frames, stream specifications: no behaviour over time.
- Signing: fixed encodings, covered by the repository's vectors.
- Order preparation (`orders/math.py`, `estimate.py`): decimal arithmetic without state. Its numbers have
  four to six decimals and its functions no order of events; the unit tests state the same facts.
- Combo RFQ: REST requests in one call whose state is its local variables.
- Session keys and authentication: a sequence of requests in one call.
- Pagination: the cursor is the state of one iterator in one task, and nothing is promised about
  pages that change while they are read.
- Sports stream manager: every socket streams everything, so there is no server state to compare;
  the rest of its control is the market manager's.
- Of the modelled parts: market orders and batches, cancellation over REST, the settlement wait and
  order heartbeats; the RFQ event queue; the perps builder receipts; the placement of
  realtime keys over several sessions (`_place`, `key_target`).

### 1.5 How they interact

A client creates a stream manager per stream family on first use and routes a specification to it.
`subscribe` returns a handle bound to the manager's `_on_handle_close`. The manager calls its
connection under the send lock; the connection calls back on messages and on loss, from the reader
task. The registry dispatches each event to the handles that match, synchronously. A merged handle
consumes child handles, possibly of different managers. The caches and sessions are used by the
secure client's order and perps operations over the same HTTP transport.

The hazards - what is hard to test, at the line where it bites, with the properties that cover it -
are in `PROJECT.json`; those without properties say why.

## 2. The modules

| module | models | remarks |
|---|---|---|
| `WsConnection` | `ws/connection.py` | state and steps; used by `StreamManager` |
| `StreamManager` | `streams/clob/market.py`, `clob/user.py`, `registry.py`, `reconnect.py` | composes the connection with the manager |
| `MCStreamManager` | | instance for TLC |
| `DropOldestQueue` | the queue of both handles | operators |
| `SubscriptionHandle` | `streams/handle.py` | implements `EventStream` |
| `EventStream` | | abstract specification: what a handle promises its consumer |
| `MergedHandle` | `streams/merged_handle.py` | |
| `RealtimeSession`, `MCRealtimeSession` | `streams/realtime/` | one session, its connection and its handles |
| `RequestTable` | | abstract specification: what a caller of `_send_request` is promised |
| `PerpsSession` | `perps_session.py`: connections, requests, close | extends `WsConnection`, implements `RequestTable` |
| `PerpsAccount` | `perps_session.py`: events, `place_order`, `cancel_orders` | |
| `RfqClient`, `MCRfqClient` | `rfq.py`, RFQ slots of `clients/async_secure.py` | |
| `OrderMetadata` | `orders/cache.py` | state and steps; used by `OrderPlacement` |
| `WalletTransactions` | `relayer/`, `eoa/broadcast.py` | state and steps; used by `OrderPlacement` |
| `OrderPlacement`, `MCOrderPlacement` | `orders/limit.py`, `place.py`, `post.py`, `allowance.py` | composes the cache and the wallet with the orders |
| `SubscriptionHandle_proofs`, `MergedHandle_proofs`, `StreamManager_proofs`, `RealtimeSession_proofs`, `PerpsSession_proofs`, `PerpsAccount_proofs`, `RfqClient_proofs`, `OrderPlacement_proofs` | | TLAPS proofs, each about the module it is named after |

A task of the event loop runs without interruption from one `await` to the next, so an action is
the code between two awaits, or the whole call when nothing in it waits. Definitions keep the
code's names. A definition commented "Mutant" is not part of the specification: it is a plausible
mistake in the definition below it, kept to show that the properties notice it.

### 2.1 WsConnection

`current` is `_socket`, `readerTask` is `_reader_task`, `dial` is `_connecting` (`redial` when the
caller found a stale socket first), `shutdown` is `_closing`: created, or past its claim. `sock` and
`reader` are the state of each websocket object and of its `_read_loop`; `call` is what each caller
awaits. `ConnectStale` and `ConnectDial` are the first step of `connect`, `DialOk` and `DialFail` the
end of `_open` together with what its callers do before their next await, `ShutdownClaim` and
`ShutdownDone` the two halves of `_shutdown`, `ReaderClaims`, `ReaderReportsLoss` and `ReaderLeaves`
the `finally` clause of `_read_loop`. `LoseSocket` is the peer, the network, or the watchdog
closing a stale socket. Time (backoff, timeouts, heartbeats) is nondeterminism. A heartbeat's
`start` neither waits nor fails here, because whoever claimed the previous socket took its timer
before its first await; so `_open` runs on after the handshake and does not reach `_abort_open`.

### 2.2 StreamManager

The connection has two callers: whoever holds the send lock, and the manager's `close()`. `lock`
and `waiting` are the FIFO `asyncio.Lock`; a task is a subscribe, a handle's close or a reconnect.
`RunSubscribe`, `RunClose` and `RunReconnect` are the first step of each under the lock, taken at
once when the lock is free or by `Acquire` later. `SubscribeDialed`/`Fails`, `ReconnectDialed`/`Fails`
continue when the dial ends, `...Resolved`/`Unresolved` when the credentials arrive, `CloseReturns`
when the shutdown ends. `ManagerClose` and `ManagerEndsHandles` are the two steps of `close()`;
`timer` is the scheduler's slot, `TimerFires` the end of its delay, `ConnectionLost` the callback.
`served` is what the server streams on the current socket: an initial frame sets it, differences
change it, a new socket empties it. `auth` tells the user stream from the market stream; the RTDS
and perps market managers follow the market manager step for step.

Abstractions: a subscription is a set of topics (a market, a token, a channel; the
`custom_feature_enabled` flag acts like one more topic); a frame reaches the server when it is sent,
and one lost in flight is lost with its socket; `send` does not wait. Not modelled: the user
stream's subscription to all markets; cancellation of a `subscribe()` by its caller; direct use of
a bare connection by other callers; two tasks iterating one handle.
`phase = "failed"` is set when the rollback ends the handle; when the rollback also closes the
connection, the exception reaches the user only after that.

`Hazards` names three events that `subscribe()` does not survive (section 5). A configuration
explores one of them or none: the passing run leaves them out so that everything else is checked
in states the code handles, the violation runs let one happen.

### 2.3 SubscriptionHandle, EventStream

`Push`, `End`, `Close`/`CloseEnds`, `Anext`/`Get` are `_push`, `_end`, `close` up to and after
`on_close`, and `__anext__` up to and after `queue.get()`. Events are numbered. `last`, `delivered`,
`discarded` and `outcome` are what the consumer and an observer see. `EventStream` has no queue:
events in order, at most once, never one that `Size` newer events have overtaken, then one outcome.

### 2.4 MergedHandle

A child is its queue, how it ended and whether its `close()` is complete; `PumpMoves`, `PumpEnds`,
`PumpCancelled` are the pump's loop, its end and its cancellation; `Close`, `ChildCloses`,
`CancelPumps`, `CloseEnds` are `_do_close`. `lag` counts what the pumps moved and the consumer has
not received; `moved` and `childDropped` do the same for a child's queue. `DroppedCountsLosses` speaks of
both queues: what a child accepted is queued, moved on or in its `dropped`, until its `close()` empties the
queue without counting. `OutcomeIsFinal` includes `firstError`, which the code reads again at
each further call. `close()` called by the failing pump is the creation of the shared task, as in the
code, so the pump itself never waits for it.

### 2.5 RealtimeSession

A `_KeyState` object is a key with the listener whose `add()` created it (`creator`), which is
enough to tell a key from the same key added again, because a listener adds its keys once. `listeners`,
`ready` and `accepted` are its fields; `awaits` and `raised` are the futures a `subscribe()` gathers.
`pc` is what the worker awaits: the wake event, a recovery (at the head of the loop, after which it
goes on, or elsewhere, after which it starts over), the handshake, the answer to the authorization or
to a change, or the pause before an operation. `LoopHead` is what it does without awaiting at the
head of its loop; it has priority over every other step. `Opened`/`OpenFails`,
`Authorized`/`AuthorizationRejected`, `PauseEnds`, `Changed`/`ChangeRefused`/`RequestFails` continue
after each await. `ConnectionLost` is `_disconnected`, with the close codes that end the session told
apart from the others. `ShutdownBegins` cancels the worker wherever it is, `ShutdownEnds` is the rest.

The server is external. It applies any part of an operation and answers with the items it refused,
or refuses the request whatever part took effect. Answers that arrive and are not yet handled are a
state of their own (`reply`), so a loss can come in between; an answer after the timeout meets a
request that is gone, and the timeout closes the connection. One operation is one request:
`change()` cuts a large one into several, each of which the server may apply or refuse, which is
what the partial answers stand for. `ManagerCloses` closes the handles and the session in one
step; closes one by one are the users' own.

### 2.6 PerpsSession, RequestTable

The connection of section 2.1 with other callers: the connectors, tasks that run `_connect()` for
`open()` (the slot `Opener`) or for a reconnect, and the task of `close()`. `task` is where each
`_connect()` stands. A request belongs to its owner, a connector or a user's command; `req` is its
future as the owner sees it (`doomed` is one rejected while it is still being sent), `id` its key in
`_pending`. `StartRequest` is `_send_request` up to its first await, `Send` the write under the send
lock, `Response` is `_handle_response`, `TimesOut` the request's timeout, `Rejected` is `_reject_pending`.
`BeginClose`, `TimerCancelled`, `RejectAndClose` and `CloseReturns` are the parts of `close()` between its
awaits: the scheduler's `aclose()` awaits only a timer that is running. `wire` holds a frame from its
sending until its answer is read; `subscribed` is the server's side of the subscription. `answered` is
what `RequestTable` adds: that the response to this very command has been read.

### 2.7 PerpsAccount

One sequenced channel and what depends on it. The connection is reduced to down, open, or
acknowledged, because section 2.6 has the rest. An event is its sequence number; one that is
skipped, lost or does not parse (`EventMissed`) is a gap. `WithGap` is
`_push_sequence_gap_if_needed`, `Reconnected` the resync at the end of `_connect(emit_resync=True)`, which
forgets the last number. `placing` and `waiter` are `place_order()` and its event waiter, `cancelling`
and `remaining` are `_cancel_orders_with_retry`: `pending`, a list in ascending order of its indexes, is the
set of them, and `Position` is where a place stands in the list; `verdict` is what the server has decided on each place,
told or not. A loss in the middle of an attempt leaves the server free to have acted.

### 2.8 RfqClient

A session is also the task that opens it: `stage` is `RfqQuoterSession.open`, `sock` the socket as
section 2.1 shows it, `releasing` says that a `close()` awaits it. `OpenReuses`, `OpenJoins`, `OpenCreates` are
the three ways into `_open_rfq_session()`, `OwnerResumes` and `JoinerResumes` what follows its await.
`CloseBegins` to `CloseEnds` are `_close_rfq_session`: the sessions it holds, then the one being opened, then
those that came in the meantime. `waiters` is the queue of acknowledgement futures, `sent` what the
server has not acknowledged; `ackOf` records which quote's acknowledgement settled which quote. All
quotes answer the same RFQ, since each RFQ has a queue of its own.

### 2.9 OrderMetadata, WalletTransactions, OrderPlacement

`OrderMetadata` has one market, whose versions the server publishes one after the other, some of
them without the asset. `Hit` and `Miss` are the two ways through `get`, `LoadStores` and `LoadFails` the end
of a load, `Told` the return to a caller that waited for one. `Returned` is what `_resolve_market` does with
the value in either case: a market without the asset is discarded, whatever the cache holds by then. A hit
can find such a market between the end of its load and the return to the task that asked for it.
`newest` is kept by the model only: the newest version ever cached, which `MetadataNeverOlder` compares
with what is cached now, so that a discard or a `close()` in between hides no older version.
Steps run from one await to the next, as in the asynchronous cache; threads share loads in the same way
under the lock of theirs. Only the asynchronous cache cancels its loads on `close`. The map from assets to
markets is the same cache without expiry, and finds again what a discard forgets.

`WalletTransactions` is the life of one transaction per order. `FetchNonce`, `Accepted`, `Deferred`, `Mismatched`,
`Lost` are the outcomes of the requests in `submit_gasless_with_retry` and of the corrected nonce of
deposit wallets; for an EOA, those of `broadcast_eoa_call`. `Lost` is a submission without a usable
answer, which may have been taken. `WaitReturns` is the poll's end, in time or not. The relayer, the
node and the chain are external: a relayer takes one transaction of a wallet at a time, a node those
that are next in nonce order, and a transaction with a used but pending nonce replaces the other.

`OrderPlacement` gives each order a `stage` in `place_limit_order()`. The price of an order lies on the grid
of the market as it is when the user places it (`ticks`), so a cached version may refuse it. `AllowanceRead`
to `Tell` are `_approve_order_if_under_allowance`; `clobSees` is what the CLOB's allowance cache holds.

## 3. Runs

| run | checks |
|---|---|
| `stream_manager` | two overlapping subscriptions, market and user stream, two lost sockets, one failed dial or lookup: no socket leaks, the server's state follows the registry, nobody is stranded, forgotten or waits in a circle, `close()` is complete, streams end up served, every call returns |
| `redial_failure`, `credential_failure`, `late_subscribe` | one property each, which the code violates (section 5) |
| `subscription_handle` | every order of pushes, ends, a close and a consumer on a queue of three; it implements `EventStream` |
| `merged_handle` | two children, pumps, consumer and close in every order: the stream ends with its pumps, keeps its outcome, masks no failure, keeps each child's order, and counts every loss in either queue |
| `realtime_session` | two handles that share a key, lost connections, refused and partly refused operations, failed handshakes and authorizations, closes in every order: the server streams the keys in use, answers are not mistaken, handles are whole, every subscribe ends, an unused session closes |
| `perps_session` | one command, `open()`, reconnects, losses and `close()`: never stranded, nothing pending after close, every command settled by its own answer or an error, and settled in the end (`RequestTable`) |
| `perps_close` | one property, which the code violates (section 5) |
| `perps_account` | a slow consumer on a connection that comes and goes, one order and one cancellation with retries: gaps are noticed, early updates are not missed, the report is true |
| `rfq_client` | users open, share and close sessions, quotes time out, the client is closed: one live session, none survives, acknowledgements in order |
| `order_placement` | two orders on one wallet while the market changes and requests fail: what is cached is the newest version ever cached, one approval each, a repost follows its approval |

Only `realtime_session` checks its type invariant, which includes the link between keys and listeners; the
types of the other modules are proved (`TypeCorrect`, section 4).

Bounds, and why they are enough:
- Three sockets: one being finalized by its reader, one claimed by a shutdown, one open. A
  websocket object is reused when it is dead, so they bound the sockets alive at once, not over time.
- Two handles, `{t1}` and `{t1, t2}`: closing either leaves a topic the other needs, and each
  subscribe can find the other one registered, waiting, or in its rollback.
- `MaxLosses = 2`, `MaxFailures = 1`: a loss during the recovery from a loss, and a failed attempt
  in it. Both bounds are on what the environment does; they let the liveness properties assume that
  failures stop.
- `QueueSize = 3`, `MaxEvents = 6` for the handle: the queue overflows by more than its length,
  before and after the sentinel needs room. The proofs hold for every capacity, 1 included.
- Merged: child queues of 1, merged queue of 2, two events per child: both queues overflow, and the
  last pump finds the merged queue full.
- Realtime session: keys `a` and `b`, handles for `{a}` and `{a, b}`. Either can create `a`, leave, and
  find it created again by the other while an operation on it is queued or in flight; a rejection of
  `b` ends a handle of `a` and leaves the other. Two losses and two failures: a failure in the
  recovery from a loss, twice.
- Perps session: two sockets (one being finalized, one dialed) and two connectors, because a late
  loss report starts a reconnect next to one under way or next to `open()`; six identifiers are three
  handshakes, or two and the command. Two losses: one during the recovery from the other.
- Perps account: a queue of two and four events, so that a gap, its resync and the event after it do
  not fit; one reconnect, which may replace a live connection; two places to cancel and three
  attempts, so that the second attempt can be about the second place only and the third about it again.
- RFQ client: three users (an opener, one who joins it, one who comes later), two sessions, one
  fault, which is a failed dial or authentication, a loss or a protocol failure. Three quotes, because
  a time-out shifts the acknowledgements of all that follow, and the second shift is not caused by
  a time-out any more. Users and quotes are symmetric.
- Order placement: two orders, which compete for the nonce and join each other's loads; three
  versions, the second without the asset, so that a discard and a refresh meet; three loads; three
  attempts, which allow a retry after a retry (the code has eleven). Orders are symmetric.

Six runs do not check deadlock (with their variants for section 5): a closed manager, session or
client, a settled order or a cancellation that has returned has nothing left to do. The handles'
runs do: a consumer can always ask again.

Fairness. The event loop runs every task that can run, so each step of a task that is not waiting
is weakly fair; weak fairness suffices because nobody else can take such a step away for good. A
closing socket is closed within `close_timeout`. Users, peers and the network owe nothing: no
fairness on `Subscribe`, `CloseHandle`, `ManagerClose`, `Push`, `End`, `Close` or a loss. The
consumers of the handles are assumed to keep iterating, which is what `EndIsObserved` and
`FailureSurfaces` are about. A dial ends, one way or the other, within `open_timeout`; the bound on
failures means that finally one succeeds. The server of the realtime session answers in the end, unless
the connection is lost or the request times out, which counts as a failure; `SubscribesEnd` does not
rely on the acceptance timeout of `subscribe()` itself. In the perps session every request has its
timeout, so `CommandsSettle` needs nothing of the server. The runs for the perps account, the RFQ client and
the orders check safety only and state no fairness.

## 4. What is proved

TLAPS checks these for every value of the constants: any set of handles, topics and sockets, any
capacity, any bound.

`SubscriptionHandle_proofs`: `TypeCorrect`, `CapacityRespected`, `NewestKept`, `LossesCounted`,
`NeverStuck`, `OutcomeFinal` and `PromiseKept` (the handle implements `EventStream`). The inductive
invariant `IInv` describes the queue completely: the newest events in a row, the sentinel last and
only when the stream is over, the counters adding up, the last delivered event below the first
queued one, and a finished consumer with nothing but a sentinel in the queue. Each is needed: an
event that follows the sentinel would be delivered after the end, and the refinement needs
to know that the delivered event is among the newest.

`MergedHandle_proofs`, for any children and any sizes of the two queues:
- `TypeCorrect`: no `put_nowait` of a child, of a pump or of `close()` meets a full queue.
- `EndsWithPumps`, `NoErrorMasked`: `ChildInv` says that a child whose sentinel is queued, or whose pump
  has left, has ended, unless `close()` runs; that without an error nothing but such an end makes a
  pump leave; and that an error begins `close()` in the same step.
- `LossesCounted`, in both queues: `LossInv` adds that after `close()` nothing but the sentinel is queued, `ChildLossInv`
  that a child's sentinel is the last item of its queue.
- `OutcomeFinal`: `OutcomeInv` says that once the consumer has seen the end, every pump has left, nothing
  but a sentinel is queued, and the outcome is the one the first error gives.
- `OrderKept`: `OrderInv` puts the events of a child in one line: delivered ones before those in the
  merged queue, and these before those the child still holds, whatever either queue drops.

`StreamManager_proofs`:
- `TypeCorrect`.
- `NoSocketLeaks`: the only open websocket is the current one. Needs `DialInv`: a dial belongs to the
  lock holder, and neither a dial nor the shutdown `connect` awaits goes on while a socket is open;
  and `HolderInv`: nobody is on the connection while the lock is free.
- `NoHandleForgotten`: `LifeInv` says what the holder has done to its handle (`LockInv`), that a task
  in the queue has done nothing yet, and that a handle has at most one task (`WaitsInv`).
- `WaitsEnd`: `NobodyWaitsInVain`, which the run checks too, the safety half of `CallsReturn`, with all the events of section 5
  allowed. `TaskInv` gives every call that has not returned a place in the line for the lock; `BusyInv`,
  with `DialInv` and `CallInv`, has the holder await credentials, a dial or a shutdown that is there;
  `ReaderInv` and `DrainInv` have a shutdown past its claim await a socket that is closing and a reader
  about to leave. What is left for liveness is that each of these ends, which is the fairness of section 3.
- `ServerKnows`: `FrameInv` says that `subscribe`'s local copy of the state is still the registry's when
  it is sent, and that a holder which closes the socket leaves no stream; with `ShutInv`, while the
  manager is open only the holder shuts the connection down.
- `StreamsNotStranded`: `DutyInv` names who has the duty to reconnect for the streams that rely on
  it: the current socket's reader, the timer, a finalizer, a queued or running `_reconnect()`, or a
  `subscribe()` that replaces a stale socket. `Recovering`, the checked property, is weaker and not
  inductive: it accepts any holder of the lock.
- `CloseIsComplete`: `CloseInv` says that a closed manager has no `subscribe()` that is yet to dial, that
  the shutdown of `close()` awaits one that dials, and that afterwards only a `_reconnect()` may open
  a socket, which it closes.

The last three each assume that the corresponding event of section 5 does not occur
(`"credentials"`, `"redial"` or `"late"` not in `Hazards`); each holds whether or not the other two
occur. In this model nothing but these three events breaks the three properties.

`OrderPlacement_proofs`, for any orders, versions, loads, attempts and wallet:
- `TypeCorrect`: an order is accepted once at most, submissions keep to their attempts.
- `MetadataMonotone`: what is cached is the newest version ever cached. `SingleFlight` says why: one load
  at most can still answer, the one callers may join, and its answer is no older than any version cached before.
- `ApprovedOnce`: no order has two approvals that may be executed. `WalletInv` says where in its
  submission an order can have a transaction (`NoneBefore`, `OneEach`).
- `RepostAfterApproval`: needs that a handle is confirmed only when its own transaction was executed
  (`ConfirmedIsExecuted`) and that the stages of an order follow its transaction (`StageInv`).

`RealtimeSession_proofs`, for any keys, handles, losses and failures:
- `TypeCorrect`.
- `HandlesWhole`: `HandleInv` is the converse as well - who listens to a key is active and wants it - and
  says that no state kept anywhere belongs to a handle that has not come yet.
- `LiveSurvive`: `AcceptedInv` says that a handle which awaits nothing more had all its keys accepted, and
  that an acceptance lasts while an active handle wants the key.
- `AcceptedServed`, `ServerFollows`: `QueueInv` describes all that is under way for a key in `Track`: the
  operation being answered and the queued ones, in their order. A ready key has nothing under way; one
  that waits is asked for, and nothing about it comes after that; the last word about a key that is gone
  is to drop it; and a key is dropped before it is asked for again. A lemma says what each kind of
  change does to `Track` (an operation queued, sent, applied in part, or answered), and each step is
  composed of those. `FlightInv` relates the answer under way to what the server streams. Coalescing
  adjacent operations of one kind, and an unsubscribe of a key that was refused as well, are covered.
- `CloseComplete`.

`PerpsSession_proofs`:
- `TypeCorrect`, `CloseLeavesNothing`.
- `NeverLost`: `NeverStranded` for any losses, time-outs and late answers. It is not inductive: a
  connector whose subscription has been accepted only has to return, so it assures nothing any more.
  `DutyInv` counts a connector only until then, and needs `IdsAreOwn` (the answer that ends the
  duty is the acceptance on the current socket) and `CallInv` (a dial and, before `close()` reaches the
  connection, a shutdown are awaited by a connector that goes on).
- `AnswersAreOwn`: the session implements the safety part of `RequestTable`, that is, a command is
  settled once, and returns an answer only after the response to this very command has been read.
  `IdsAreOwn` is the invariant: identifiers are not used again, so a frame on the wire that has the
  identifier of a request under way is the request's own.

`PerpsAccount_proofs`, for any size of the queue, events, reconnects, places and attempts. Its three parts
have an invariant each, because the events, the order and the cancellation share the connection only:
- `GapsAreNoticed`: what is queued is `Sound` - neighbours in the queue are neighbours in the stream or
  have a resync between them, and the first item follows the last one taken unless the consumer has been
  warned - and `EndMatches` ties its far end to `previous`, the number the next event is compared with. The
  latter makes it inductive: a gap may open behind an empty queue, and a put that needs room drops the
  resync itself, which the dropped count then gives away. `SoundPut` is the lemma about one put.
- `UpdatesAreSeen`: from before the order is sent until its answer is handled the waiter is there, and once
  an update has been read it does not wait any more (`PlaceInv`).
- `CancelReportsTruth`: `CancelInv` says that from the second attempt on every place has a result, and
  that a failed attempt leaves only the places it asked for in doubt. `PositionLemma` says that each
  place of an attempt has a position in its answer.
- `TypeCorrect`, from all three.

`RfqClient_proofs`, for any users, sessions, quotes and faults:
- `TypeCorrect`.
- `OneSession`: `OpenerInv`: until the client is closed a session being opened belongs to one owner, no
  other session is held meanwhile, and a user that waits for a `close()` has called it - so a late callback
  clears nothing but its own slot.
- `CloseIsComplete`: `ReachInv` says that what `close()` has yet to close is in its list, or is the session
  being opened, which it awaits; `ReleaseInv` that a closed session has lost its connection or is
  releasing it; `StartedInv` that nobody is given a session that has not begun, so that a step of its
  opening cannot undo a close.
- `AcksInOrder`: `QueueInv` says that the waiters of a session are its unacknowledged quotes that still
  wait, in the order in which they were sent, and that none is left once the connection is gone or the
  session closed. `OneSentInv` keeps a quote to one session, and `AckInv` says that the acknowledgement
  of a quote that is still unacknowledged has settled nothing. The oldest waiter is then behind the quote
  acknowledged only if that quote no longer waits: it has timed out, or was settled by an earlier one.

Constants are assumed to be what their named assumptions say: bounds are natural numbers, queues have
room for one item, a realtime handle wants at least one key, the sentinel's `NoChild` is no child, the callers of the connection are its tasks, and the senders are the orders.

Only model-checked: liveness (`EventuallyServed`, `CallsReturn`, `EndIsObserved`, `FailureSurfaces`,
`SubscribesEnd`, `UnusedSessionsClose` and the liveness of `RequestTable`), which needs fairness and is out
of the prover's reach. Every invariant and every action property that a passing run checks has a theorem.
Induction over data and `ENABLED` are out of the prover's reach as well; none of the modules uses a
recursive operator.

## 5. Findings

1. `redial_failure` (`clob/market.py:108`). A socket is lost, its reader has not finished,
   `subscribe()` finds it stale and closes it, which silences `on_connection_lost`; the dial that
   follows fails. The rollback removes only the new handle. The streams registered before have no
   socket, no timer and nobody who will reconnect, until another `subscribe()` succeeds.
2. `credential_failure` (`clob/user.py:105`). The lookup of credentials fails after a fresh connect
   while other streams are registered: the socket stays open without its initial frame, the pending
   reconnect has been cancelled, later subscribes send only differences. `_reconnect()` handles the
   same failure by closing the socket and rescheduling.
3. `late_subscribe` (`clob/market.py:71`). `subscribe()` checks `_closed` before it awaits the lock and
   never again; one that waits while `close()` runs opens a socket on the closed manager.
   `_reconnect()` has the guard `subscribe()` lacks.

4. `perps_close` (`perps_session.py:1589`). A reconnect attempt looks at `_closed` before it connects. One
   that finds a stale socket awaits the shutdown that `close()` awaits, then dials: its authentication
   fails because the session is closed, but the socket stays open and nobody closes it.

Smaller observations, which no document of the repository contradicts:
- `PerpsSession._end` evicts an event to make room for the sentinel without counting it, and a consumer
  that asks again after the end waits for ever; `NoSilentGap` is about sessions that have not ended.
- A forced refresh of the metadata may join a load that began before it was asked for; the order is
  then refused although the market has what it needs.
- `_approve_order_if_under_allowance` finds that the allowance suffices by now, because another order's
  approval was faster, and the first rejection is raised without a repost.
- An RFQ session that is lost between the end of its opening and the next step of those who wait for
  it is handed out closed. When the client is closed at that moment, the opener gets an error, but
  those who joined still get the closed session.
- After the time-out of a quote the acknowledgement that comes late settles the next quote, and that
  quote's own the one after it: `AckIsInOrder` allows for that.
- Two transactions of one EOA that fetch the same nonce: the second replaces the first, whose wait
  times out.

## 6. What is left

Worth modelling next: the settlement wait and the order heartbeats; the placement of
realtime keys over several sessions, composed with `RealtimeSession` if its state space allows; the
RFQ event queue. Worth proving next: the same as `WaitsEnd` for
the connectors of `PerpsSession`; for `RealtimeSession`, the safety half of `SubscribesEnd`, that an
acceptance a `subscribe()` awaits always has a worker that will settle it.
