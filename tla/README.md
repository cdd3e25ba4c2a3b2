# Verification of the QuantAxis market data gateway

TLA+ modules, TLC configurations and TLAPS proofs for the market data gateway
in `src/`: a C++ server that subscribes to quotes at CTP fronts through a pool
of connections and hands them to WebSocket clients. Every definition is
translated from the code; line references are to `src/src/`.

Run everything from this directory:

    tlc -workers 2 -config MCCTPConnection.cfg MCCTPConnection
    tlapm SubscriptionDispatcher_proofs.tla

`PROJECT.json` lists the runs, the mutants every property was tried against,
the source lines of every definition, the hazards and the findings.

## 1. The system

| part | state it keeps | operations | called by |
|---|---|---|---|
| `CTPConnection` (`ctp_connection_manager.cpp`) | `status_`, `subscribed_instruments_`, `error_count_`, heartbeat, quality, the CTP API object | `start`, `stop`, `restart`, `subscribe_instrument`, `unsubscribe_instrument`, the callbacks `On...` | dispatcher, health thread, its own CTP thread |
| `CTPConnectionManager` (same file) | the connections | start/stop all, available connections, health check every 30 s | server, dispatcher, its timer thread |
| `SubscriptionDispatcher` | `global_subscriptions_`, `session_subscriptions_`, `connection_subscriptions_`, `retry_queue_` | `add_subscription`, `remove_subscription`, `remove_all_subscriptions_for_session`, failure and recovery of connections, the answers of CTP, maintenance every minute | server (io thread), connections, its timer thread |
| `MarketDataServer` quotes (`market_data_server.cpp`) | `market_data_cache_`, `session_last_sent_json_`, `pending_peek_sessions_`, `instrument_subscribers_` | cache a quote, `peek_message` (long poll with differences), wake pending sessions | connections' threads, sessions |
| `MarketDataServer` lifecycle | `sessions_`, `is_running_`, the io thread | `start`, `stop`, accept, remove a session | `main`, sessions |
| `WebSocketSession` | `subscriptions_`, the write queue | read loop, requests, `send_message` | io thread, connections' threads |
| `MarketDataSpi` | one CTP API object (compatibility mode) | as `CTPConnection`, without restart | its CTP thread |
| `RedisClient` | a blocking connection | set, get, publish | connections' threads |
| `MultiCTPConfig`, `main`, shared memory | configuration, process, instrument table | read once | - |

**How they interact.** A client's request runs on the io thread:
`WebSocketSession::handle_message` → `MarketDataServer::subscribe_instrument` →
`SubscriptionDispatcher::add_subscription` →
`CTPConnection::subscribe_instrument` → CTP. The answer comes back on the
thread of that connection's API object: `OnRspSubMarketData` →
`on_subscription_success/failed`. Quotes come on the same thread and go to
Redis, to the cache and to the sessions that wait. Losing a session calls
`handle_connection_failure` from the callback; logging in calls
`handle_connection_recovery`. Two timer threads (dispatcher maintenance,
connection health) act on the same state.

**Threads**: one io thread, one CTP thread for each connection, two timers,
main. **Locks**: `subscriptions_mutex_`, the dispatcher's `sessions_mutex_`,
`retry_queue_mutex_`, `api_mutex_` of each connection, and the server's own
five; `status_` is atomic and read without a lock nearly everywhere.

**What is hard here.** A connection is chosen, then used, and its status and its
set of instruments may change in between. Answers are late: the entry they are
for may have been removed, failed, migrated or made anew. A front session ends
at any moment and takes unanswered requests with it. `stop()` and the callbacks
of the same connection overlap. Failover holds one mutex while the statuses it
decides on change. Sessions leave one instrument at a time. Retries and expiry
work on copies. A peek races with the quote it waits for.

**What makes the parts correct.** Pool: no connection exceeds its limit, what
is recorded is what was asked of CTP, a connection that fails comes back.
Dispatcher: an entry lives exactly as long as somebody wants it; the tables
under different mutexes agree; only the last session's leaving costs the others
nothing; failover works on fresh data; every handler returns. Long poll:
no quote is missed, the client's picture is the cache's. Sessions: messages
leave in order and none is left behind, one writer at a time, an open session is
listened to, a destroyed one is forgotten. Single connection: requests follow
the login, and what is streamed is what is wanted. Both modes promise the
sessions the same, which `SubscriptionService` states.

## 2. Modules

| module | is | extends / instantiates |
|---|---|---|
| `CTPConnection` | the pool: class `CTPConnection`, the manager's restarts, and the CTP API and front as external actors | - |
| `SubscriptionDispatcher` | the dispatcher's tables, threads and handlers, on top of the pool | `Pool == INSTANCE CTPConnection` |
| `SubscriptionService` | what the gateway promises about subscriptions, without threads, requests or answers | - |
| `SingleConnection` | the compatibility mode: one API object, `MarketDataSpi`, no dispatcher | `Service == INSTANCE SubscriptionService` |
| `QuoteMirror` | what the long poll promises a client, without saying how | - |
| `LongPoll` | quotes from the callback threads to the clients: cache, peeks, differences, pending sessions | `Mirror == INSTANCE QuoteMirror` |
| `SessionServer` | accepting, the read loop and write queue of each session, the session table, `stop()` | - |
| `MCCTPConnection`, `MCSubscriptionDispatcher`, `MCLongPoll`, `MCSessionServer`, `MCSingleConnection` | the bounds, fault budget, fairness and symmetry for TLC | EXTENDS the above |
| `CTPConnection_proofs`, `SubscriptionDispatcher_proofs`, `LongPoll_proofs`, `SessionServer_proofs`, `SingleConnection_proofs` | the theorems about each component | EXTENDS the above, `TLAPS` |
| `DispatcherUndisturbed_proofs` | the dispatcher while nothing fails that carries something: records, streams, requests in progress | EXTENDS `SubscriptionDispatcher_proofs` |
| `SubscriptionService_proofs` | what the promised service itself guarantees | EXTENDS `SubscriptionService`, `TLAPS` |
| `DispatcherService_proofs` | the dispatcher implements the service, and what it promises a session that the service cannot say | EXTENDS `SubscriptionDispatcher_proofs` |

`SubscriptionDispatcher` also has `Service == INSTANCE SubscriptionService`.
The modules meet as the parts of the program do. `SubscriptionDispatcher` runs on
`CTPConnection`, with its variables. `LongPoll` and `SessionServer` show two
sides of the same threads: for `LongPoll` a session is what it subscribes and
has been sent, for `SessionServer` a peek is a message, a place among the
pending or nothing, and what counts is the life of the session.

### CTPConnection

`status` and `subscribed` are the members of the same name. `front` is the CTP
API object with its TCP session and login (`none` = `ctp_api_` is null),
`requests` the requests of the session that the front has not answered (it
answers in order), `feed` what it streams; these three are external.
`restarting` is the program counter of `restart()` on the health thread:
`chosen` (status read), `stopping` (in `stop()`, status written, `api_mutex_`
held, `Release()` not returned), `stopped` (the two-second sleep), then
`start()`. This is where the code is not atomic: a callback may run between any
two of these steps, and the model lets it.

`SubscribeInstrument(c, i, ok)` and `UnsubscribeInstrument(c, i)` are one step
each because the code holds `api_mutex_` from the first test to the last
update; a caller waits while `stop()` has the mutex. `ok` is the value
returned. A call that reaches a null API object ends the process; in the model
that step does not exist. The dispatcher's runs therefore allow deadlock.

Abstracted: `error_count_`, `connection_quality_` and the heartbeat clock.
Where the code compares one with a threshold, both outcomes are allowed, so the
model has more behaviours than the code, never fewer.

### SubscriptionDispatcher

`global_subscriptions[i]` is the entry of `i`; an instrument without entry is
`NoEntry`, whose status `CANCELLED` is the one `get_subscription_status`
returns and no entry has. The thread variables `pc`, `failing`, `work` and
`affected` spell out the handlers that are not atomic:

* `handle_connection_failure` keeps `subscriptions_mutex_` throughout but reads
  the statuses of the connections, which their threads change meanwhile:
  `FailureBegin`, one `MigrateOne` for each instrument, `FailureEnd`.
* `process_pending_subscriptions` swaps the retry queue out and takes the mutex
  anew for each instrument: `TakeRetryQueue`, `RetryOne`.
* `remove_all_subscriptions_for_session` takes a snapshot, then removes one by
  one: `RemoveAllBegin`, `RemoveAllNext`.
* the maintenance thread runs `TakeRetryQueue`/`RetryOne`, then `Cleanup`.

Every other handler takes `subscriptions_mutex_` and keeps it to its end: one
action, enabled when nobody is in `migrate`. Choosing a connection and calling
`subscribe_instrument` on it is one step of such an action, and the scan of the
statuses in `get_available_connections` is atomic. A connection whose status
changes between the choice and the call refuses the call, which leaves the
entry `FAILED` and assigned to it; the model has that as a call that fails
(`CallsMayFail = TRUE`, in the run `dispatcher_handlers`; the theorems hold for either
value, those of `DispatcherUndisturbed_proofs` excepted). An error answer to a
subscription may name no instrument (a null `pSpecificInstrument`,
ctp_connection_manager.cpp:240): `SubscriptionFailed` then takes the answer and
changes nothing else. An answer without error is assumed to name its instrument. The retry counter is only
compared with `max_retry_count_`, so it stops there (`Bump`).
The four selection strategies choose among the same available connections and
differ in preference only: the model chooses any.

A callback thread that is inside the dispatcher (`pc[c] # "idle"`) delivers no
further callback, and `Release()` waits for it (`HealthRestart`).

### SubscriptionService

Three variables: who wants an instrument, how it is served (`none`, `serving`,
`failed`) and what each connection carries. In the dispatcher these are the
`requesting_sessions` of the entry, its status (`SUBSCRIBING` and `ACTIVE`
serve), and the records of the pool; in `SingleConnection` they are
`instrument_subscribers_`, a state computed from requests and streams (the
program keeps none), and what was asked for in this session. Its steps say what may happen
at all: a first session has the instrument asked for, only the last one's
leaving drops it, only what failed is rescued by another connection or given up,
and a connection may lose all it carries. It
promises no more than the code does, and that is less than one would wish: a loss may
go unnoticed (`Lose` with an empty set: a restart, an entry in progress), expiry
ends the claims of all sessions on a failed instrument (`GiveUp`), a late success
has a failed instrument count as served though no connection carries it (`Confirm`), and
nothing says that a failed instrument is served again. Who ends whose claim is
not in it, since it has no actors: `LiveClaimsEndByLeaving`, a property of the
dispatcher itself, says that.

### LongPoll and QuoteMirror

`CacheQuote`, `Notify` and `Wake` are the steps of a callback thread in
`cache_market_data`: it caches under one mutex, finds whom to wake (and takes
them out of `pending`) under two others, and then peeks for each without
holding those. `HandlePeek` is `handle_peek_message`, one step because it
holds the five mutexes of everything it touches: `Send` (full or difference),
`SendEmpty` (nothing cached yet), `Suspend` (no difference), or nothing at all
for a session without subscriptions. On the io thread a subscription changes
the session's own set first (`SubscribeBegin`) and `instrument_subscribers_`
last (`SubscribeEnd`); `handling` keeps the io thread busy in between, while
callback threads go on.

A quote is a function from fields to values and a message a function from names
to quotes. A name pairs an instrument with what it is called: with or without
exchange, as whoever subscribed last wrote it, for all sessions. No quote is the function
without fields, so that "no last message" is the blank picture and the first
full message is the difference to it. `Changed` and `Diff` are
`ComputeJsonDiff`: new and changed fields, nothing for what is gone. All quotes
have the same fields (`build_quote_data` writes `null` for an invalid price),
so no field disappears. The client is external: it merges answers in the order
they are sent.

`QuoteMirror` has no last messages, pending sessions or threads. Its one
delivery step puts the cache's quotes of all of a session's instruments into
the client's picture at once. `LongPoll` implements it with the same variables.

`Patient` (a constant) is what a client must do for the long poll to
be one: subscribe before it peeks, and change its subscriptions only when it has been answered.

### SessionServer

A session lives as long as something refers to it: the table `sessions_`, or a
handler Asio has still to run (`bind_front_handler(..., shared_from_this())`);
`handlers[s]` are those, and the step that drops the last reference runs the
destructor, which is `remove_session` (`DropHandler`). Handlers run on the io
thread; callback threads enter through `Notify` and `Wake` as in `LongPoll`, and
send to the session directly. `SendMessage` is `send_message` with `start_write`, under
`write_mutex_`: it appends, and whoever finds `is_writing_` false starts a
write with the front of the queue. Messages are numbered; `sent` and `written`
are what was sent and the last that was written. `link` is external.

`stop()` is spelled out: `StopBegin` takes `sessions_mutex_`, `CloseOne` closes
one session, `ClearOne` removes one from the table, `ClearEnd` releases the
mutex, `StopIo` ends the io thread, which first finishes the handler it is in. `CloseOne`
is the synchronous `ws_.close`: it closes the connection, or fails, which is
logged and leaves it as it is, or never returns (the main thread then takes no
step). A session that no handler refers to is destroyed by
`ClearOne` on the thread that has the mutex, and its destructor takes it again:
the server is `stuck`. `stop()` has a thread of its own here. In the program it is a
signal handler (main.cpp:19), which is the same as long as the signal reaches
the main thread, which sleeps.

There is one io thread, and it takes `sessions_mutex_` in three places: to enter
a session (:1123), for a peek (:1286) and in the destructor (:1168). When `stop()` has the
mutex it waits there, and no handler of any session runs: `io` says for what and
for whom it waits (`WaitForMutex`, `Destroyed`), `IoFree` is the guard of
every handler, and `Locks` is the step that gets the mutex, at once or when
`stop()` has released it. If `stop()` never does, the io thread waits for ever.

No step but `ClearOne` takes a session out of the table: `remove_session` is
called by the destructor only, and the table refers to every session in it. So
in the program a session's subscriptions are dropped (`RemoveAllBegin` in
`SubscriptionDispatcher`) when the server stops. The dispatcher's module lets it
happen at any time, which includes that.

### SingleConnection

`subscribers_mutex_` is held from the first look at `instrument_subscribers_` to
the call of the API, hence one action for a request. `ctp_login` is two, since
`ctp_logged_in_` is set after the request is sent and read by the io thread.
The front handles requests in their order; the callbacks only log, so its
answers are steps of the front alone. `faulted` is a history variable: the
instruments for which a call failed, an answer was an error, a request was made
before the flag was set, or which were wanted when a session was lost.

## 3. Runs

Nine runs pass, three find the violation they are there for.

| run | asks | bounds | shows |
|---|---|---|---|
| `pool` | `TypeOK`, `CapacityRespected`, `RequestsAlternate`, `RecordFollowsRequests`, `StreamsStayStoppable` | 2 connections, 2 instruments, 1 place, 3 unanswered requests, 3 faults of every kind | limit, order of requests and record hold with any callers, lost sessions, restarts, rejections; a stream escapes by a refused unsubscribe alone |
| `pool_recovery` | `Recovers` (liveness) | 2 connections, 3 rejected logins | the health check brings every connection back |
| `pool_restart_race` | `LoggedInHasApi` | 1 connection, 2 faults | **violated**: finding 1 |
| `pool_relogin` | `RecordedIsRequested` | 1 connection, 1 lost session | **violated**: finding 2 |
| `dispatcher` | `TypeOK`, `TablesAgree`, `MigrationListIsFresh`, `OnlyTheLastUnsubscribes`, `LiveClaimsEndByLeaving`, `ServiceSpec` (refinement) | 2 connections, 1 instrument, 2 sessions, 2 retries, 2 faults of every kind | the tables agree, failover is safe, a live instrument is taken from no session, and the service is the promised one, whatever fails |
| `dispatcher_normal` | `RecordsMatchAssignments`, `SubscribingIsRequested`, `StreamsFollowAssignments`, `LeftForGood` | 2 connections, 2 instruments, 2 sessions, 1 place, 2 unanswered requests, 1 fault of any kind and restarts, `Undisturbed` | with nothing failing that carries something, the pool carries exactly what the dispatcher thinks, and the front streams it, in every order of requests and late answers |
| `dispatcher_handlers` | `HandlersReturn` (liveness), `HandlersAdvance` | 2 connections, 1 instrument, 2 faults, calls may fail | no handler blocks or loops for ever, nor is given more to do |
| `dispatcher_failover` | `FailoverLeavesNothing` | 1 lost session | **violated**: finding 3 |
| `longpoll` | `TypeOK`, `PictureIsLastSent`, `MirrorSpec` (refinement) | 1 client, 1 instrument with 2 names, 2 fields, 2 values, 2 threads | the differences are right, whatever the client does |
| `longpoll_waiting` | `NoLostWakeup`, `PeekIsRemembered`, `NewsIsDelivered` (liveness) | 2 patient clients, 1 instrument, 2 threads | who waits misses nothing, and is answered while there is news |
| `sessions` | `TypeOK`, `InOrder`, `WriterIsWriting`, `OpenSessionReads`, `GoneForGood`, `Delivered` (liveness) | 2 sessions, 1 callback thread beside the io thread and `stop()`, 3 messages each | order, one writer, nothing left behind or pending, with connections that end, a server that stops at any moment and an io thread that has to wait for it |
| `single` | `TypeOK`, `LoginGoesFirst`, `StreamsFollowWishes`, `ServiceSpec` (refinement) | 2 instruments, 2 sessions, 4 unanswered requests, 3 sessions with the front | the mode without dispatcher keeps the same promises |

**Bounds.** `LongPoll` is finite as it is: nothing in it counts. Two threads are
the least with which one caches while another notifies or wakes, two values the
least with which a quote changes and changes back, two clients the least with
which one is woken and the other forgotten. That the news may be of another
instrument than the last is left to `NoWakeupEverLost`, which has any number. The other modules need bounds.
`MaxRequests` bounds the requests a session may leave unanswered
before callers pause; three are enough for subscribe, unsubscribe, subscribe of
one instrument to overlap with their answers. `MaxFaults` bounds steps that go
wrong outside the program (`FaultKinds`: lost session, rejected login, error
storm, heartbeat timeout, rejected subscribe, rejected unsubscribe); two are enough for a
failure during the recovery from another. Two connections are the least with
which failover has somewhere to go, two sessions the least with which one
leaves and one stays, and with one place for two instruments the limit is reached. `MaxRetry = 2` leaves one retry
that fails and one that is the last. Restarts are not counted as faults: the
kind `restart` only switches the health check on. The run `dispatcher` has
`CallsMayFail = FALSE` to stay small; the theorems cover its properties
for `TRUE` as well.

`dispatcher_normal` checks `UndisturbedSpec`, which is `Spec` with
`[][Undisturbed]_vars`: connections may be lost, restarted, refused a login or
marked as failed, but only while nothing is recorded on them, and the front
refuses no subscription that is still wanted. These are the hypotheses of the
theorems of `DispatcherUndisturbed_proofs`; the states in which an idle connection
comes and goes under the others' traffic are among those the run reaches.

`SessionServer`: three messages are the least with which one is being written
and two wait (so that their order can go wrong); with one callback thread and
the io thread there are two senders. `SingleConnection`: three sessions with the
front, so that the flag of the first is met in the second, which is lost again; four requests hold the
login and a subscribe, unsubscribe, subscribe behind it.

**Fairness.** `Recovers`: the health timer and the callback threads run, and the
front answers a connection attempt and a login (each login rejected uses up a
fault). Nothing is assumed of the callers, and calls do not fail.
`HandlersReturn`: a thread inside a handler goes on, and the maintenance thread
reaches `Cleanup`. That is the operating system's scheduling and nothing more:
neither sessions, nor the front, nor the timer is assumed to do anything.
`NewsIsDelivered` assumes the same of the callback threads and of a request the
io thread is in; no quote need arrive and no client need ask. `Delivered` assumes that the io thread, while it
waits for no mutex, runs the handler of a write, which ends with or without error (`WF`
of `Write(s)`, whose guard has `IoFree`); clients, callback threads and `stop()` may do nothing
for ever. That a write ends is the stream's idle timeout (market_data_server.cpp:152): a
client that reads nothing is disconnected. While `stop()` has `sessions_mutex_` the io thread may wait for it, and
then nothing is promised: this is the escape `~IoFree` of `Delivered`, and a
hazard of its own (:970). While the server runs, the others who hold that mutex hold it
for steps that end. The
`HandlersReturn` run has no restarts: a thread that holds `subscriptions_mutex_` waits for
`api_mutex_`, `stop()` has `api_mutex_` and waits in `Release()` for the
callback, which waits for `subscriptions_mutex_`. Whether it blocks depends on `Release()`,
which is not in the repository; it is recorded as a hazard.

## 4. Findings

1. **A restart can strand a connection.** `stop()` sets `DISCONNECTED` before
   `Release()` ends the callback thread (ctp_connection_manager.cpp:87). A login
   answered in between sets `LOGGED_IN`; `start()` then refuses (:45). The
   connection counts as available without an API object.
2. **After a reconnection nothing is subscribed.** `subscribed_instruments_`
   outlives the session (:199) and nobody asks again; the early return of
   `subscribe_instrument` says "already subscribed".
3. **Failover skips what is in progress.** Only `ACTIVE` entries migrate
   (subscription_dispatcher.cpp:340); a `SUBSCRIBING` one stays on the lost
   connection for ever.

More disagreements are behaviours of the models and have no run of their own;
where one would break a property, it is what the assumptions of the passing runs
keep out:

* A rejected subscription stays in the record (ctp_connection_manager.cpp:237), so its retry
  on the same connection returns `true` and sends nothing: the entry is
  `SUBSCRIBING` with no request (`Undisturbed` keeps such rejections out).
* A late success revives an entry that nobody serves, with nothing failing at
  all. A session subscribes to an instrument and unsubscribes it at once; another
  instrument takes the last place; the first one is subscribed again and, for
  want of a place, is `FAILED` without a connection. Then the answer to the first
  request arrives, and `on_subscription_success` (subscription_dispatcher.cpp:397) sets
  `ACTIVE`, "subscribed" (subscription_dispatcher.h:30), looking neither at the
  status nor at the connection. No connection carries the instrument, and
  `ACTIVE` is what failover, retry and expiry leave alone.
  `LiveAlwaysCarried` shows that, undisturbed, it is the only way to such an entry.
* A heartbeat timeout migrates without unsubscribing (:631). If the silent
  connection speaks again, the instrument is subscribed on two.
* A peek before the first subscription is neither answered nor remembered
  (market_data_server.cpp:1299); `Patient` clients do not send one.
* A waiting client that subscribes to an instrument already cached goes on
  waiting until the next quote (market_data_server.cpp:1197 does not look at
  `pending_peek_sessions_`), although src/README.md:507 suspends a request only
  while there is nothing new. `Patient` clients do not change their subscriptions while they wait.
* Sessions that disconnect are not cleaned up (src/README.md:186 says they are):
  they stay in `sessions_` with their subscriptions until `stop()`.
* `stop()` locks itself out if the handlers of a session have ended before
  (market_data_server.cpp:974), which by the previous point is so for every
  client that left: the state `stuck` of `SessionServer`.
* In the single-connection mode nothing is subscribed again after a lost session;
  a sole subscriber that subscribes again has the request repeated, others do not. A
  failed call is only logged.
* `RedisClient` never reopens a lost connection (src/README.md:147 says it does);
  it is not modelled.

## 5. Proofs

For any sets of connections, instruments and sessions (finite sets of
instruments), any `MaxSubscriptions` and `MaxRetry`, any numbers of threads and messages; the assumptions are the
`ASSUME`s of the modules.

* `PoolTypeCorrect`, `PoolCapacity`. The type invariant is inductive; capacity
  follows by induction with it, from the cardinality of a set with one element
  more, and `StepOfOneConnection` (a step touches one connection).
* `PoolRequestsMatchRecord`. Neither `RequestsAlternate` nor
  `RecordFollowsRequests` is inductive: that a new request alternates with the
  last one is because the record agrees with the last one, and that the record
  still agrees is because the queue alternates when its head is answered. The
  conjunction with `TypeOK` is inductive: `NewRequest` is the lemma for
  appending, `OldestAnswered` the one for removing the head.
* `PoolStreamsStayStoppable`, an action property. It needs `AllAnswerable`
  (`PoolAnswerable`): a request to subscribe is unanswered only while the record
  has the instrument or a later request stops it, so that a stream that begins can be stopped.
* Why the pool can fail (`PoolHasApi`, `PoolRecordedIsRequested`). Two properties
  that the runs refute are theorems once their cause is excluded, which shows that it is the only
  one: a login answered while `stop()` waits (`StopsNotOvertaken`), and a
  session lost with its record kept or a refused subscription left in it
  (`RecordsAreSpared`). The inductive invariants add that a connection in `stop()` is not `LOGGED_IN`, and
  that what is recorded streams or has a request under way, whatever the status
  (`NothingInVain`).
* `PoolStreamsFollowRecord`, `PoolCarriersStayOpen`: with nothing refused either
  (`StopsAreGranted`), what streams is what is recorded wherever nothing is unanswered;
  and a connection that is spared while it carries something stays logged in.
* `DispatcherUsesPool`: `Spec => Pool!Spec`. Every step of the dispatcher is a
  step of the pool with some caller, or leaves it alone. With `SamePool` it
  carries the three theorems above to the dispatcher
  (`PoolInvariantsUnderDispatcher`), where they are not proved again.
* `TablesTypeCorrect`, `DispatcherTypeCorrect`. The dispatcher's type
  invariant needs `RetryHasWork` (a thread in the retry loop has something
  left), since the loop takes `Head` and `Tail`.
* `AgreementHolds`, with `TablesAlwaysAgree` and `MigrationIsAlwaysFresh` as
  corollaries. The strengthening is `Exclusive`: at most one thread is in `migrate`, and only the one
  in it has a nonempty list. Then whoever writes an entry is outside while the
  list exists, except the owner, who removes what it writes from the list.
* `OnlyTheLastEverUnsubscribes`, `SessionsLeaveForGood`. The first is an action
  property: besides the end of `stop()`, only a session's removal shrinks a
  connection's record, and it does so when the requesters are gone. The second rests on
  `LeavingIsRest` (what a leaving session still has is in its snapshot) and on
  the agreement of the tables.
* `HandlersAlwaysAdvance`, an action property: a thread in a handler gets nearer to
  its end (a shorter list, a shorter queue, the next place) or is left alone. With
  the scheduler's fairness that is `HandlersReturn`; the step from one to the other
  is temporal and stays with TLC.
* `FailoverMissesOnlyThat`: the third refuted property, again with its causes
  excluded. `NothingIsMissed` names three: `stop()` of a connection that carries something, an
  entry `SUBSCRIBING` when the loss is handled, a late success that finds its
  entry `FAILED`. TLC refutes the property without any one of
  the three. The inductive invariant is `LostIsCleared`, with `OnlyAvailableTakes`
  (entries become live on available connections only) and `ReportsAlwaysFounded`.
* `RecordsAlwaysMatch`, `SubscribingAlwaysRequested`, `StreamsAlwaysFollow`, for
  behaviours with `[][Undisturbed]_vars` and calls that do not fail (without either,
  the code does not have these properties: section 4). The inductive invariant is `RecordsInv`: the
  records match, a `FAILED` entry is recorded nowhere (`FailedIsUnassigned`: else a
  retry would carry it twice), and a `SUBSCRIBING` one has its request unanswered on its own
  connection (`SubscribingIsAsked`: else its answer could be that of another). Its steps use the
  tables' agreement and that carriers stay open, taken from the pool through
  `DispatcherUsesPool`. `StreamsAlwaysFollow` joins it with `PoolStreamsFollowRecord`,
  whose hypotheses follow from `Undisturbed` (`UndisturbedPool`). `LiveAlwaysCarried` adds that a live entry has a
  connection, unless a late success revived it.
* `ServiceIsFounded`, `ServiceRespectsCapacity`, `DropsAreWithTheLast`: what
  `SubscriptionService` promises, so that implementing it says something.
* `DispatcherKeepsClaims`: while an entry is `SUBSCRIBING` or `ACTIVE`, a session
  ceases to be one of its requesters only in a step of its own, `RemoveSubscription` or
  `RemoveAllNext`. It is an action property of the dispatcher, with one lemma
  for each kind of step: who else writes `sessions` either keeps them or (`Cleanup`)
  erases an entry that is `FAILED`.
* `DispatcherServes`: `Spec => Service!Spec` under the refinement mapping of
  `ServiceOf`. Each handler maps to one step of the service or to none; what
  makes the guards hold is proved before: entries and wishes agree
  (`TablesAgree`), what failover works on is failed (`MigrationListIsFresh`),
  and the pool's capacity.
* `PollTypeCorrect`, `PictureAlwaysLastSent`, `PollMirrors`. The type of a picture
  depends on the agreement of picture and last message (a difference alone is not a quote),
  so the two are one invariant. `MergeOfChanged` (one quote) and `MergeOfDiff`
  (a message) are the lemmas about the pure functions: merging the difference
  into what one had yields the new message and keeps the rest. `PollStep` maps
  every step to a step of `QuoteMirror` or to none.
* `NoWakeupEverLost`, `PeekAlwaysRemembered`, for patient clients. Strengthened
  by `SubscribersFollow` (the two subscription tables differ only for the request
  being handled), `HandledIsAnswered` (which is of a client that does not
  wait), `WaitersSubscribe` and `WakersWake`.

* `SessionsTypeCorrect`, `WriterInvariant`, with `SessionsWriterIsWriting` and
  `SessionsInOrder` as corollaries: neither is inductive alone, because the order
  of what is unwritten depends on the flag, and what the flag says depends on
  which write is under way. `WriterInv` has both, the numbering of what is
  unwritten (`Gapless`), and that only sessions that were connected are waited for (`WaitersConnected`).
* `SessionsOpenSessionReads`, from what the link says of the handlers before the handshake. `SessionsGoneForGood`, from the invariant that whoever is pending is
  in the table or has a handler: the destructor is a part of the step that takes
  away the last of them, and a peek enters nobody who is not in the table. While the destructor waits for
  `sessions_mutex_` its session may be pending; the invariant keeps it apart until `EndDestroy`.
* `SingleTypeCorrect`, `SingleLoginGoesFirst` (`FirstInv`: before the front has
  logged in, the oldest request of the first session is the login, and while there is
  none the flag is not set),
  `SingleStreamsFollowWishes` (`WishInv`: without fault, what is wanted
  is what the last unanswered request says, or what streams if there is none).
* `SingleServes`: `Spec => Service!Spec`, the second implementation of the same
  service.

Model-checked only: the liveness properties `Recovers`, `HandlersReturn`,
`NewsIsDelivered` and `Delivered`, since the prover reasons neither about
fairness nor about `ENABLED`. Every invariant and action property that a passing
run checks is a theorem; the three properties that runs refute are theorems with
their causes as hypotheses. A hypothesis `[][A]_vars` says what does not go wrong
outside (at the front, in the network, in the timing of callbacks), and nothing of
what the program does about the rest: under `Undisturbed` connections are lost,
refused and restarted while they carry nothing. `dispatcher_normal` checks its theorems' conclusions under the same
hypothesis, so it is not empty.

## 6. Not modelled

* The conversion of a CTP record into a quote (`build_quote_data`, 280 lines of
  fields and number formats), searching and listing instruments: no state.
* The four selection strategies and `get_statistics`: preferences among
  available connections and numbers that are only logged. Every choice a
  strategy can make is one the models allow.
* The end of the process after `stop()`: destructors of the server, the
  dispatcher and the pool, which run when nothing is left that could observe them.
  The order in them is listed as a hazard (market_data_server.cpp:1651).
* Data races: the io thread changes a session's set and the map of exchange
  prefixes without a lock that callback threads take; `remove_session` reads
  `sessions_` under the wrong mutex in the single-connection mode (:1138, it finds nothing
  there); `async_write` starts on callback threads, off the strand of its stream (:434). The
  models have every order of whole accesses, not a torn container or stream.
* `RedisClient`: one mutex around one blocking exchange, no state but the
  connection; nobody waits for it. A history is trimmed by age, not by size (:1512).
* `MultiCTPConfig` (read once before anything runs), `main` (command line and a
  status line), the shared-memory instrument table (read only).
* The vendored CTP headers and rapidjson, which are most of the repository's
  lines. The gateway itself is the 4500 lines of `src/src/`; what it relies on
  of CTP is external in `CTPConnection` and `SingleConnection`.

What remains worth doing: the strategies as operators with what each promises,
and the safety cores of `Recovers` and `NewsIsDelivered` as action properties, as
`HandlersAdvance` is of `HandlersReturn`.
